----------------------------- MODULE MCEffectPath -----------------------------
EXTENDS EffectPath
MCOne == {0}
MCTwo == {0, 1}
MCLevels == {0, 1, 2}
MCStrengths == {-1, 1}
MCPositive == {1}
MCLengths == {0, 1}
MCAny == {"ok", "error"}
MCOk == {"ok"}
=============================================================================
