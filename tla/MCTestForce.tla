----------------------------- MODULE MCTestForce -----------------------------
EXTENDS TestForce
MCEffects == {1}
MCLevels == {0, 1}
MCAny == {"ok", "error"}
=============================================================================
