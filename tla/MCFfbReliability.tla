--------------------------- MODULE MCFfbReliability ---------------------------
EXTENDS FfbReliability
CONSTANT e1
MCOne == {e1}
MCLevels == {0, 1}
MCOutcomes == {"ok"}
MCRequests == [kind : {"Upload", "Play", "Stop"}, effect_id : {e1}]
=============================================================================
