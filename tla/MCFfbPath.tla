------------------------------ MODULE MCFfbPath ------------------------------
EXTENDS FfbPath
CONSTANT e1
MCOne == {e1}
MCLevels == {0, 1}
MCOutcomes == {"ok", "error"}
MCSettings == {[kind |-> "SetGain", level |-> 0]}
=============================================================================
