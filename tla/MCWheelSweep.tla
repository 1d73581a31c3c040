---------------------------- MODULE MCWheelSweep ----------------------------
EXTENDS WheelSweep
MCFirst == - I16_MAX - 2
MCLast == U16_MAX + 1
=============================================================================
