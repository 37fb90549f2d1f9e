--------------------------- MODULE OperatorDeviceMC ---------------------------
EXTENDS OperatorDevice, TLC
CONSTANTS c1, c2, p1, p2
=============================================================================
