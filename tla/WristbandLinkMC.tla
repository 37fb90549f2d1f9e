---------------------------- MODULE WristbandLinkMC ----------------------------
EXTENDS WristbandLink, TLC
CONSTANTS i1, e1
=============================================================================
