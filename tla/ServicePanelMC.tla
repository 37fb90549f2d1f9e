---------------------------- MODULE ServicePanelMC ----------------------------
EXTENDS ServicePanel, TLC
CONSTANTS a1, a2, t1, blink
=============================================================================
