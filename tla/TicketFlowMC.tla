---------------------------- MODULE TicketFlowMC ----------------------------
EXTENDS TicketFlow, TLC
CONSTANTS a1, a2, t1, t2, b1, b2, f1, f2, s1, s2
Interchangeable ==
  Permutations(Admins) \cup Permutations(Tablets) \cup Permutations(Bands)
    \cup Permutations(Faces) \cup Permutations(Seats)
=============================================================================
