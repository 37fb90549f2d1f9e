----------------------------- MODULE IssueRepoMC -----------------------------
(***************************************************************************)
(* Model values for the ledger: seats and wristbands are interchangeable.  *)
(***************************************************************************)
EXTENDS IssueRepo, TLC

CONSTANTS w1, w2, s1, s2, free

MCWristbands == {w1, w2}
MCSeats == {s1, s2}

=============================================================================
