---------------------------- MODULE IssueRegistry ----------------------------
(***************************************************************************)
(* What the issue table promises to the three flows: a wristband is out    *)
(* with at most one seat, a seat is out with at most one wristband, and    *)
(* handing a wristband back frees both.                                    *)
(***************************************************************************)
CONSTANTS Wristbands, Seats, Free

VARIABLE seatOf     \* the seat a wristband is out with, or Free

Init == seatOf = [w \in Wristbands |-> Free]

Assign(w, s) ==
  /\ seatOf[w] = Free
  /\ \A v \in Wristbands : seatOf[v] # s
  /\ seatOf' = [seatOf EXCEPT ![w] = s]

Release(w) ==
  /\ seatOf[w] # Free
  /\ seatOf' = [seatOf EXCEPT ![w] = Free]

Next == \E w \in Wristbands :
          \/ \E s \in Seats : Assign(w, s)
          \/ Release(w)

Spec == Init /\ [][Next]_seatOf

=============================================================================
