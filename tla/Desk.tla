-------------------------------- MODULE Desk --------------------------------
(***************************************************************************)
(* The outcomes of docs/flows.md: the desk does one procedure at a time,   *)
(* each has one look at a face or a wristband and at most one outcome, and *)
(* the outcome stands on what was typed and looked at in this very         *)
(* procedure.  Sockets, awaits, tasks and failures do not show; the        *)
(* refusal on the contact flag and the blanking of a returned wristband    *)
(* are not part of it.                                                     *)
(***************************************************************************)
CONSTANTS Wristbands, Seats,
          Looks,              \* embeddings, of a camera or of a wristband
          Free, NoSeat, NoLook

VARIABLES
  doing,      \* the procedure, or "none"
  seat,       \* what was typed for it
  look,       \* issue: the face captured; entry: the face the wristband keeps
  settled,    \* its outcome is out
  seatOf,     \* the seat each wristband is out with, or Free
  passes      \* PASSes under way to the gate: the face admitted, the look it resembles

vars == <<doing, seat, look, settled, seatOf, passes>>

Init ==
  /\ doing = "none" /\ seat = NoSeat /\ look = NoLook /\ settled = FALSE
  /\ seatOf = [w \in Wristbands |-> Free] /\ passes = {}

\* A seat is typed for an issue and for nothing else.
Begin(f, s) ==
  /\ doing = "none" /\ (s # NoSeat <=> f = "issue")
  /\ doing' = f /\ seat' = s
  /\ UNCHANGED <<look, settled, seatOf, passes>>

\* Once: nobody replaces the look of a procedure.
Look(l) ==
  /\ doing \in {"issue", "entry"} /\ look = NoLook /\ ~settled
  /\ look' = l
  /\ UNCHANGED <<doing, seat, settled, seatOf, passes>>

Settle ==
  /\ ~settled /\ settled' = TRUE
  /\ UNCHANGED <<doing, seat, look>>

HandOut(w) ==
  /\ doing = "issue" /\ look # NoLook /\ Settle
  /\ seatOf[w] = Free /\ \A v \in Wristbands : seatOf[v] # seat
  /\ seatOf' = [seatOf EXCEPT ![w] = seat]
  /\ UNCHANGED passes

\* A wristband that was not out is taken back all the same.
TakeBack ==
  /\ doing = "return" /\ Settle
  /\ UNCHANGED seatOf \/ \E w \in Wristbands : seatOf' = [seatOf EXCEPT ![w] = Free]
  /\ UNCHANGED passes

Decide(l) ==
  /\ doing = "entry" /\ look # NoLook /\ Settle
  /\ passes' \in {passes, passes \cup {[live |-> l, ref |-> look]}}
  /\ UNCHANGED seatOf

\* The gate has answered, or has been waited for long enough.
Answered ==
  /\ passes' \in SUBSET passes
  /\ UNCHANGED <<doing, seat, look, settled, seatOf>>

\* With or without an outcome; a restart takes the PASSes with it.
End ==
  /\ doing # "none"
  /\ doing' = "none" /\ seat' = NoSeat /\ look' = NoLook /\ settled' = FALSE
  /\ passes' \in SUBSET passes
  /\ UNCHANGED seatOf

Next ==
  \/ \E f \in {"issue", "entry", "return"}, s \in Seats \cup {NoSeat} : Begin(f, s)
  \/ \E l \in Looks : Look(l) \/ Decide(l)
  \/ \E w \in Wristbands : HandOut(w)
  \/ TakeBack
  \/ Answered
  \/ End

Spec == Init /\ [][Next]_vars

=============================================================================
