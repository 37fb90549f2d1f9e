------------------------------ MODULE IssueRepo ------------------------------
(***************************************************************************)
(* adapters/persistence/sqlite_repo.py: the `issues` table and the two     *)
(* calls that change it.  Every method runs under one threading.Lock and   *)
(* commits before it returns, so each is one atomic action; a refused      *)
(* record_issue (ActiveIssueConflictError) changes nothing.  The row id is *)
(* the position in the sequence (AUTOINCREMENT); names and timestamps are  *)
(* left out.                                                               *)
(***************************************************************************)
EXTENDS Naturals, Sequences, FiniteSets

CONSTANTS Wristbands,   \* wristband_id values
          Seats,        \* seat values
          Free,         \* no seat, for the abstract registry
          MaxRows       \* bound: rows ever inserted

ASSUME RepoConstants == Free \notin Seats /\ MaxRows \in Nat

VARIABLE rows

Row == [wid : Wristbands, seat : Seats, returned : BOOLEAN]

Init == rows = <<>>

IsActive(i) == ~rows[i].returned

FindActiveByWristband(w) ==
  {i \in DOMAIN rows : IsActive(i) /\ rows[i].wid = w}

FindActiveBySeat(s) ==
  {i \in DOMAIN rows : IsActive(i) /\ rows[i].seat = s}

\* Mutant: the seat is not checked.
ConflictOnWristbandOnly(w, s) == FindActiveByWristband(w) # {}

\* What makes record_issue raise ActiveIssueConflictError.
Conflict(w, s) == FindActiveByWristband(w) # {} \/ FindActiveBySeat(s) # {}

\* Mutant: the columns are mixed up.
InsertSwapped(w, s) ==
  /\ ~Conflict(w, s)
  /\ Len(rows) < MaxRows
  /\ rows' = Append(rows, [wid |-> s, seat |-> w, returned |-> FALSE])

\* One insert; a refused call raises and changes nothing.
RecordIssue(w, s) ==
  /\ ~Conflict(w, s)
  /\ Len(rows) < MaxRows
  /\ rows' = Append(rows, [wid |-> w, seat |-> s, returned |-> FALSE])

\* Mutants: the row is deleted; every row is stamped.
ReturnDeletes(w) == rows' = SelectSeq(rows, LAMBDA r : r.wid # w)

ReturnAll(w) == rows' = [i \in DOMAIN rows |-> [rows[i] EXCEPT !.returned = TRUE]]

\* UPDATE ... WHERE wristband_id = ? AND returned_at IS NULL.
RecordReturn(w) ==
  rows' = [i \in DOMAIN rows |->
             [rows[i] EXCEPT !.returned = @ \/ rows[i].wid = w]]

Next == \E w \in Wristbands :
          \/ \E s \in Seats : RecordIssue(w, s)
          \/ RecordReturn(w)

Spec == Init /\ [][Next]_rows

-----------------------------------------------------------------------------

\* The table holds rows of wristbands and seats only (the columns are not mixed up).
TypeOK == rows \in Seq(Row)

\* record_issue's promise: whatever the order of calls, no wristband is out twice and no
\* seat is out twice. The schema has no UNIQUE index; only the check inside the lock does this.
OneActiveIssue ==
  \A i, j \in DOMAIN rows :
    /\ IsActive(i) /\ IsActive(j)
    /\ rows[i].wid = rows[j].wid \/ rows[i].seat = rows[j].seat
    => i = j

\* The table is a ledger: record_return stamps the rows of its wristband and no others, no row
\* is deleted or rewritten, and a returned row never becomes active again.
LedgerStep ==
  /\ Len(rows) <= Len(rows')
  /\ \A i \in DOMAIN rows :
       /\ rows'[i].wid = rows[i].wid
       /\ rows'[i].seat = rows[i].seat
       /\ rows[i].returned => rows'[i].returned

LedgerKept == [][LedgerStep]_rows

\* The seat each wristband is out with, which the ledger determines.
SeatOf ==
  [w \in Wristbands |->
     IF FindActiveByWristband(w) = {} THEN Free
     ELSE rows[CHOOSE i \in FindActiveByWristband(w) : TRUE].seat]

Registry == INSTANCE IssueRegistry WITH seatOf <- SeatOf

\* The table implements the registry: each insert assigns one free seat to one free wristband,
\* and each return releases exactly one wristband or, when it has no active row, nothing.
ImplementsRegistry == Registry!Spec

=============================================================================
