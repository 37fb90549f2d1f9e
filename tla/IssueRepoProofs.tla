--------------------------- MODULE IssueRepoProofs ---------------------------
(***************************************************************************)
(* Proofs about IssueRepo for any number of wristbands, seats and rows:    *)
(* the table stays well formed, no wristband and no seat is out twice, the *)
(* table is a ledger, and it implements IssueRegistry.                     *)
(***************************************************************************)
EXTENDS IssueRepo, SequenceTheorems, TLAPS

\* Together TypeOK and OneActiveIssue are inductive.
Inv == TypeOK /\ OneActiveIssue

-----------------------------------------------------------------------------
(* What the two calls do to the rows *)

\* record_issue appends one active row and leaves the others alone.
LEMMA Appended ==
  ASSUME TypeOK, NEW w \in Wristbands, NEW s \in Seats, RecordIssue(w, s)
  PROVE  /\ rows' \in Seq(Row)
         /\ Len(rows') = Len(rows) + 1
         /\ DOMAIN rows = 1 .. Len(rows)
         /\ DOMAIN rows' = 1 .. Len(rows) + 1
         /\ \A i \in DOMAIN rows : rows'[i] = rows[i]
         /\ rows'[Len(rows) + 1] = [wid |-> w, seat |-> s, returned |-> FALSE]
<1>1. rows \in Seq(Row) /\ Len(rows) \in Nat
  BY DEF TypeOK
<1>2. [wid |-> w, seat |-> s, returned |-> FALSE] \in Row
  BY DEF Row
<1>3. rows' = Append(rows, [wid |-> w, seat |-> s, returned |-> FALSE])
  BY DEF RecordIssue
<1> QED
  BY <1>1, <1>2, <1>3

\* record_return keeps every row and only turns rows of its wristband to returned.
LEMMA Stamped ==
  ASSUME TypeOK, NEW w \in Wristbands, RecordReturn(w)
  PROVE  /\ rows' \in Seq(Row)
         /\ Len(rows') = Len(rows)
         /\ DOMAIN rows' = DOMAIN rows
         /\ \A i \in DOMAIN rows :
              /\ rows'[i].wid = rows[i].wid
              /\ rows'[i].seat = rows[i].seat
              /\ rows'[i].returned = (rows[i].returned \/ rows[i].wid = w)
              /\ rows[i].returned => rows'[i].returned
<1>1. rows \in Seq(Row) /\ Len(rows) \in Nat /\ DOMAIN rows = 1 .. Len(rows)
  BY DEF TypeOK
<1>2. \A i \in DOMAIN rows : rows[i] \in Row
  BY <1>1
<1>3. rows' = [i \in DOMAIN rows |->
                 [rows[i] EXCEPT !.returned = @ \/ rows[i].wid = w]]
  BY DEF RecordReturn
<1>4. \A i \in DOMAIN rows :
        /\ rows'[i] \in Row
        /\ rows'[i].wid = rows[i].wid
        /\ rows'[i].seat = rows[i].seat
        /\ rows'[i].returned = (rows[i].returned \/ rows[i].wid = w)
        /\ rows[i].returned => rows'[i].returned
  BY <1>2, <1>3 DEF Row
<1>5. rows' \in [1 .. Len(rows) -> Row]
  BY <1>1, <1>3, <1>4
<1>6. rows' \in Seq(Row) /\ Len(rows') = Len(rows) /\ DOMAIN rows' = DOMAIN rows
  BY <1>1, <1>5, SeqDef, LenProperties
<1> QED
  BY <1>4, <1>6

-----------------------------------------------------------------------------
(* The invariant *)

LEMMA InvInit == Init => Inv
  BY DEF Init, Inv, TypeOK, OneActiveIssue

LEMMA InvRecordIssue ==
  ASSUME Inv, NEW w \in Wristbands, NEW s \in Seats, RecordIssue(w, s)
  PROVE  Inv'
<1>1. TypeOK /\ OneActiveIssue
  BY DEF Inv
<1>2. Len(rows) \in Nat
  BY <1>1 DEF TypeOK
<1>3. \A i \in DOMAIN rows : IsActive(i) => rows[i].wid # w /\ rows[i].seat # s
  BY DEF RecordIssue, Conflict, FindActiveByWristband, FindActiveBySeat
<1>4. /\ Len(rows') = Len(rows) + 1
      /\ DOMAIN rows = 1 .. Len(rows)
      /\ DOMAIN rows' = 1 .. Len(rows) + 1
      /\ \A i \in DOMAIN rows : rows'[i] = rows[i]
      /\ rows'[Len(rows) + 1] = [wid |-> w, seat |-> s, returned |-> FALSE]
  BY <1>1, Appended
<1>5. OneActiveIssue'
  <2> SUFFICES ASSUME NEW i \in DOMAIN rows', NEW j \in DOMAIN rows',
                      IsActive(i)', IsActive(j)',
                      rows'[i].wid = rows'[j].wid \/ rows'[i].seat = rows'[j].seat
               PROVE  i = j
    BY DEF OneActiveIssue
  <2>1. CASE i \in DOMAIN rows /\ j \in DOMAIN rows
    BY <1>1, <1>4, <2>1 DEF OneActiveIssue, IsActive
  <2>2. CASE i = Len(rows) + 1 /\ j \in DOMAIN rows
    BY <1>3, <1>4, <2>2 DEF IsActive
  <2>3. CASE i \in DOMAIN rows /\ j = Len(rows) + 1
    BY <1>3, <1>4, <2>3 DEF IsActive
  <2>4. \A k \in DOMAIN rows' : k \in DOMAIN rows \/ k = Len(rows) + 1
    BY <1>2, <1>4
  <2> QED
    BY <2>1, <2>2, <2>3, <2>4
<1> QED
  BY <1>1, <1>5, Appended DEF Inv, TypeOK

LEMMA InvRecordReturn ==
  ASSUME Inv, NEW w \in Wristbands, RecordReturn(w)
  PROVE  Inv'
<1>1. TypeOK /\ OneActiveIssue
  BY DEF Inv
<1>2. \A i \in DOMAIN rows : IsActive(i)' => IsActive(i)
  BY <1>1, Stamped DEF IsActive
<1>3. OneActiveIssue'
  BY <1>1, <1>2, Stamped DEF OneActiveIssue
<1> QED
  BY <1>1, <1>3, Stamped DEF Inv, TypeOK

LEMMA InvNext == Inv /\ [Next]_rows => Inv'
<1> SUFFICES ASSUME Inv, [Next]_rows PROVE Inv'
  OBVIOUS
<1>1. CASE UNCHANGED rows
  BY <1>1 DEF Inv, TypeOK, OneActiveIssue, IsActive
<1>2. ASSUME NEW w \in Wristbands, NEW s \in Seats, RecordIssue(w, s) PROVE Inv'
  BY <1>2, InvRecordIssue
<1>3. ASSUME NEW w \in Wristbands, RecordReturn(w) PROVE Inv'
  BY <1>3, InvRecordReturn
<1> QED
  BY <1>1, <1>2, <1>3 DEF Next

LEMMA SpecInv == Spec => []Inv
<1> QED
  BY InvInit, InvNext, PTL DEF Spec

\* Whatever sequence of calls, the table holds rows of wristbands and seats only.
THEOREM TableTypeOK == Spec => []TypeOK
<1>1. Inv => TypeOK
  BY DEF Inv
<1> QED
  BY <1>1, SpecInv, PTL

\* No wristband and no seat is ever out twice: the check inside record_issue is enough, and
\* neither record_return nor the order of calls can undo it.
THEOREM TableOneActiveIssue == Spec => []OneActiveIssue
<1>1. Inv => OneActiveIssue
  BY DEF Inv
<1> QED
  BY <1>1, SpecInv, PTL

\* No call deletes a row, rewrites one or makes a returned row active again.
THEOREM TableLedgerKept == Spec => LedgerKept
<1>1. Inv /\ [Next]_rows => [LedgerStep]_rows
  <2> SUFFICES ASSUME Inv, Next PROVE LedgerStep
    OBVIOUS
  <2>1. TypeOK /\ Len(rows) \in Nat
    BY DEF Inv, TypeOK
  <2>2. ASSUME NEW w \in Wristbands, NEW s \in Seats, RecordIssue(w, s) PROVE LedgerStep
    <3>1. /\ Len(rows') = Len(rows) + 1
          /\ \A i \in DOMAIN rows : rows'[i] = rows[i]
      BY <2>1, <2>2, Appended
    <3> QED
      BY <2>1, <3>1 DEF LedgerStep
  <2>3. ASSUME NEW w \in Wristbands, RecordReturn(w) PROVE LedgerStep
    <3>1. /\ Len(rows') = Len(rows)
          /\ \A i \in DOMAIN rows :
               /\ rows'[i].wid = rows[i].wid
               /\ rows'[i].seat = rows[i].seat
               /\ rows[i].returned => rows'[i].returned
      BY <2>1, <2>3, Stamped
    <3> QED
      BY <2>1, <3>1 DEF LedgerStep
  <2> QED
    BY <2>2, <2>3 DEF Next
<1> QED
  BY <1>1, SpecInv, PTL DEF Spec, LedgerKept

-----------------------------------------------------------------------------
(* The table implements the registry *)

LEMMA SeatOfFree ==
  ASSUME NEW w \in Wristbands,
         \A i \in DOMAIN rows : IsActive(i) => rows[i].wid # w
  PROVE  SeatOf[w] = Free
<1>1. FindActiveByWristband(w) = {}
  BY DEF FindActiveByWristband
<1> QED
  BY <1>1 DEF SeatOf

\* A band that has a seat has it from an active row.
LEMMA SeatOfTaken ==
  ASSUME NEW w \in Wristbands, SeatOf[w] # Free
  PROVE  \E i \in DOMAIN rows : IsActive(i) /\ rows[i].wid = w /\ SeatOf[w] = rows[i].seat
<1>1. FindActiveByWristband(w) # {}
  BY DEF SeatOf
<1>2. (CHOOSE i \in FindActiveByWristband(w) : TRUE) \in FindActiveByWristband(w)
  BY <1>1
<1> QED
  BY <1>1, <1>2 DEF SeatOf, FindActiveByWristband

LEMMA RecordIssueAssigns ==
  ASSUME Inv, NEW w \in Wristbands, NEW s \in Seats, RecordIssue(w, s)
  PROVE  Registry!Assign(w, s)
<1>1. TypeOK /\ OneActiveIssue /\ OneActiveIssue'
  BY InvRecordIssue DEF Inv
<1>2. Len(rows) \in Nat
  BY <1>1 DEF TypeOK
<1>3. \A i \in DOMAIN rows : IsActive(i) => rows[i].wid # w /\ rows[i].seat # s
  BY DEF RecordIssue, Conflict, FindActiveByWristband, FindActiveBySeat
<1>4. /\ DOMAIN rows = 1 .. Len(rows)
      /\ DOMAIN rows' = 1 .. Len(rows) + 1
      /\ \A i \in DOMAIN rows : rows'[i] = rows[i]
      /\ rows'[Len(rows) + 1] = [wid |-> w, seat |-> s, returned |-> FALSE]
  BY <1>1, Appended
<1>5. SeatOf[w] = Free
  BY <1>3, SeatOfFree
<1>6. \A v \in Wristbands : SeatOf[v] # s
  <2> SUFFICES ASSUME NEW v \in Wristbands, SeatOf[v] = s PROVE FALSE
    OBVIOUS
  <2>1. SeatOf[v] # Free
    BY RepoConstants
  <2> QED
    BY <2>1, <1>3, SeatOfTaken
<1>7. SeatOf'[w] = s
  <2>1. FindActiveByWristband(w)' = {Len(rows) + 1}
    BY <1>2, <1>3, <1>4 DEF FindActiveByWristband, IsActive
  <2> QED
    BY <1>4, <2>1 DEF SeatOf
<1>8. \A v \in Wristbands : v # w => SeatOf'[v] = SeatOf[v]
  <2> SUFFICES ASSUME NEW v \in Wristbands, v # w PROVE SeatOf'[v] = SeatOf[v]
    OBVIOUS
  <2>1. FindActiveByWristband(v)' = FindActiveByWristband(v)
    BY <1>2, <1>4 DEF FindActiveByWristband, IsActive
  <2>2. FindActiveByWristband(v) # {} =>
          (CHOOSE i \in FindActiveByWristband(v) : TRUE) \in DOMAIN rows
    BY DEF FindActiveByWristband
  <2> QED
    BY <1>4, <2>1, <2>2 DEF SeatOf
<1>9. SeatOf' = [SeatOf EXCEPT ![w] = s]
  <2>1. /\ SeatOf = [v \in Wristbands |-> SeatOf[v]]
        /\ SeatOf' = [v \in Wristbands |-> SeatOf'[v]]
    BY DEF SeatOf
  <2> QED
    BY <2>1, <1>7, <1>8
<1> QED
  BY <1>5, <1>6, <1>9 DEF Registry!Assign

LEMMA RecordReturnReleases ==
  ASSUME Inv, NEW w \in Wristbands, RecordReturn(w)
  PROVE  Registry!Release(w) \/ SeatOf' = SeatOf
<1>1. TypeOK /\ OneActiveIssue
  BY DEF Inv
<1>2. /\ DOMAIN rows' = DOMAIN rows
      /\ \A i \in DOMAIN rows :
           /\ rows'[i].wid = rows[i].wid
           /\ rows'[i].seat = rows[i].seat
           /\ rows'[i].returned = (rows[i].returned \/ rows[i].wid = w)
  BY <1>1, Stamped
<1>3. SeatOf'[w] = Free
  <2>1. FindActiveByWristband(w)' = {}
    BY <1>2 DEF FindActiveByWristband, IsActive
  <2> QED
    BY <2>1 DEF SeatOf
<1>4. \A v \in Wristbands : v # w => SeatOf'[v] = SeatOf[v]
  <2> SUFFICES ASSUME NEW v \in Wristbands, v # w PROVE SeatOf'[v] = SeatOf[v]
    OBVIOUS
  <2>1. FindActiveByWristband(v)' = FindActiveByWristband(v)
    BY <1>2 DEF FindActiveByWristband, IsActive
  <2>2. FindActiveByWristband(v) # {} =>
          (CHOOSE i \in FindActiveByWristband(v) : TRUE) \in DOMAIN rows
    BY DEF FindActiveByWristband
  <2> QED
    BY <1>2, <2>1, <2>2 DEF SeatOf
<1>5. SeatOf' = [SeatOf EXCEPT ![w] = Free]
  <2>1. /\ SeatOf = [v \in Wristbands |-> SeatOf[v]]
        /\ SeatOf' = [v \in Wristbands |-> SeatOf'[v]]
    BY DEF SeatOf
  <2> QED
    BY <2>1, <1>3, <1>4
<1>6. CASE SeatOf[w] = Free
  BY <1>3, <1>4, <1>6 DEF SeatOf
<1>7. CASE SeatOf[w] # Free
  BY <1>5, <1>7 DEF Registry!Release
<1> QED
  BY <1>6, <1>7

\* The table implements the registry: every insert is one Assign of a free wristband and a
\* free seat, every return one Release or no change at all.
THEOREM TableImplementsRegistry == Spec => ImplementsRegistry
<1>1. Init => Registry!Init
  <2> SUFFICES ASSUME Init PROVE SeatOf = [w \in Wristbands |-> Free]
    BY DEF Registry!Init
  <2>1. \A w \in Wristbands : FindActiveByWristband(w) = {}
    BY DEF Init, FindActiveByWristband
  <2> QED
    BY <2>1 DEF SeatOf
<1>2. Inv /\ [Next]_rows => [Registry!Next]_SeatOf
  <2> SUFFICES ASSUME Inv, [Next]_rows PROVE Registry!Next \/ SeatOf' = SeatOf
    OBVIOUS
  <2>1. CASE UNCHANGED rows
    BY <2>1 DEF SeatOf, FindActiveByWristband, IsActive
  <2>2. ASSUME NEW w \in Wristbands, NEW s \in Seats, RecordIssue(w, s)
        PROVE  Registry!Next
    BY <2>2, RecordIssueAssigns DEF Registry!Next
  <2>3. ASSUME NEW w \in Wristbands, RecordReturn(w)
        PROVE  Registry!Next \/ SeatOf' = SeatOf
    BY <2>3, RecordReturnReleases DEF Registry!Next
  <2> QED
    BY <2>1, <2>2, <2>3 DEF Next
<1> QED
  BY <1>1, <1>2, SpecInv, PTL DEF Spec, ImplementsRegistry, Registry!Spec

=============================================================================
