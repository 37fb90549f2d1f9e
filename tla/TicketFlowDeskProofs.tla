------------------------ MODULE TicketFlowDeskProofs ------------------------
(***************************************************************************)
(* The procedures implement Desk, the outcomes of docs/flows.md, under the *)
(* restrictions of TicketFlowAloneProofs: one console, one tablet, no      *)
(* cancel, no broadcast that raises; any I/O failure and any number of     *)
(* restarts.                                                               *)
(***************************************************************************)
EXTENDS TicketFlowAloneProofs

Settled == \E t \in Tasks : Outcome(t)
Passes == {[live |-> g.live, ref |-> g.by.ref] : g \in gate}

-----------------------------------------------------------------------------
(* What the phases say about the task that is about to act *)

\* Only the issue's task, the entry's, the return's reach the points of their own, and what the
\* session holds there.
LEMMA PhaseAt ==
  ASSUME Typed, GateInv, AloneInv, NEW t \in Tasks
  PROVE  /\ pc[t] = "flag" => session.flow = "entry" /\ session.emb = NoEmb
         /\ pc[t] = "image" /\ session.flow = "issue" => session.emb = NoEmb
         /\ pc[t] = "image" /\ session.flow = "entry" => session.emb # NoEmb
         /\ pc[t] = "record" /\ proc[t] = "issue" =>
              session.flow = "issue" /\ session.emb # NoEmb
         /\ pc[t] = "record" /\ proc[t] = "return" => session.flow = "return"
         /\ pc[t] = "verdict" => session.flow = "entry" /\ session.emb # NoEmb
         /\ pc[t] = "clear" => proc[t] = "return"
<1> USE DEF Typed, AloneInv, Resting
<1>1. CASE t = console
  BY <1>1 DEF Phase, NoSession, Starting, AwaitingFace, Issuing, Returning, Reading,
              Prompting, Admitting
<1>2. CASE t = tablet
  BY <1>2 DEF Phase, NoSession, Starting, AwaitingFace, Issuing, Returning, Reading,
              Prompting, Admitting, Idle
<1> QED
  BY <1>1, <1>2

\* While one task works, or an issue's picture comes in, no other has an outcome.
LEMMA NoOtherOutcome ==
  ASSUME Typed, AloneInv, NEW t \in Tasks, NEW u \in Tasks, u # t,
         Working(t) \/ pc[t] = "image"
  PROVE  ~Outcome(u)
<1> USE DEF Typed, AloneInv, Resting, Working, Outcome
<1>1. CASE t = console /\ u = tablet
  BY <1>1 DEF Phase, NoSession, Starting, AwaitingFace, Issuing, Returning, Reading,
              Prompting, Admitting
<1>2. CASE t = tablet /\ u = console
  BY <1>2 DEF Phase, NoSession, Starting, AwaitingFace, Issuing, Returning, Reading,
              Prompting, Admitting
<1> QED
  BY <1>1, <1>2

\* Without a procedure there is no outcome either.
LEMMA NothingDoing ==
  ASSUME Typed, AloneInv, ~busy
  PROVE  session = Idle /\ ~Settled
<1>1. NoSession
  BY DEF AloneInv, Phase, busy, Starting, AwaitingFace, Issuing, Returning, Reading,
         Prompting, Admitting, Flows
<1> QED
  BY <1>1 DEF NoSession, Resting, Typed, Settled, Outcome

-----------------------------------------------------------------------------
(* Steps the desk does not show *)

\* The step of task t leaves the desk as it is.
Unseen(t) == UNCHANGED <<session, rows, gate>> /\ (Outcome(t)' <=> Outcome(t))

LEMMA StutterAtDesk ==
  ASSUME UNCHANGED <<session, rows, gate>>, Settled' <=> Settled
  PROVE  UNCHANGED Visit!vars
<1>1. Repo!SeatOf' = Repo!SeatOf
  BY DEF Repo!SeatOf, Repo!FindActiveByWristband, Repo!IsActive
<1>2. (\E t \in Tasks : Outcome(t))' = (\E t \in Tasks : Outcome(t))
  BY DEF Settled
<1> QED
  BY <1>1, <1>2 DEF Visit!vars

LEMMA ContinueUnseen ==
  ASSUME Inv, Typed, GateInv, AloneInv, NEW t \in Tasks, Continue(t)
  PROVE  \/ Unseen(t)
         \/ AbortReset(t) \/ DoneReset(t) \/ EntryAccept(t) \/ FaceForIssue(t)
         \/ (IssueRecord(t) /\ rows' # rows) \/ ReturnRecord(t) \/ Verdict(t)
<1> USE DEF Typed, Goto, taskVars, Unseen, Outcome
<1>1. CASE \/ AnnounceIssue(t) \/ AnnounceTag(t) \/ AbortDisconnect(t)
           \/ Complete(t) \/ Linger(t) \/ Tag(t) \/ Wake(t) \/ Connected(t)
           \/ ConnectFails(t) \/ Disconnect(t)
  BY <1>1 DEF AnnounceIssue, AnnounceTag, AbortDisconnect, Complete, Linger, Tag, Wake,
              Connected, ConnectFails, Disconnect, AfterTag, AfterOutcome
<1>2. CASE \/ IssueStepFails(t) \/ IssueReadId(t) \/ IssueWriteEmbedding(t)
           \/ IssueWriteSeat(t) \/ ReturnReadId(t)
  BY <1>2 DEF IssueStepFails, IssueReadId, IssueWriteEmbedding, IssueWriteSeat,
              ReturnReadId, Fail
<1>3. CASE IssueRecord(t) /\ rows' = rows
  BY <1>3 DEF IssueRecord, Repo!RecordIssue, Fail, Inv, TypeOK
<1>4. CASE ReturnClear(t)
  <2>1. proc[t] = "return"
    BY <1>4, PhaseAt DEF ReturnClear
  <2> QED
    BY <1>4, <2>1 DEF ReturnClear
<1>5. CASE EntryReadEmbedding(t) \/ EntryRefuse(t) \/ EntryPrompt(t) \/ EntryLeave(t)
  BY <1>5 DEF EntryReadEmbedding, EntryRefuse, EntryPrompt, EntryLeave
<1>6. CASE IssueCaptured(t) \/ FaceForEntry(t) \/ FaceIgnored(t)
  BY <1>6 DEF IssueCaptured, FaceForEntry, FaceIgnored
<1>7. ~FaceTooEarly(t)
  BY PhaseAt DEF FaceTooEarly
<1> QED
  BY <1>1, <1>2, <1>3, <1>4, <1>5, <1>6, <1>7 DEF Continue

-----------------------------------------------------------------------------
(* Steps the desk shows *)

\* After the step of t no other task has an outcome, if none had before it.
LEMMA OthersStay ==
  ASSUME Inv, Typed, AloneInv, NEW t \in Tasks, Continue(t),
         Working(t) \/ pc[t] = "image"
  PROVE  /\ Settled <=> Outcome(t)
         /\ Settled' <=> Outcome(t)'
<1>1. \A u \in Tasks : u # t => ~Outcome(u) /\ ~Outcome(u)'
  BY NoOtherOutcome, ContinueFrame DEF Outcome
<1> QED
  BY <1>1 DEF Settled

LEMMA SeatOfStays ==
  ASSUME rows' = rows
  PROVE  Repo!SeatOf' = Repo!SeatOf
BY DEF Repo!SeatOf, Repo!FindActiveByWristband, Repo!IsActive

LEMMA ResetIsEnd ==
  ASSUME Inv, Typed, GateInv, AloneInv, NEW t \in Tasks, Continue(t),
         AbortReset(t) \/ DoneReset(t)
  PROVE  Visit!End \/ UNCHANGED Visit!vars
<1> USE DEF Typed, Goto, taskVars
<1>1. /\ session' = [flow |-> "none", seat |-> NoSeat, emb |-> NoEmb]
      /\ UNCHANGED <<rows, gate>>
  BY DEF AbortReset, DoneReset, Idle
<1>2. ~Outcome(t)'
  BY DEF AbortReset, DoneReset, Outcome
<1>3. ~Settled'
  BY <1>2, OthersStay DEF Working, AbortReset, DoneReset
<1>4. CASE busy
  BY <1>1, <1>3, <1>4, SeatOfStays DEF Visit!End, busy, Settled
<1>5. CASE ~busy
  BY <1>1, <1>3, <1>5, NothingDoing, StutterAtDesk DEF Idle
<1> QED
  BY <1>4, <1>5

LEMMA AcceptIsLook ==
  ASSUME Inv, Typed, GateInv, AloneInv, NEW t \in Tasks, Continue(t), EntryAccept(t)
  PROVE  \E l \in Embeddings : Visit!Look(l)
<1> USE DEF Typed, Goto
<1>1. /\ pc[t] = "flag" /\ pc' = [pc EXCEPT ![t] = "prompt"] /\ buf[t] \in Embeddings
      /\ session' = [session EXCEPT !.emb = buf[t]] /\ UNCHANGED <<rows, gate>>
  BY DEF EntryAccept
<1>2. session.flow = "entry" /\ session.emb = NoEmb
  BY <1>1, PhaseAt
<1>3. ~Settled /\ ~Settled'
  BY <1>1, OthersStay DEF Working, Outcome
<1> QED
  BY <1>1, <1>2, <1>3, SeatOfStays DEF Visit!Look, Settled

LEMMA PictureIsLook ==
  ASSUME Inv, Typed, GateInv, AloneInv, NEW t \in Tasks, Continue(t), FaceForIssue(t)
  PROVE  \E l \in Embeddings : Visit!Look(l)
<1> USE DEF Typed, Goto
<1>1. /\ pc[t] = "image" /\ pc' = [pc EXCEPT ![t] = "captured"] /\ session.flow = "issue"
      /\ session' = [session EXCEPT !.emb = buf[t]] /\ UNCHANGED <<rows, gate>>
  BY DEF FaceForIssue, ForIssue
<1>2. buf[t] \in Embeddings
  BY <1>1 DEF GateInv, FaceHeld, Embeddings
<1>3. session.emb = NoEmb
  BY <1>1, PhaseAt
<1>4. ~Settled /\ ~Settled'
  BY <1>1, OthersStay DEF Outcome
<1> QED
  BY <1>1, <1>2, <1>3, <1>4, SeatOfStays DEF Visit!Look, Settled

\* The table seen through the module of its proofs is the table.
LEMMA SameSeatOf ==
  Repo!SeatOf = Table!SeatOf /\ Repo!SeatOf' = Table!SeatOf'
BY DEF Repo!SeatOf, Table!SeatOf, Repo!FindActiveByWristband, Table!FindActiveByWristband,
       Repo!IsActive, Table!IsActive

\* record_issue is the outcome of an issue; the table's own invariant makes its wristband and
\* its seat free.
LEMMA RecordIsHandOut ==
  ASSUME Inv, Typed, GateInv, AloneInv, Table!Inv, NEW t \in Tasks, Continue(t),
         IssueRecord(t), rows' # rows
  PROVE  \E w \in Bands : Visit!HandOut(w)
<1> USE DEF Typed, Goto
<1>1. /\ pc[t] = "record" /\ proc[t] = "issue"
      /\ pc' = [pc EXCEPT ![t] = "disc"] /\ res' = [res EXCEPT ![t] = TRUE]
      /\ Repo!RecordIssue(wid[t], session.seat)
      /\ UNCHANGED <<session, gate, proc>>
  BY DEF IssueRecord
<1>2. wid[t] \in Bands /\ session.seat \in Seats \cup {NoSeat}
  BY <1>1 DEF Inv, IdRead
<1>3. session.flow = "issue" /\ session.emb # NoEmb
  BY <1>1, PhaseAt
<1>4. ~Settled /\ Settled'
  BY <1>1, OthersStay DEF Working, Outcome
<1>5. Repo!Registry!Assign(wid[t], session.seat)
  <2>1. NoEmb \notin Seats \cup {NoSeat} /\ MaxRows \in Nat
    BY Distinct, Bounds
  <2>2. Table!RecordIssue(wid[t], session.seat)
    BY <1>1 DEF Repo!RecordIssue, Repo!Conflict, Repo!FindActiveByWristband,
                Repo!FindActiveBySeat, Repo!IsActive, Table!RecordIssue, Table!Conflict,
                Table!FindActiveByWristband, Table!FindActiveBySeat, Table!IsActive
  <2>3. Table!Registry!Assign(wid[t], session.seat)
    BY <1>2, <2>1, <2>2, Table!RecordIssueAssigns
  <2> QED
    BY <2>3, SameSeatOf DEF Table!Registry!Assign, Repo!Registry!Assign
<1> QED
  BY <1>1, <1>2, <1>3, <1>4, <1>5
     DEF Visit!HandOut, Visit!Settle, Settled, Repo!Registry!Assign

LEMMA RecordIsTakeBack ==
  ASSUME Inv, Typed, GateInv, AloneInv, Table!Inv, NEW t \in Tasks, Continue(t),
         ReturnRecord(t)
  PROVE  Visit!TakeBack
<1> USE DEF Typed, Goto
<1>1. /\ pc[t] = "record" /\ proc[t] = "return" /\ pc' = [pc EXCEPT ![t] = "complete"]
      /\ Repo!RecordReturn(wid[t])
      /\ UNCHANGED <<session, gate>>
  BY DEF ReturnRecord
<1>2. session.flow = "return"
  BY <1>1, PhaseAt
<1>3. ~Settled /\ Settled'
  BY <1>1, OthersStay DEF Working, Outcome
<1>4. \/ Repo!SeatOf' = Repo!SeatOf
      \/ \E w \in Bands : Repo!SeatOf' = [Repo!SeatOf EXCEPT ![w] = NoEmb]
  <2>1. CASE wid[t] \in Bands
    <3>1. NoEmb \notin Seats \cup {NoSeat} /\ MaxRows \in Nat
      BY Distinct, Bounds
    <3>2. Table!RecordReturn(wid[t])
      BY <1>1 DEF Repo!RecordReturn, Table!RecordReturn
    <3>3. Table!Registry!Release(wid[t]) \/ Table!SeatOf' = Table!SeatOf
      BY <2>1, <3>1, <3>2, Table!RecordReturnReleases
    <3> QED
      BY <2>1, <3>3, SameSeatOf DEF Table!Registry!Release
  <2>2. CASE wid[t] = NoBand
    BY <1>1, <2>2, ReturnOfNobody, SeatOfStays
  <2> QED
    BY <2>1, <2>2
<1> QED
  BY <1>1, <1>2, <1>3, <1>4 DEF Visit!TakeBack, Visit!Settle, Settled

\* The verdict under way compares with the reference of this very session.
BasisNow == \A t \in Tasks : basis[t] # NoBasis => basis[t].ref = session.emb

\* The reference a verdict stands on stays the session's until the PASS is sent.
LEMMA BasisStays ==
  ASSUME Alone, Inv, Typed, GateInv, AloneInv, BasisNow, [Next]_vars
  PROVE  BasisNow'
<1> USE DEF Typed, Goto
<1>1. \A u \in Tasks : basis[u] # NoBasis => pc[u] = "verdict" /\ busy
  BY PhaseAt DEF GateInv, BasisHeld, busy
<1>2. ASSUME NEW t \in Tasks, Continue(t) PROVE BasisNow'
  <2>1. CASE FaceForEntry(t)
    <3>1. /\ pc[t] = "image" /\ session' = session
          /\ \E passed \in BOOLEAN :
               basis' = [basis EXCEPT ![t] = IF passed /\ nfc
                                             THEN [ref |-> session.emb, from |-> origin.from]
                                             ELSE NoBasis]
      BY <2>1 DEF FaceForEntry, Verdicts
    <3>2. basis \in [Tasks -> Bases]
      BY DEF Inv, TypeOK
    <3> QED
      BY <3>1, <3>2 DEF BasisNow
  <2>2. CASE Verdict(t)
    <3>1. basis' = [basis EXCEPT ![t] = NoBasis] /\ session' = session
      BY <2>2 DEF Verdict
    <3>2. basis \in [Tasks -> Bases]
      BY DEF Inv, TypeOK
    <3> QED
      BY <3>1, <3>2 DEF BasisNow
  <2>3. CASE Elsewhere(t)
    <3>1. basis' = basis /\ pc[t] # "verdict"
      BY <2>3 DEF Elsewhere
    <3>2. ASSUME NEW u \in Tasks, basis[u] # NoBasis PROVE session' = session
      <4>1. pc[u] = "verdict" /\ u # t
        BY <1>1, <3>1, <3>2
      <4>2. ~Working(t) /\ pc[t] # "image"
        BY <4>1 DEF AloneInv, Phase, Working, NoSession, Resting, Starting, AwaitingFace,
                    Issuing, Returning, Reading, Prompting, Admitting
      <4>3. ~(AbortReset(t) \/ DoneReset(t) \/ EntryAccept(t) \/ FaceForIssue(t))
        BY <4>2 DEF Working, AbortReset, DoneReset, EntryAccept, FaceForIssue
      <4> QED
        BY <1>2, <4>2, <4>3, ContinueUnseen DEF Unseen, Working, IssueRecord, ReturnRecord,
                                                Verdict
    <3> QED
      BY <3>1, <3>2 DEF BasisNow
  <2> QED
    BY <1>2, <2>1, <2>2, <2>3, ContinueElsewhere
<1>3. CASE ServerRestart
  BY <1>3 DEF ServerRestart, BasisNow
<1>4. CASE basis' = basis /\ (session' = session \/ ~busy)
  BY <1>1, <1>4 DEF BasisNow
<1>5. \/ \E t \in Tasks : Continue(t)
      \/ ServerRestart
      \/ basis' = basis /\ (session' = session \/ ~busy)
  BY NobodyRaises
     DEF Next, vars, taskVars, Command, Start, CanStart, StartWithoutDevice, Cancel,
         DeviceConnect, Upload, UploadRejected, CaptureLost, GateDone, WearChanges, DeviceLost
<1> QED
  BY <1>2, <1>3, <1>4, <1>5

\* The PASS, or its absence, is the outcome of an entry.
LEMMA VerdictIsDecide ==
  ASSUME Inv, Typed, GateInv, AloneInv, BasisNow, NEW t \in Tasks, Continue(t), Verdict(t)
  PROVE  \E l \in Embeddings : Visit!Decide(l)
<1> USE DEF Typed, Goto
<1>1. /\ pc[t] = "verdict" /\ pc' = [pc EXCEPT ![t] = "complete"]
      /\ UNCHANGED <<session, rows>>
  BY DEF Verdict
<1>2. session.flow = "entry" /\ session.emb # NoEmb
  BY <1>1, PhaseAt
<1>3. ~Settled /\ Settled'
  BY <1>1, OthersStay DEF Working, Outcome
<1>4. buf[t] \in Embeddings
  BY <1>1 DEF GateInv, FaceHeld, Embeddings
<1>5. Passes' \in {Passes, Passes \cup {[live |-> buf[t], ref |-> session.emb]}}
  <2>1. CASE gate' = gate
    BY <2>1 DEF Passes
  <2>2. CASE basis[t] # NoBasis /\ gate' = gate \cup {[live |-> buf[t], by |-> basis[t]]}
    <3>1. basis[t].ref = session.emb
      BY <2>2 DEF BasisNow
    <3> QED
      BY <2>2, <3>1 DEF Passes
  <2> QED
    BY <2>1, <2>2 DEF Verdict
<1> QED
  BY <1>1, <1>2, <1>3, <1>4, <1>5, SeatOfStays
     DEF Visit!Decide, Visit!Settle, Settled, Passes

LEMMA CommandAtDesk ==
  ASSUME Alone, Inv, Typed, GateInv, AloneInv, NEW a \in Admins, Command(a)
  PROVE  Visit!Next \/ UNCHANGED Visit!vars
<1> USE DEF Typed, Goto, taskVars
<1>1. a = console /\ ~Cancel(a)
  BY DEF Alone, Cancel
<1>2. pc[a] = "ready" /\ ~busy /\ a \in Tasks /\ ~Settled /\ session = Idle
  BY <1>1, NothingDoing DEF Command, Start, CanStart, StartWithoutDevice, DeviceConnect
<1>3. UNCHANGED <<rows, gate, res>>
  BY <1>1 DEF Command, Start, StartWithoutDevice, DeviceConnect
<1>4. pc' = pc \/ \E p \in {"announce", "abort"} : pc' = [pc EXCEPT ![a] = p]
  BY <1>1 DEF Command, Start, StartWithoutDevice, DeviceConnect
<1>5. \A u \in Tasks : u # a => proc'[u] = proc[u]
  BY <1>1 DEF Command, Start, StartWithoutDevice, DeviceConnect
<1>6. ~Settled'
  BY <1>2, <1>3, <1>4, <1>5 DEF Settled, Outcome
<1>7. ASSUME NEW f \in Flows, NEW s \in Seats \cup {NoSeat}, Start(a, f, s),
             s # NoSeat <=> f = "issue"
      PROVE  Visit!Begin(f, s)
  BY <1>2, <1>3, <1>6, <1>7, SeatOfStays
     DEF Start, Started, Idle, Visit!Begin, Settled
<1>8. ASSUME UNCHANGED session PROVE UNCHANGED Visit!vars
  BY <1>2, <1>3, <1>6, <1>8, StutterAtDesk
<1>9. CASE \E s \in Seats : Start(a, "issue", s)
  BY <1>7, <1>9, Distinct DEF Visit!Next, Flows
<1>10. CASE \E f \in {"entry", "return"} : Start(a, f, NoSeat)
  BY <1>7, <1>10 DEF Visit!Next, Flows
<1>11. CASE StartWithoutDevice(a, "issue") \/ StartWithoutDevice(a, "entry")
            \/ StartWithoutDevice(a, "return") \/ DeviceConnect(a)
  BY <1>8, <1>11 DEF StartWithoutDevice, DeviceConnect
<1> QED
  BY <1>1, <1>9, <1>10, <1>11 DEF Command, Flows

LEMMA RestAtDesk ==
  ASSUME Inv, Typed, AloneInv,
         \/ UNCHANGED vars
         \/ \E tab \in Tablets :
              (\E f \in Faces : Upload(tab, f)) \/ UploadRejected(tab) \/ CaptureLost(tab)
         \/ \E g \in gate : GateDone(g)
         \/ \E b \in Bands : WearChanges(b)
         \/ DeviceLost
         \/ ServerRestart
  PROVE  Visit!Next \/ UNCHANGED Visit!vars
<1> USE DEF Typed, Goto, taskVars
<1>1. CASE ServerRestart
  <2>1. ~Settled' /\ Passes' \in SUBSET Passes /\ UNCHANGED rows /\ session' = Idle
    BY <1>1 DEF ServerRestart, Settled, Outcome, Passes
  <2>2. CASE busy
    BY <2>1, <2>2, SeatOfStays DEF Visit!Next, Visit!End, busy, Idle, Settled, Passes
  <2>3. CASE ~busy
    <3>1. session = Idle /\ (Settled' <=> Settled)
      BY <2>1, <2>3, NothingDoing
    <3> QED
      BY <2>1, <3>1, SeatOfStays DEF Visit!Next, Visit!Answered, Settled, Passes
  <2> QED
    BY <2>2, <2>3
<1>2. ASSUME NEW g \in gate, GateDone(g) PROVE Visit!Next
  <2>1. UNCHANGED <<session, rows, pc, proc, res>> /\ gate' \subseteq gate
    BY <1>2 DEF GateDone
  <2>2. Passes' \in SUBSET Passes /\ (Settled' <=> Settled)
    BY <2>1 DEF Passes, Settled, Outcome
  <2> QED
    BY <2>1, <2>2, SeatOfStays DEF Visit!Next, Visit!Answered, Settled, Passes
<1>3. ASSUME ~ServerRestart, ~\E g \in gate : GateDone(g)
      PROVE  UNCHANGED Visit!vars
  <2>1. UNCHANGED <<session, rows, gate, proc, res>>
    BY <1>3 DEF vars, Upload, UploadRejected, CaptureLost, WearChanges, DeviceLost
  <2>2. pc' = pc \/ \E tab \in Tablets : pc[tab] = "ready" /\ pc' = [pc EXCEPT ![tab] = "image"]
    BY <1>3 DEF vars, Upload, UploadRejected, CaptureLost, WearChanges, DeviceLost
  <2>3. Settled' <=> Settled
    BY <2>1, <2>2 DEF Settled, Outcome, Tasks
  <2> QED
    BY <2>1, <2>3, StutterAtDesk
<1> QED
  BY <1>1, <1>2, <1>3

-----------------------------------------------------------------------------

\* The outcomes of docs/flows.md: undisturbed, the server does one procedure at a time, each
\* with one look and at most one outcome; a wristband leaves with the seat typed for it, and
\* only a free one with a free seat; a PASS stands on the reference read in this very entry.
\* Whatever I/O fails, and whenever the server restarts, a step of the tasks is a step of the
\* desk or does not show.
THEOREM AloneImplementsDesk ==
  ASSUME Alone
  PROVE  Spec => ImplementsDesk
<1>1. Init => Visit!Init
  <2> SUFFICES ASSUME Init PROVE Visit!Init
    OBVIOUS
  <2>1. Repo!SeatOf = [w \in Bands |-> NoEmb]
    BY DEF Init, Repo!SeatOf, Repo!FindActiveByWristband
  <2>2. ~Settled
    BY DEF Init, Settled, Outcome
  <2> QED
    BY <2>1, <2>2 DEF Init, Idle, Visit!Init, Settled
<1>2. Init => BasisNow
  BY DEF Init, BasisNow
<1>3. Spec => []Table!Inv
  <2>1. NoEmb \notin Seats \cup {NoSeat} /\ MaxRows \in Nat
    BY Distinct, Bounds
  <2>2. Table!Spec => []Table!Inv
    BY <2>1, Table!SpecInv
  <2>3. Repo!Init => Table!Init
    BY DEF Repo!Init, Table!Init
  <2>4. [Repo!Next]_rows => [Table!Next]_rows
    BY DEF Repo!Next, Repo!RecordIssue, Repo!RecordReturn, Repo!Conflict,
           Repo!FindActiveByWristband, Repo!FindActiveBySeat, Repo!IsActive,
           Table!Next, Table!RecordIssue, Table!RecordReturn, Table!Conflict,
           Table!FindActiveByWristband, Table!FindActiveBySeat, Table!IsActive
  <2> QED
    BY <2>2, <2>3, <2>4, FlowDrivesTable, PTL DEF Repo!Spec, Table!Spec
<1>4. Inv /\ GateInv /\ AloneInv /\ BasisNow /\ [Next]_vars => BasisNow'
  BY AloneTyped, BasisStays
<1>5. Inv /\ GateInv /\ AloneInv /\ BasisNow /\ Table!Inv /\ [Next]_vars
        => [Visit!Next]_(Visit!vars)
  <2> SUFFICES ASSUME Inv, GateInv, AloneInv, BasisNow, Table!Inv, [Next]_vars
               PROVE  Visit!Next \/ UNCHANGED Visit!vars
    OBVIOUS
  <2>1. Typed
    BY AloneTyped
  <2>2. ASSUME NEW t \in Tasks, Continue(t) PROVE Visit!Next \/ UNCHANGED Visit!vars
    <3>1. CASE Unseen(t)
      <4>1. Settled' <=> Settled
        BY <2>2, <3>1, ContinueFrame DEF Unseen, Settled, Outcome
      <4> QED
        BY <3>1, <4>1, StutterAtDesk DEF Unseen
    <3>2. CASE AbortReset(t) \/ DoneReset(t)
      BY <2>1, <2>2, <3>2, ResetIsEnd DEF Visit!Next
    <3>3. CASE EntryAccept(t) \/ FaceForIssue(t)
      BY <2>1, <2>2, <3>3, AcceptIsLook, PictureIsLook DEF Visit!Next
    <3>4. CASE IssueRecord(t) /\ rows' # rows
      BY <2>1, <2>2, <3>4, RecordIsHandOut DEF Visit!Next
    <3>5. CASE ReturnRecord(t)
      BY <2>1, <2>2, <3>5, RecordIsTakeBack DEF Visit!Next
    <3>6. CASE Verdict(t)
      BY <2>1, <2>2, <3>6, VerdictIsDecide DEF Visit!Next
    <3> QED
      BY <2>1, <2>2, <3>1, <3>2, <3>3, <3>4, <3>5, <3>6, ContinueUnseen
  <2>3. ASSUME NEW a \in Admins, Command(a) PROVE Visit!Next \/ UNCHANGED Visit!vars
    BY <2>1, <2>3, CommandAtDesk
  <2> QED
    BY <2>1, <2>2, <2>3, NobodyRaises, RestAtDesk DEF Next
<1> QED
  BY <1>1, <1>2, <1>3, <1>4, <1>5, SpecAlone, SpecGate, PTL
     DEF Spec, ImplementsDesk, Visit!Spec
=============================================================================
