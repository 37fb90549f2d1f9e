-------------------------- MODULE TicketFlowProofs --------------------------
(***************************************************************************)
(* Proofs about TicketFlow for any number of consoles, tablets, bands,     *)
(* faces and seats, and any number of cancels, restarts and sessions.      *)
(***************************************************************************)
EXTENDS TicketFlow, SequenceTheorems, TLAPS

-----------------------------------------------------------------------------
(* Types.  A row takes its wristband id from wid, so the types are only    *)
(* inductive together with the fact that on_tag has read an id by then.    *)

IdRead ==
  \A t \in Tasks :
    pc[t] \in {"write", "seat"} \/ (pc[t] = "record" /\ proc[t] = "issue")
      => wid[t] \in Bands

Inv == TypeOK /\ IdRead

\* The two conjuncts of TypeOK that need an argument of their own.
BandsTyped == band \in [Bands -> Memory]
RowsTyped == rows \in Seq(Repo!Row)

LEMMA InvInit == Init => Inv
<1> SUFFICES ASSUME Init PROVE Inv
  OBVIOUS
<1>1. band \in [Bands -> Memory]
  BY DEF Init, Memory, Embeddings
<1>2. IdRead
  BY DEF Init, IdRead
<1>3. /\ session \in [flow : Flows \cup {"none"}, seat : Seats \cup {NoSeat},
                       emb : Embeddings \cup {NoEmb}]
      /\ origin \in Origins /\ basis \in [Tasks -> Bases]
  BY DEF Init, Idle, NoOrigin, NoBasis, Origins, Bases
<1>4. /\ armed \in [Tablets -> 0..MaxArmed] /\ proc \in [Tasks -> Flows]
      /\ pc \in [Tasks -> Points] /\ then \in [Tasks -> {"ready", "tag"}]
  BY Bounds DEF Init, Flows, Points
<1>5. rows \in Seq(Repo!Row)
  BY DEF Init
<1> QED
  BY <1>1, <1>2, <1>3, <1>4, <1>5 DEF Init, Inv, TypeOK, Shown

\* Announcing, giving up and completing.
LEMMA InvAnnounce ==
  ASSUME Inv, NEW t \in Tasks,
         \/ AnnounceIssue(t)
         \/ AnnounceTag(t)
         \/ AbortDisconnect(t)
         \/ AbortReset(t)
         \/ Complete(t)
         \/ DoneReset(t)
         \/ Linger(t)
  PROVE  Inv'
<1> USE Bounds DEF Inv, Goto, bounds, taskVars, Points
<1>1. ASSUME AnnounceIssue(t) PROVE Inv'
  BY <1>1 DEF TypeOK, IdRead, AnnounceIssue, Trigger, TriggerSome, Shown
<1>2. ASSUME AnnounceTag(t) PROVE Inv'
  BY <1>2 DEF TypeOK, IdRead, AnnounceTag, Shown
<1>3. ASSUME AbortDisconnect(t) PROVE Inv'
  BY <1>3 DEF TypeOK, IdRead, AbortDisconnect, Release
<1>4. ASSUME AbortReset(t) PROVE Inv'
  BY <1>4 DEF TypeOK, IdRead, AbortReset, Idle, NoOrigin, Origins, Shown
<1>5. ASSUME Complete(t) PROVE Inv'
  BY <1>5 DEF TypeOK, IdRead, Complete, Shown
<1>6. ASSUME DoneReset(t) PROVE Inv'
  BY <1>6 DEF TypeOK, IdRead, DoneReset, Idle, NoOrigin, Origins
<1>7. ASSUME Linger(t) PROVE Inv'
  BY <1>7 DEF TypeOK, IdRead, Linger, AfterLinger, Shown
<1> QED
  BY <1>1, <1>2, <1>3, <1>4, <1>5, <1>6, <1>7

\* The head every on_tag shares, and its ble_session exit.
LEMMA InvHead ==
  ASSUME Inv, NEW t \in Tasks,
         \/ Tag(t)
         \/ Wake(t)
         \/ Connected(t)
         \/ ConnectFails(t)
         \/ Disconnect(t)
  PROVE  Inv'
<1> USE Bounds DEF Inv, Goto, bounds, taskVars, Points
<1>1. ASSUME Tag(t) PROVE Inv'
  BY <1>1 DEF TypeOK, IdRead, Tag, AfterTag
<1>2. ASSUME Wake(t) PROVE Inv'
  BY <1>2 DEF TypeOK, IdRead, Wake
<1>3. ASSUME Connected(t) PROVE Inv'
  BY <1>3 DEF TypeOK, IdRead, Connected
<1>4. ASSUME ConnectFails(t) PROVE Inv'
  BY <1>4 DEF TypeOK, IdRead, ConnectFails
<1>5. ASSUME Disconnect(t) PROVE Inv'
  BY <1>5 DEF TypeOK, IdRead, Disconnect, Release, AfterOutcome
<1> QED
  BY <1>1, <1>2, <1>3, <1>4, <1>5

LEMMA MemorySet ==
  ASSUME BandsTyped, NEW b \in Bands
  PROVE  /\ \A e \in Embeddings : [band EXCEPT ![b].emb = e] \in [Bands -> Memory]
         /\ \A s \in Seats \cup {NoSeat} : [band EXCEPT ![b].seat = s] \in [Bands -> Memory]
<1>1. band[b] \in Memory
  BY DEF BandsTyped
<1>2. \A e \in Embeddings : [band[b] EXCEPT !.emb = e] \in Memory
  BY <1>1 DEF Memory
<1>3. \A s \in Seats \cup {NoSeat} : [band[b] EXCEPT !.seat = s] \in Memory
  BY <1>1 DEF Memory
<1> QED
  BY <1>2, <1>3 DEF BandsTyped

\* IssueFlow.on_tag.
LEMMA InvIssue ==
  ASSUME Inv, NEW t \in Tasks,
         \/ IssueStepFails(t)
         \/ IssueReadId(t)
         \/ IssueWriteEmbedding(t)
         \/ IssueWriteSeat(t)
         \/ IssueRecord(t)
  PROVE  Inv'
<1> USE Bounds DEF Inv, Goto, bounds, taskVars, Points
<1>0. BandsTyped
  BY DEF TypeOK, BandsTyped, Memory
<1>1. ASSUME IssueStepFails(t) PROVE Inv'
  <2>1. BandsTyped'
    <3>1. CASE UNCHANGED band
      BY <3>1 DEF TypeOK, BandsTyped, Memory
    <3>2. ASSUME NEW e \in Partly(band[link].emb, Encoded), link \in Bands,
                 band' = [band EXCEPT ![link].emb = e]
          PROVE  BandsTyped'
      <4>1. e \in Embeddings
        BY <3>2 DEF TypeOK, Encoded, Embeddings, Memory, Partly
      <4> QED
        BY <1>0, <3>2, <4>1, MemorySet DEF BandsTyped
    <3>3. \/ UNCHANGED band
          \/ link # NoBand /\ \E e \in Partly(band[link].emb, Encoded) :
                                band' = [band EXCEPT ![link].emb = e]
      BY <1>1 DEF IssueStepFails
    <3>4. link \in Bands \cup {NoBand}
      BY DEF TypeOK
    <3> QED
      BY <3>1, <3>2, <3>3, <3>4
  <2>2. /\ pc' = [pc EXCEPT ![t] = "disc"] /\ res' = [res EXCEPT ![t] = FALSE]
        /\ UNCHANGED <<session, shown, then, proc, buf, wid, link, left, rows, nfc, gate, armed,
                       epoch, origin, basis, during, bounds>>
    BY <1>1 DEF IssueStepFails, Fail
  <2>3. TypeOK'
    BY <2>1, <2>2 DEF TypeOK, BandsTyped, Memory
  <2> QED
    BY <2>2, <2>3 DEF TypeOK, IdRead
<1>2. ASSUME IssueReadId(t) PROVE Inv'
  <2>1. PICK w \in Bands : wid' = [wid EXCEPT ![t] = w]
    BY <1>2 DEF IssueReadId, ReadIds
  <2>2. /\ \/ pc' = [pc EXCEPT ![t] = "disc"] /\ res' = [res EXCEPT ![t] = FALSE]
           \/ pc' = [pc EXCEPT ![t] = "write"] /\ UNCHANGED res
        /\ UNCHANGED <<session, shown, then, proc, buf, link, left, band, rows, nfc, gate, armed,
                       epoch, origin, basis, during, bounds>>
    BY <1>2 DEF IssueReadId, Fail
  <2>3. TypeOK'
    BY <2>1, <2>2 DEF TypeOK
  <2>4. IdRead'
    BY <2>1, <2>2 DEF TypeOK, IdRead
  <2> QED
    BY <2>3, <2>4
<1>3. ASSUME IssueWriteEmbedding(t) PROVE Inv'
  <2>1. Encoded \in Embeddings /\ link \in Bands
    BY <1>3 DEF IssueWriteEmbedding, TypeOK, Encoded, Embeddings
  <2>2. BandsTyped'
    BY <1>0, <1>3, <2>1, MemorySet DEF IssueWriteEmbedding, BandsTyped
  <2>3. TypeOK'
    <3>1. /\ pc' = [pc EXCEPT ![t] = "seat"]
          /\ UNCHANGED <<session, shown, then, proc, buf, wid, res, link, left, rows, nfc, gate,
                         armed, epoch, origin, basis, during, bounds>>
      BY <1>3 DEF IssueWriteEmbedding
    <3> QED
      BY <2>2, <3>1 DEF TypeOK, BandsTyped
  <2>4. IdRead'
    BY <1>3 DEF IssueWriteEmbedding, TypeOK, IdRead
  <2> QED
    BY <2>3, <2>4
<1>4. ASSUME IssueWriteSeat(t) PROVE Inv'
  <2>1. BandsTyped'
    <3>1. CASE UNCHANGED band
      BY <3>1 DEF TypeOK, BandsTyped, Memory
    <3>2. CASE link # NoBand /\ band' = [band EXCEPT ![link].seat = session.seat]
      <4>1. link \in Bands /\ session.seat \in Seats \cup {NoSeat}
        BY <3>2 DEF TypeOK
      <4> QED
        BY <1>0, <3>2, <4>1, MemorySet DEF BandsTyped
    <3> QED
      BY <1>4, <3>1, <3>2 DEF IssueWriteSeat
  <2>2. TypeOK'
    <3>1. /\ pc' = [pc EXCEPT ![t] = "record"]
          /\ UNCHANGED <<session, shown, then, proc, buf, wid, res, link, left, rows, nfc, gate,
                         armed, epoch, origin, basis, during, bounds>>
      BY <1>4 DEF IssueWriteSeat
    <3> QED
      BY <2>1, <3>1 DEF TypeOK, BandsTyped
  <2>3. IdRead'
    BY <1>4 DEF IssueWriteSeat, TypeOK, IdRead
  <2> QED
    BY <2>2, <2>3
<1>5. ASSUME IssueRecord(t) PROVE Inv'
  <2>1. RowsTyped'
    <3>1. CASE UNCHANGED rows
      BY <3>1 DEF TypeOK, RowsTyped, Repo!Row
    <3>2. CASE Repo!RecordIssue(wid[t], session.seat)
      <4>1. [wid |-> wid[t], seat |-> session.seat, returned |-> FALSE] \in Repo!Row
        BY <1>5 DEF IssueRecord, TypeOK, IdRead, Repo!Row
      <4>2. rows \in Seq(Repo!Row)
        BY DEF TypeOK, Repo!Row
      <4>3. rows' = Append(rows, [wid |-> wid[t], seat |-> session.seat, returned |-> FALSE])
        BY <3>2 DEF Repo!RecordIssue
      <4> QED
        BY <4>1, <4>2, <4>3 DEF RowsTyped
    <3> QED
      BY <1>5, <3>1, <3>2 DEF IssueRecord
  <2>3. TypeOK'
    BY <1>5, <2>1 DEF IssueRecord, Fail, TypeOK, RowsTyped, Repo!Row
  <2>4. IdRead'
    BY <1>5 DEF IssueRecord, Fail, TypeOK, IdRead
  <2> QED
    BY <2>3, <2>4
<1> QED
  BY <1>1, <1>2, <1>3, <1>4, <1>5

\* ReturnFlow.on_tag.
LEMMA InvReturn ==
  ASSUME Inv, NEW t \in Tasks,
         \/ ReturnReadId(t)
         \/ ReturnClear(t)
         \/ ReturnRecord(t)
  PROVE  Inv'
<1> USE Bounds DEF Inv, Goto, bounds, taskVars, Points
<1>1. ASSUME ReturnReadId(t) PROVE Inv'
  <2>1. PICK w \in Bands \cup {NoBand} : wid' = [wid EXCEPT ![t] = w]
    BY <1>1 DEF ReturnReadId, TypeOK
  <2>2. TypeOK'
    BY <1>1, <2>1 DEF ReturnReadId, TypeOK
  <2>3. IdRead'
    BY <1>1, <2>1 DEF ReturnReadId, TypeOK, IdRead
  <2> QED
    BY <2>2, <2>3
<1>2. ASSUME ReturnClear(t) PROVE Inv'
  <2>1. BandsTyped'
    <3>1. CASE UNCHANGED band
      BY <3>1 DEF TypeOK, BandsTyped, Memory
    <3>2. ASSUME link \in Bands,
                 NEW e \in Partly(band[link].emb, Zero), NEW s \in {NoSeat, band[link].seat},
                 band' = [band EXCEPT ![link].emb = e, ![link].seat = s]
          PROVE  BandsTyped'
      <4>1. e \in Embeddings /\ s \in Seats \cup {NoSeat}
        BY <3>2 DEF TypeOK, Embeddings, Memory, Partly
      <4>2. band \in [Bands -> Memory]
        BY DEF TypeOK
      <4> HIDE DEF Inv
      <4> QED
        BY <3>2, <4>1, <4>2 DEF BandsTyped, Memory
    <3>3. link \in Bands \cup {NoBand}
      BY DEF TypeOK
    <3> QED
      BY <1>2, <3>1, <3>2, <3>3 DEF ReturnClear
  <2>2. /\ pc' = [pc EXCEPT ![t] = "disc"] /\ res' = [res EXCEPT ![t] = TRUE]
        /\ UNCHANGED <<session, shown, then, proc, buf, wid, link, left, rows, nfc, gate, armed,
                       epoch, origin, basis, during, bounds>>
    BY <1>2 DEF ReturnClear
  <2>3. TypeOK'
    BY <2>1, <2>2 DEF TypeOK, BandsTyped, Memory
  <2>4. IdRead'
    BY <2>2 DEF TypeOK, IdRead
  <2> QED
    BY <2>3, <2>4
<1>3. ASSUME ReturnRecord(t) PROVE Inv'
  <2>1. RowsTyped'
    <3>1. rows \in Seq(Repo!Row)
      BY DEF TypeOK, Repo!Row
    <3>2. rows' = [i \in DOMAIN rows |->
                     [rows[i] EXCEPT !.returned = @ \/ rows[i].wid = wid[t]]]
      BY <1>3 DEF ReturnRecord, Repo!RecordReturn
    <3> HIDE DEF Inv
    <3>3. \A i \in DOMAIN rows : rows[i] \in Repo!Row
      BY <3>1
    <3>4. \A i \in DOMAIN rows : rows'[i] \in Repo!Row
      BY <3>2, <3>3 DEF Repo!Row
    <3>5. rows' \in [1 .. Len(rows) -> Repo!Row] /\ Len(rows) \in Nat
      BY <3>1, <3>2, <3>4
    <3> QED
      BY <3>5, SeqDef DEF RowsTyped
  <2>2. TypeOK'
    BY <1>3, <2>1 DEF ReturnRecord, TypeOK, RowsTyped, Repo!Row
  <2>3. IdRead'
    BY <1>3 DEF ReturnRecord, TypeOK, IdRead
  <2> QED
    BY <2>2, <2>3
<1> QED
  BY <1>1, <1>2, <1>3

\* EntryFlow.on_tag.
LEMMA InvEntry ==
  ASSUME Inv, NEW t \in Tasks,
         \/ EntryReadEmbedding(t)
         \/ EntryRefuse(t)
         \/ EntryAccept(t)
         \/ EntryPrompt(t)
         \/ EntryLeave(t)
  PROVE  Inv'
<1> USE Bounds DEF Inv, Goto, bounds, taskVars, Points
<1>1. ASSUME EntryReadEmbedding(t) PROVE Inv'
  BY <1>1 DEF TypeOK, IdRead, EntryReadEmbedding, Embeddings, Memory
<1>2. ASSUME EntryRefuse(t) PROVE Inv'
  BY <1>2 DEF TypeOK, IdRead, EntryRefuse
<1>3. ASSUME EntryAccept(t) PROVE Inv'
  BY <1>3 DEF TypeOK, IdRead, EntryAccept, Origins
<1>4. ASSUME EntryPrompt(t) PROVE Inv'
  BY <1>4 DEF TypeOK, IdRead, EntryPrompt, Trigger, TriggerSome, Shown
<1>5. ASSUME EntryLeave(t) PROVE Inv'
  BY <1>5 DEF TypeOK, IdRead, EntryLeave, Release
<1> QED
  BY <1>1, <1>2, <1>3, <1>4, <1>5

\* face_captured and what follows it.
LEMMA InvFace ==
  ASSUME Inv, NEW t \in Tasks,
         \/ FaceForIssue(t)
         \/ IssueCaptured(t)
         \/ FaceForEntry(t)
         \/ FaceTooEarly(t)
         \/ FaceIgnored(t)
         \/ Verdict(t)
  PROVE  Inv'
<1> USE Bounds DEF Inv, Goto, bounds, taskVars, Points
<1>1. ASSUME FaceForIssue(t) PROVE Inv'
  BY <1>1 DEF TypeOK, IdRead, FaceForIssue, Origins
<1>2. ASSUME IssueCaptured(t) PROVE Inv'
  BY <1>2 DEF TypeOK, IdRead, IssueCaptured, CapturedState, Shown, Flows
<1>3. ASSUME FaceForEntry(t) PROVE Inv'
  BY <1>3 DEF TypeOK, IdRead, FaceForEntry, Verdicts, Bases, Origins, NoBasis
<1>4. ASSUME FaceTooEarly(t) PROVE Inv'
  BY <1>4 DEF TypeOK, IdRead, FaceTooEarly
<1>5. ASSUME FaceIgnored(t) PROVE Inv'
  BY <1>5 DEF TypeOK, IdRead, FaceIgnored
<1>6. ASSUME Verdict(t) PROVE Inv'
  <2>1. /\ link' \in Bands \cup {NoBand} /\ left' \in BOOLEAN
        /\ basis' \in [Tasks -> Bases]
    BY <1>6 DEF TypeOK, Verdict, Release, NoBasis, Bases
  <2>2. gate' \in SUBSET [live : Embeddings \cup {NoEmb}, by : Bases]
    BY <1>6 DEF TypeOK, Verdict
  <2>3. /\ pc' = [pc EXCEPT ![t] = "complete"]
        /\ UNCHANGED <<session, shown, then, proc, buf, wid, res, band, rows, nfc, armed, epoch,
                       origin, during, bounds>>
    BY <1>6 DEF Verdict
  <2> QED
    BY <2>1, <2>2, <2>3 DEF TypeOK, IdRead
<1> QED
  BY <1>1, <1>2, <1>3, <1>4, <1>5, <1>6

LEMMA InvContinue ==
  ASSUME Inv, NEW t \in Tasks, Continue(t)
  PROVE  Inv'
  BY InvAnnounce, InvHead, InvIssue, InvReturn, InvEntry, InvFace DEF Continue

\* The commands of a console.
LEMMA InvCommand ==
  ASSUME Inv, NEW a \in Admins, Command(a)
  PROVE  Inv'
<1> USE Bounds DEF Inv, TypeOK, IdRead, Goto, bounds, taskVars, Points, Tasks
<1>1. ASSUME NEW f \in Flows, NEW s \in Seats \cup {NoSeat}, Start(a, f, s) PROVE Inv'
  BY <1>1 DEF Start, Started, NoOrigin, Origins, Flows
<1>2. ASSUME NEW f \in Flows, StartWithoutDevice(a, f) PROVE Inv'
  BY <1>2 DEF StartWithoutDevice
<1>3. ASSUME Cancel(a) PROVE Inv'
  BY <1>3 DEF Cancel
<1>4. ASSUME DeviceConnect(a) PROVE Inv'
  BY <1>4 DEF DeviceConnect
<1> HIDE DEF Inv, TypeOK, IdRead
<1> QED
  BY <1>1, <1>2, <1>3, <1>4 DEF Command, Flows

\* The tablets, the gate, the visitors, the cable and the process itself.
LEMMA InvSurroundings ==
  ASSUME Inv,
         \/ \E tab \in Tablets :
              \/ \E f \in Faces : Upload(tab, f)
              \/ UploadRejected(tab)
              \/ CaptureLost(tab)
         \/ \E g \in gate : GateDone(g)
         \/ \E b \in Bands : WearChanges(b)
         \/ DeviceLost
         \/ ServerRestart
  PROVE  Inv'
<1> USE Bounds DEF Inv, Goto, bounds, taskVars, Points, Tasks
<1>1. ASSUME NEW tab \in Tablets, NEW f \in Faces, Upload(tab, f) PROVE Inv'
  BY <1>1 DEF TypeOK, IdRead, Upload, Embeddings
<1>2. ASSUME NEW tab \in Tablets, UploadRejected(tab) PROVE Inv'
  BY <1>2 DEF TypeOK, IdRead, UploadRejected
<1>3. ASSUME NEW tab \in Tablets, CaptureLost(tab) PROVE Inv'
  BY <1>3 DEF TypeOK, IdRead, CaptureLost
<1>4. ASSUME NEW g \in gate, GateDone(g) PROVE Inv'
  BY <1>4 DEF TypeOK, IdRead, GateDone
<1>5. ASSUME NEW b \in Bands, WearChanges(b) PROVE Inv'
  <2>1. band \in [Bands -> Memory] /\ band' = [band EXCEPT ![b].flag = ~@]
    BY <1>5 DEF TypeOK, WearChanges
  <2>2. [band[b] EXCEPT !.flag = ~@] \in Memory
    <3> HIDE DEF Inv
    <3>1. band[b] \in Memory
      BY <2>1
    <3> QED
      BY <3>1 DEF Memory
  <2>3. BandsTyped'
    BY <2>1, <2>2 DEF BandsTyped
  <2> QED
    BY <1>5, <2>3 DEF TypeOK, IdRead, WearChanges, BandsTyped
<1>6. ASSUME DeviceLost PROVE Inv'
  BY <1>6 DEF TypeOK, IdRead, DeviceLost
<1>7. ASSUME ServerRestart PROVE Inv'
  <2>1. /\ session' \in [flow : Flows \cup {"none"}, seat : Seats \cup {NoSeat},
                          emb : Embeddings \cup {NoEmb}]
        /\ origin' \in Origins /\ basis' \in [Tasks -> Bases]
    BY <1>7 DEF ServerRestart, Idle, NoOrigin, NoBasis, Origins, Bases
  <2>2. /\ armed' \in [Tablets -> 0..MaxArmed] /\ proc' \in [Tasks -> Flows]
        /\ pc' \in [Tasks -> Points] /\ then' \in [Tasks -> {"ready", "tag"}]
    BY <1>7 DEF ServerRestart, Flows
  <2>3. restarts' \in Nat /\ UNCHANGED <<band, rows, epoch, cancels, raises, broken>>
    BY <1>7 DEF ServerRestart, TypeOK
  <2>4. TypeOK'
    BY <1>7, <2>1, <2>2, <2>3 DEF ServerRestart, TypeOK, Shown
  <2>5. IdRead'
    BY <1>7 DEF ServerRestart, IdRead
  <2> QED
    BY <2>4, <2>5
<1> HIDE DEF Inv
<1> QED
  BY <1>1, <1>2, <1>3, <1>4, <1>5, <1>6, <1>7

\* Broadcasts that raise: what they may touch, and what of it is left.
LEMMA InvRaises ==
  ASSUME Inv, NEW t \in Tasks, Raises(t) \/ ResetRaises(t)
  PROVE  Inv'
<1> USE DEF Goto
<1> DEFINE
      Moved ==
        \E p \in {"ready", "abort", "leave", "complete", "disc"} : pc' = [pc EXCEPT ![t] = p]
      Told ==
        /\ shown' \in Shown /\ armed' \in [Tablets -> 0..MaxArmed]
        /\ then' \in [Tasks -> {"ready", "tag"}] /\ proc' \in [Tasks -> Flows]
      Held ==
        /\ buf' \in [Tasks -> Embeddings \cup {NoEmb}]
        /\ wid' = [wid EXCEPT ![t] = wid'[t]] /\ wid' \in [Tasks -> Bands \cup {NoBand}]
        /\ res' \in [Tasks -> BOOLEAN] /\ basis' \in [Tasks -> Bases]
        /\ UNCHANGED during
      Linked == link' \in Bands \cup {NoBand} /\ left' \in BOOLEAN /\ broken' \in Nat
      Typed == Moved /\ Told /\ Held /\ Linked /\ (proc'[t] = proc[t] \/ pc'[t] = "abort")
                 /\ \A u \in Tasks : u # t => proc'[u] = proc[u]
<1>1. ASSUME StartRaises(t) PROVE Typed
  <2>1. /\ pc' = [pc EXCEPT ![t] = "abort"]
        /\ then' \in [Tasks -> {"ready", "tag"}]
        /\ UNCHANGED <<proc, buf, wid, res, link, left, basis, during, broken>>
    BY <1>1 DEF Inv, TypeOK, StartRaises
  <2>2. shown' \in Shown
    BY <1>1 DEF Inv, TypeOK, StartRaises, Seen, Shown
  <2>3. armed' \in [Tablets -> 0..MaxArmed]
    <3>1. CASE UNCHANGED armed
      BY <3>1 DEF Inv, TypeOK
    <3>2. ASSUME NEW S \in SUBSET Tablets, TriggerSome(S)
          PROVE  armed' \in [Tablets -> 0..MaxArmed]
      BY <3>2, Bounds DEF Inv, TypeOK, TriggerSome
    <3> QED
      BY <1>1, <3>1, <3>2 DEF StartRaises
  <2> QED
    BY <2>1, <2>2, <2>3 DEF Inv, TypeOK
<1>2. ASSUME CapturedRaises(t) PROVE Typed
  BY <1>2 DEF Inv, TypeOK, CapturedRaises, Seen, CapturedState, Shown, Flows
<1>3. ASSUME PromptRaises(t) PROVE Typed
  <2>1. /\ pc' = [pc EXCEPT ![t] = "leave"]
        /\ UNCHANGED <<then, proc, buf, wid, res, link, left, basis, during, broken>>
    BY <1>3 DEF PromptRaises
  <2>2. shown' \in Shown
    BY <1>3 DEF Inv, TypeOK, PromptRaises, Seen, Shown
  <2>3. armed' \in [Tablets -> 0..MaxArmed]
    <3>1. CASE UNCHANGED armed
      BY <3>1 DEF Inv, TypeOK
    <3>2. ASSUME NEW S \in SUBSET Tablets, TriggerSome(S)
          PROVE  armed' \in [Tablets -> 0..MaxArmed]
      BY <3>2, Bounds DEF Inv, TypeOK, TriggerSome
    <3> QED
      BY <1>3, <3>1, <3>2 DEF PromptRaises
  <2> QED
    BY <2>1, <2>2, <2>3 DEF Inv, TypeOK
<1>4. ASSUME OutcomeRaises(t) PROVE Typed
  BY <1>4 DEF Inv, TypeOK, OutcomeRaises
<1>5. ASSUME VerdictRaises(t) PROVE Typed
  BY <1>5 DEF Inv, TypeOK, VerdictRaises, Release, NoBasis, Bases
<1>6. ASSUME Dies(t), shown' \in Shown, broken' \in Nat PROVE Typed
  BY <1>6, Bounds DEF Inv, TypeOK, Dies
<1>7. ASSUME ReportRaises(t) PROVE Typed
  BY <1>6, <1>7 DEF Inv, TypeOK, ReportRaises, Seen, Shown
<1>8. ASSUME PictureRaises(t) PROVE Typed
  BY <1>6, <1>8 DEF Inv, TypeOK, PictureRaises
<1>9. ASSUME ResetRaises(t) PROVE Typed
  BY <1>6, <1>9 DEF Inv, TypeOK, ResetRaises, Seen, Shown
<1>10. Typed
  BY <1>1, <1>2, <1>3, <1>4, <1>5, <1>7, <1>8, <1>9 DEF Raises
<1>11. /\ raises' = raises + 1
       /\ (session' = Idle /\ origin' = NoOrigin) \/ UNCHANGED <<session, origin>>
       /\ UNCHANGED <<band, rows, nfc, gate, epoch, cancels, restarts>>
  BY DEF Raises, ResetRaises
<1> HIDE DEF Typed
<1>12. TypeOK'
  <2>1. /\ session' \in [flow : Flows \cup {"none"}, seat : Seats \cup {NoSeat},
                          emb : Embeddings \cup {NoEmb}]
        /\ origin' \in Origins
    BY <1>11 DEF Inv, TypeOK, Idle, NoOrigin, Origins
  <2> QED
    BY <1>10, <1>11, <2>1 DEF Typed, Inv, TypeOK, Points
<1>13. IdRead'
  BY <1>10 DEF Typed, Inv, TypeOK, IdRead
<1> QED
  BY <1>12, <1>13 DEF Inv

LEMMA InvNext == Inv /\ [Next]_vars => Inv'
<1> SUFFICES ASSUME Inv, [Next]_vars PROVE Inv'
  OBVIOUS
<1>1. CASE UNCHANGED vars
  BY <1>1 DEF Inv, TypeOK, IdRead, vars, taskVars, bounds
<1>2. CASE Next
  BY <1>2, InvCommand, InvContinue, InvRaises, InvSurroundings DEF Next
<1> QED
  BY <1>1, <1>2

LEMMA SpecInv == Spec => []Inv
  BY InvInit, InvNext, PTL DEF Spec

\* Whatever the consoles, tablets, wristbands and cables do, every variable keeps to its type;
\* in particular no issue row is written with an id that was not read off a wristband.
THEOREM FlowTypeOK == Spec => []TypeOK
<1>1. Inv => TypeOK
  BY DEF Inv
<1> QED
  BY <1>1, SpecInv, PTL

-----------------------------------------------------------------------------
(* The session *)

\* The five things a step can do to the session and to where its embedding came from.
SessionKept == UNCHANGED <<session, origin, epoch>>
SessionReset == session' = Idle /\ origin' = NoOrigin /\ epoch' = epoch
SessionBegins ==
  /\ ~busy
  /\ \E f \in Flows, s \in Seats \cup {NoSeat} : session' = Started(f, s)
  /\ epoch' = epoch + 1 /\ origin' = NoOrigin
SessionGetsBand ==
  /\ session' = [session EXCEPT !.emb = session'.emb] /\ session'.emb # NoEmb
  /\ origin'.from = "band" /\ epoch' = epoch
SessionGetsPicture ==
  /\ session.flow = "issue"
  /\ session' = [session EXCEPT !.emb = session'.emb]
  /\ origin' = [from |-> "camera", of |-> epoch] /\ epoch' = epoch

TaskStep == SessionKept \/ SessionReset \/ SessionGetsBand \/ SessionGetsPicture
SessionStep == TaskStep \/ SessionBegins

\* A task may end the session or give it a reference; it never starts one.
LEMMA TaskSteps ==
  ASSUME Inv, NEW t \in Tasks, Continue(t)
  PROVE  TaskStep
<1>1. CASE AbortReset(t) \/ DoneReset(t)
  BY <1>1 DEF AbortReset, DoneReset, TaskStep, SessionReset
<1>2. CASE EntryAccept(t)
  BY <1>2 DEF EntryAccept, Inv, TypeOK, TaskStep, SessionGetsBand
<1>3. CASE FaceForIssue(t)
  BY <1>3 DEF FaceForIssue, ForIssue, Inv, TypeOK, TaskStep, SessionGetsPicture
<1>4. CASE \/ AnnounceIssue(t) \/ AnnounceTag(t) \/ AbortDisconnect(t)
           \/ Complete(t) \/ Linger(t)
           \/ Tag(t) \/ Wake(t) \/ Connected(t) \/ ConnectFails(t) \/ Disconnect(t)
  BY <1>4 DEF AnnounceIssue, AnnounceTag, AbortDisconnect, Complete, Linger, Tag, Wake,
              Connected, ConnectFails, Disconnect, TaskStep, SessionKept
<1>5. CASE \/ IssueStepFails(t) \/ IssueReadId(t) \/ IssueWriteEmbedding(t)
           \/ IssueWriteSeat(t) \/ IssueRecord(t)
           \/ ReturnReadId(t) \/ ReturnClear(t) \/ ReturnRecord(t)
  BY <1>5 DEF IssueStepFails, IssueReadId, IssueWriteEmbedding, IssueWriteSeat, IssueRecord,
              ReturnReadId, ReturnClear, ReturnRecord, TaskStep, SessionKept
<1>6. CASE \/ EntryReadEmbedding(t) \/ EntryRefuse(t) \/ EntryPrompt(t) \/ EntryLeave(t)
           \/ IssueCaptured(t) \/ FaceForEntry(t) \/ FaceTooEarly(t)
           \/ FaceIgnored(t) \/ Verdict(t)
  BY <1>6 DEF EntryReadEmbedding, EntryRefuse, EntryPrompt, EntryLeave, IssueCaptured,
              FaceForEntry, FaceTooEarly, FaceIgnored, Verdict, TaskStep, SessionKept
<1> QED
  BY <1>1, <1>2, <1>3, <1>4, <1>5, <1>6 DEF Continue

LEMMA SessionSteps == Inv /\ [Next]_vars => SessionStep
<1> SUFFICES ASSUME Inv, [Next]_vars PROVE SessionStep
  OBVIOUS
<1>1. CASE UNCHANGED vars
  BY <1>1 DEF vars, SessionStep, TaskStep, SessionKept
<1>2. ASSUME NEW a \in Admins, Command(a) PROVE SessionStep
  BY <1>2 DEF Command, Start, StartWithoutDevice, Cancel, DeviceConnect, CanStart, Flows,
              SessionStep, TaskStep, SessionKept, SessionBegins
<1>3. ASSUME NEW t \in Tasks, Continue(t) PROVE SessionStep
  BY <1>3, TaskSteps DEF SessionStep
<1>4. ASSUME NEW tab \in Tablets,
             (\E f \in Faces : Upload(tab, f)) \/ UploadRejected(tab) \/ CaptureLost(tab)
      PROVE  SessionStep
  BY <1>4 DEF Upload, UploadRejected, CaptureLost, SessionStep, TaskStep, SessionKept
<1>5. CASE \/ \E g \in gate : GateDone(g)
           \/ \E b \in Bands : WearChanges(b)
           \/ DeviceLost
  BY <1>5 DEF GateDone, WearChanges, DeviceLost, SessionStep, TaskStep, SessionKept
<1>6. CASE ServerRestart
  BY <1>6 DEF ServerRestart, SessionStep, TaskStep, SessionReset
<1>7. ASSUME NEW t \in Tasks, Raises(t) \/ ResetRaises(t) PROVE SessionStep
  BY <1>7 DEF Raises, ResetRaises, SessionStep, TaskStep, SessionKept, SessionReset
<1> QED
  BY <1>1, <1>2, <1>3, <1>4, <1>5, <1>6, <1>7 DEF Next

\* An entry is only ever decided against a reference some on_tag read off a wristband, however
\* many consoles and tablets there are: a picture can only become the reference of an issue,
\* and no session changes from issue to entry.
THEOREM FlowReferenceFromBand == Spec => []EntryReferenceFromBand
<1>1. Init => EntryReferenceFromBand
  BY DEF Init, Idle, EntryReferenceFromBand
<1>2. Inv /\ EntryReferenceFromBand /\ [Next]_vars => EntryReferenceFromBand'
  <2> SUFFICES ASSUME Inv, EntryReferenceFromBand, SessionStep PROVE EntryReferenceFromBand'
    BY SessionSteps
  <2>1. CASE SessionKept
    BY <2>1 DEF SessionKept, EntryReferenceFromBand
  <2>2. CASE SessionReset \/ SessionBegins
    BY <2>2 DEF SessionReset, SessionBegins, Idle, Started, EntryReferenceFromBand
  <2>3. CASE SessionGetsBand
    BY <2>3 DEF SessionGetsBand, EntryReferenceFromBand
  <2>4. CASE SessionGetsPicture
    BY <2>4 DEF SessionGetsPicture, EntryReferenceFromBand, Inv, TypeOK
  <2> QED
    BY <2>1, <2>2, <2>3, <2>4 DEF SessionStep, TaskStep
<1> QED
  BY <1>1, <1>2, SpecInv, PTL DEF Spec

\* One procedure never turns into another, whatever number of consoles send their starts.
THEOREM FlowNoPreemption == Spec => NoPreemption
<1> DEFINE Kept ==
      busy /\ session'.flow # "none"
        => epoch' = epoch /\ session'.flow = session.flow /\ session'.seat = session.seat
<1>1. Inv /\ [Next]_vars => [Kept]_vars
  <2> SUFFICES ASSUME Inv, SessionStep PROVE Kept
    BY SessionSteps
  <2>1. CASE SessionKept \/ SessionReset \/ SessionBegins
    BY <2>1 DEF SessionKept, SessionReset, SessionBegins, Idle, busy
  <2>2. CASE SessionGetsBand \/ SessionGetsPicture
    <3>1. session'.flow = session.flow /\ session'.seat = session.seat /\ epoch' = epoch
      BY <2>2 DEF SessionGetsBand, SessionGetsPicture, Inv, TypeOK
    <3> QED
      BY <3>1
  <2> QED
    BY <2>1, <2>2 DEF SessionStep, TaskStep
<1> QED
  BY <1>1, SpecInv, PTL DEF Spec, NoPreemption

-----------------------------------------------------------------------------
(* The gate *)

\* What a task between the comparison and its PASS knows.
FaceHeld(t) == pc[t] \in {"image", "verdict"} => buf[t] \in Faces
BasisHeld(t) ==
  basis[t] # NoBasis =>
    /\ pc[t] = "verdict"
    /\ basis[t].from = "band"
    /\ basis[t].ref \in Faces \cup {Torn}
    /\ CanMatch(basis[t].ref, buf[t])

GateInv ==
  /\ EntryReferenceFromBand /\ GateJustified
  /\ \A t \in Tasks : FaceHeld(t) /\ BasisHeld(t)

\* A step of t that neither compares nor opens.
Elsewhere(t) ==
  /\ pc[t] # "verdict"
  /\ \E p \in Points \ {"image", "verdict"} : pc' = [pc EXCEPT ![t] = p]
  /\ buf' = [buf EXCEPT ![t] = buf'[t]]
  /\ UNCHANGED <<basis, gate>>

LEMMA ContinueElsewhere ==
  ASSUME Inv, NEW t \in Tasks, Continue(t)
  PROVE  FaceForEntry(t) \/ Verdict(t) \/ Elsewhere(t)
<1> USE DEF Inv, TypeOK, Goto, Points, Elsewhere, taskVars
<1>1. CASE \/ AnnounceIssue(t) \/ AnnounceTag(t) \/ AbortDisconnect(t) \/ AbortReset(t)
           \/ Complete(t) \/ DoneReset(t) \/ Linger(t) \/ Tag(t) \/ Wake(t) \/ Connected(t)
           \/ ConnectFails(t) \/ Disconnect(t)
  BY <1>1 DEF AnnounceIssue, AnnounceTag, AbortDisconnect, AbortReset, Complete, DoneReset,
              Linger, Tag, Wake, Connected, ConnectFails, Disconnect, AfterTag,
              AfterOutcome
<1>2. CASE \/ IssueStepFails(t) \/ IssueReadId(t) \/ IssueWriteEmbedding(t)
           \/ IssueWriteSeat(t) \/ IssueRecord(t) \/ ReturnReadId(t) \/ ReturnClear(t)
           \/ ReturnRecord(t)
  BY <1>2 DEF IssueStepFails, IssueReadId, IssueWriteEmbedding, IssueWriteSeat,
              IssueRecord, ReturnReadId, ReturnClear, ReturnRecord, Fail
<1>3. CASE \/ EntryReadEmbedding(t) \/ EntryRefuse(t) \/ EntryAccept(t) \/ EntryPrompt(t)
           \/ EntryLeave(t)
  BY <1>3 DEF EntryReadEmbedding, EntryRefuse, EntryAccept, EntryPrompt, EntryLeave
<1>4. CASE \/ FaceForIssue(t) \/ IssueCaptured(t) \/ FaceTooEarly(t) \/ FaceIgnored(t)
  BY <1>4 DEF FaceForIssue, IssueCaptured, FaceTooEarly, FaceIgnored
<1> QED
  BY <1>1, <1>2, <1>3, <1>4 DEF Continue

LEMMA GateElsewhere ==
  ASSUME Inv, GateInv, NEW t \in Tasks, Elsewhere(t)
  PROVE  GateJustified' /\ \A u \in Tasks : FaceHeld(u)' /\ BasisHeld(u)'
<1>1. GateJustified'
  BY DEF GateInv, GateJustified, Elsewhere
<1>2. ASSUME NEW u \in Tasks PROVE FaceHeld(u)' /\ BasisHeld(u)'
  <2>1. CASE u = t
    BY <2>1 DEF GateInv, FaceHeld, BasisHeld, Elsewhere, Inv, TypeOK
  <2>2. CASE u # t
    BY <2>2 DEF GateInv, FaceHeld, BasisHeld, Elsewhere, Inv, TypeOK
  <2> QED
    BY <2>1, <2>2
<1> QED
  BY <1>1, <1>2

\* The comparison: what passes resembles a reference that is a face or a torn one.
LEMMA GateFaceForEntry ==
  ASSUME Inv, GateInv, NEW t \in Tasks, FaceForEntry(t)
  PROVE  GateJustified' /\ \A u \in Tasks : FaceHeld(u)' /\ BasisHeld(u)'
<1>1. PICK passed \in Verdicts(session.emb, buf[t]) :
        basis' = [basis EXCEPT ![t] = IF passed /\ nfc
                                      THEN [ref |-> session.emb, from |-> origin.from]
                                      ELSE NoBasis]
  BY DEF FaceForEntry
<1>2. /\ pc[t] = "image" /\ pc' = [pc EXCEPT ![t] = "verdict"]
      /\ session.flow = "entry" /\ session.emb # NoEmb
      /\ UNCHANGED <<buf, gate>>
  BY DEF FaceForEntry, Goto
<1>3. origin.from = "band" /\ buf[t] \in Faces
  BY <1>2 DEF GateInv, EntryReferenceFromBand, FaceHeld
<1>4. passed => session.emb \in Faces \cup {Torn} /\ CanMatch(session.emb, buf[t])
  BY <1>1, <1>3 DEF Verdicts, CanMatch
<1>5. GateJustified'
  BY <1>2 DEF GateInv, GateJustified
<1>6. ASSUME NEW u \in Tasks PROVE FaceHeld(u)' /\ BasisHeld(u)'
  <2>1. CASE u = t
    BY <1>1, <1>2, <1>3, <1>4, <2>1 DEF FaceHeld, BasisHeld, Inv, TypeOK, CanMatch
  <2>2. CASE u # t
    BY <1>1, <1>2, <2>2 DEF GateInv, FaceHeld, BasisHeld, Inv, TypeOK
  <2> QED
    BY <2>1, <2>2
<1> QED
  BY <1>5, <1>6

\* The PASS: the task still holds the face it compared.
LEMMA GateVerdict ==
  ASSUME Inv, GateInv, NEW t \in Tasks, Verdict(t)
  PROVE  GateJustified' /\ \A u \in Tasks : FaceHeld(u)' /\ BasisHeld(u)'
<1>1. /\ pc[t] = "verdict" /\ pc' = [pc EXCEPT ![t] = "complete"]
      /\ basis' = [basis EXCEPT ![t] = NoBasis]
      /\ buf' = buf
  BY DEF Verdict, Goto
<1>2. \/ gate' = gate
      \/ /\ basis[t] # NoBasis
         /\ gate' = gate \cup {[live |-> buf[t], by |-> basis[t]]}
  BY DEF Verdict
<1>3. GateJustified'
  <2>1. CASE gate' = gate
    BY <2>1 DEF GateInv, GateJustified
  <2>2. CASE basis[t] # NoBasis /\ gate' = gate \cup {[live |-> buf[t], by |-> basis[t]]}
    <3>1. /\ buf[t] \in Faces /\ basis[t].from = "band"
          /\ basis[t].ref \in Faces \cup {Torn} /\ CanMatch(basis[t].ref, buf[t])
      BY <1>1, <2>2 DEF GateInv, FaceHeld, BasisHeld
    <3>2. basis[t].ref \notin {NoEmb, Zero, NotNumber}
      BY <3>1, Distinct DEF Embeddings
    <3> QED
      BY <2>2, <3>1, <3>2 DEF GateInv, GateJustified
  <2> QED
    BY <1>2, <2>1, <2>2
<1>4. ASSUME NEW u \in Tasks PROVE FaceHeld(u)' /\ BasisHeld(u)'
  BY <1>1 DEF GateInv, FaceHeld, BasisHeld, Inv, TypeOK
<1> QED
  BY <1>3, <1>4

\* A raise: the picture and the verdict are given up, or not touched.
LEMMA GateRaises ==
  ASSUME Inv, GateInv, NEW t \in Tasks, Raises(t) \/ ResetRaises(t)
  PROVE  GateJustified' /\ \A u \in Tasks : FaceHeld(u)' /\ BasisHeld(u)'
<1>1. CASE VerdictRaises(t) /\ gate' = gate
  <2>1. /\ pc' = [pc EXCEPT ![t] = "complete"] /\ buf' = buf
        /\ basis' = [basis EXCEPT ![t] = NoBasis]
    BY <1>1 DEF VerdictRaises, Goto
  <2> QED
    BY <1>1, <2>1 DEF GateInv, GateJustified, FaceHeld, BasisHeld, Inv, TypeOK
<1>2. CASE Dies(t) /\ pc[t] # "verdict" /\ gate' = gate
  <2>1. Elsewhere(t)
    BY <1>2 DEF Dies, Goto, Elsewhere, Points, Inv, TypeOK
  <2> QED
    BY <2>1, GateElsewhere
<1>3. CASE /\ StartRaises(t) \/ CapturedRaises(t) \/ PromptRaises(t) \/ OutcomeRaises(t)
           /\ gate' = gate
  <2>1. Elsewhere(t)
    BY <1>3 DEF StartRaises, CapturedRaises, PromptRaises, OutcomeRaises, Goto, Elsewhere,
                Points, Inv, TypeOK
  <2> QED
    BY <2>1, GateElsewhere
<1> QED
  BY <1>1, <1>2, <1>3 DEF Raises, ResetRaises, ReportRaises, PictureRaises

\* A command of console a: it leaves "ready" for "announce" or "abort" and touches no picture.
LEMMA GateCommand ==
  ASSUME Inv, GateInv, NEW a \in Admins, Command(a)
  PROVE  GateJustified' /\ \A u \in Tasks : FaceHeld(u)' /\ BasisHeld(u)'
<1>1. /\ pc[a] = "ready"
      /\ \E p \in {"ready", "announce", "abort"} : pc' = [pc EXCEPT ![a] = p]
      /\ UNCHANGED <<buf, basis, gate>>
  BY DEF Command, Start, StartWithoutDevice, Cancel, DeviceConnect, Goto, taskVars, Inv, TypeOK,
         Tasks
<1>2. GateJustified'
  BY <1>1 DEF GateInv, GateJustified
<1>3. ASSUME NEW u \in Tasks PROVE FaceHeld(u)' /\ BasisHeld(u)'
  BY <1>1 DEF GateInv, FaceHeld, BasisHeld, Inv, TypeOK, Tasks
<1> QED
  BY <1>2, <1>3

\* A picture arrives: its face is one of Faces.
LEMMA GateUpload ==
  ASSUME Inv, GateInv, NEW tab \in Tablets, NEW f \in Faces, Upload(tab, f)
  PROVE  GateJustified' /\ \A u \in Tasks : FaceHeld(u)' /\ BasisHeld(u)'
<1>1. /\ pc[tab] = "ready" /\ pc' = [pc EXCEPT ![tab] = "image"]
      /\ buf' = [buf EXCEPT ![tab] = f]
      /\ UNCHANGED <<basis, gate>>
  BY DEF Upload, Goto
<1>2. GateJustified'
  BY <1>1 DEF GateInv, GateJustified
<1>3. ASSUME NEW u \in Tasks PROVE FaceHeld(u)' /\ BasisHeld(u)'
  BY <1>1 DEF GateInv, FaceHeld, BasisHeld, Inv, TypeOK, Tasks
<1> QED
  BY <1>2, <1>3

\* What is left touches neither a task's face nor its verdict, or forgets everything.
LEMMA GateRest ==
  ASSUME Inv, GateInv,
         \/ UNCHANGED vars
         \/ \E tab \in Tablets : UploadRejected(tab) \/ CaptureLost(tab)
         \/ \E g \in gate : GateDone(g)
         \/ \E b \in Bands : WearChanges(b)
         \/ DeviceLost
         \/ ServerRestart
  PROVE  GateJustified' /\ \A u \in Tasks : FaceHeld(u)' /\ BasisHeld(u)'
<1>1. CASE gate' \subseteq gate /\ UNCHANGED <<pc, buf, basis>>
  BY <1>1 DEF GateInv, GateJustified, FaceHeld, BasisHeld
<1>2. CASE ServerRestart
  BY <1>2 DEF ServerRestart, GateJustified, FaceHeld, BasisHeld
<1>3. ServerRestart \/ (gate' \subseteq gate /\ UNCHANGED <<pc, buf, basis>>)
  BY DEF vars, taskVars, UploadRejected, CaptureLost, GateDone, WearChanges, DeviceLost
<1> QED
  BY <1>1, <1>2, <1>3

LEMMA SpecGate == Spec => []GateInv
<1>1. Init => GateInv
  BY DEF Init, Idle, GateInv, EntryReferenceFromBand, GateJustified, FaceHeld, BasisHeld
<1>2. Inv /\ EntryReferenceFromBand' /\ GateInv /\ [Next]_vars => GateInv'
  <2> SUFFICES ASSUME Inv, EntryReferenceFromBand', GateInv, [Next]_vars
               PROVE  GateJustified' /\ \A u \in Tasks : FaceHeld(u)' /\ BasisHeld(u)'
    BY DEF GateInv
  <2>1. ASSUME NEW a \in Admins, Command(a)
        PROVE  GateJustified' /\ \A u \in Tasks : FaceHeld(u)' /\ BasisHeld(u)'
    BY <2>1, GateCommand
  <2>2. ASSUME NEW t \in Tasks, Continue(t)
        PROVE  GateJustified' /\ \A u \in Tasks : FaceHeld(u)' /\ BasisHeld(u)'
    <3>1. FaceForEntry(t) \/ Verdict(t) \/ Elsewhere(t)
      BY <2>2, ContinueElsewhere
    <3> QED
      BY <3>1, GateFaceForEntry, GateVerdict, GateElsewhere
  <2>3. ASSUME NEW tab \in Tablets, NEW f \in Faces, Upload(tab, f)
        PROVE  GateJustified' /\ \A u \in Tasks : FaceHeld(u)' /\ BasisHeld(u)'
    BY <2>3, GateUpload
  <2>4. ASSUME NEW t \in Tasks, Raises(t) \/ ResetRaises(t)
        PROVE  GateJustified' /\ \A u \in Tasks : FaceHeld(u)' /\ BasisHeld(u)'
    BY <2>4, GateRaises
  <2> QED
    BY <2>1, <2>2, <2>3, <2>4, GateRest DEF Next
<1> QED
  BY <1>1, <1>2, SpecInv, FlowReferenceFromBand, PTL DEF Spec

\* Every PASS sent to the gate board is for a live face that resembles a reference read off a
\* wristband, neither blank nor NaN: what the session becomes between the comparison and the
\* PASS cannot change it, whatever number of consoles and tablets act on it.
THEOREM FlowGateJustified == Spec => []GateJustified
<1>1. GateInv => GateJustified
  BY DEF GateInv
<1> QED
  BY <1>1, SpecGate, PTL

-----------------------------------------------------------------------------
(* No orphan session *)

\* t is bound to reset the session.
Ends(t) == pc[t] \in {"abort", "aborted", "complete", "done"}

\* t works for the procedure of the session, on a path that ends in Ends or in a reference.
Serves(t) ==
  /\ proc[t] = session.flow
  /\ \/ pc[t] \in {"announce", "tag", "wake", "connect", "read", "clear", "disc", "record"}
     \/ proc[t] = "entry" /\ (pc[t] = "flag" \/ (pc[t] = "leave" /\ ~res[t]))

\* The session waits for no face: somebody must be at work on it.
Needy == session.flow = "return" \/ (session.flow = "entry" /\ session.emb = NoEmb)

\* Unless a report of this session raised outside every try.
Owned == Needy /\ broken # epoch => \E t \in Tasks : Ends(t) \/ Serves(t)

\* A step of a task moves nobody else.
LEMMA ContinueFrame ==
  ASSUME Inv, NEW t \in Tasks, Continue(t), NEW u \in Tasks, u # t
  PROVE  pc'[u] = pc[u] /\ proc'[u] = proc[u] /\ res'[u] = res[u]
<1> USE DEF Inv, TypeOK, Goto, taskVars
<1>1. CASE \/ AnnounceIssue(t) \/ AnnounceTag(t) \/ AbortDisconnect(t) \/ AbortReset(t)
           \/ Complete(t) \/ DoneReset(t) \/ Linger(t) \/ Tag(t) \/ Wake(t) \/ Connected(t)
           \/ ConnectFails(t) \/ Disconnect(t)
  BY <1>1 DEF AnnounceIssue, AnnounceTag, AbortDisconnect, AbortReset, Complete, DoneReset,
              Linger, Tag, Wake, Connected, ConnectFails, Disconnect
<1>2. CASE \/ IssueStepFails(t) \/ IssueReadId(t) \/ IssueWriteEmbedding(t)
           \/ IssueWriteSeat(t) \/ IssueRecord(t) \/ ReturnReadId(t) \/ ReturnClear(t)
           \/ ReturnRecord(t)
  BY <1>2 DEF IssueStepFails, IssueReadId, IssueWriteEmbedding, IssueWriteSeat,
              IssueRecord, ReturnReadId, ReturnClear, ReturnRecord, Fail
<1>3. CASE \/ EntryReadEmbedding(t) \/ EntryRefuse(t) \/ EntryAccept(t) \/ EntryPrompt(t)
           \/ EntryLeave(t)
  BY <1>3 DEF EntryReadEmbedding, EntryRefuse, EntryAccept, EntryPrompt, EntryLeave
<1>4. CASE \/ FaceForIssue(t) \/ IssueCaptured(t) \/ FaceForEntry(t) \/ FaceTooEarly(t)
           \/ FaceIgnored(t) \/ Verdict(t)
  BY <1>4 DEF FaceForIssue, IssueCaptured, FaceForEntry, FaceTooEarly, FaceIgnored, Verdict
<1> QED
  BY <1>1, <1>2, <1>3, <1>4 DEF Continue

\* The worker itself goes on to a point where it still owns the session, unless it has reset
\* the session or given it a reference.
LEMMA OwnerGoesOn ==
  ASSUME Inv, NEW t \in Tasks, Continue(t), Ends(t) \/ Serves(t), Needy, Needy',
         session'.flow = session.flow
  PROVE  Ends(t)' \/ Serves(t)'
<1> USE DEF Inv, TypeOK, Goto, taskVars, Ends, Serves, Needy
<1>1. CASE \/ AnnounceIssue(t) \/ AnnounceTag(t) \/ AbortDisconnect(t) \/ AbortReset(t)
           \/ Complete(t) \/ DoneReset(t) \/ Linger(t) \/ Tag(t) \/ Wake(t) \/ Connected(t)
           \/ ConnectFails(t) \/ Disconnect(t)
  BY <1>1 DEF AnnounceIssue, AnnounceTag, AbortDisconnect, AbortReset, Complete, DoneReset,
              Linger, Tag, Wake, Connected, ConnectFails, Disconnect, AfterTag,
              AfterOutcome, Idle
<1>2. CASE \/ IssueStepFails(t) \/ IssueReadId(t) \/ IssueWriteEmbedding(t)
           \/ IssueWriteSeat(t) \/ IssueRecord(t) \/ ReturnReadId(t) \/ ReturnClear(t)
           \/ ReturnRecord(t)
  BY <1>2 DEF IssueStepFails, IssueReadId, IssueWriteEmbedding, IssueWriteSeat,
              IssueRecord, ReturnReadId, ReturnClear, ReturnRecord, Fail
<1>3. CASE \/ EntryReadEmbedding(t) \/ EntryRefuse(t) \/ EntryAccept(t) \/ EntryPrompt(t)
           \/ EntryLeave(t)
  BY <1>3 DEF EntryReadEmbedding, EntryRefuse, EntryAccept, EntryPrompt, EntryLeave,
              Embeddings
<1>4. CASE \/ FaceForIssue(t) \/ IssueCaptured(t) \/ FaceForEntry(t) \/ FaceTooEarly(t)
           \/ FaceIgnored(t) \/ Verdict(t)
  BY <1>4 DEF FaceForIssue, IssueCaptured, FaceForEntry, FaceTooEarly, FaceIgnored, Verdict
<1> QED
  BY <1>1, <1>2, <1>3, <1>4 DEF Continue

\* The server's own steps touch no bound and break nothing.
LEMMA ContinueBounds ==
  ASSUME NEW t \in Tasks, Continue(t)
  PROVE  UNCHANGED bounds
<1>1. CASE \/ AnnounceIssue(t) \/ AnnounceTag(t) \/ AbortDisconnect(t) \/ AbortReset(t)
           \/ Complete(t) \/ DoneReset(t) \/ Linger(t) \/ Tag(t) \/ Wake(t) \/ Connected(t)
           \/ ConnectFails(t) \/ Disconnect(t)
  BY <1>1 DEF AnnounceIssue, AnnounceTag, AbortDisconnect, AbortReset, Complete, DoneReset,
              Linger, Tag, Wake, Connected, ConnectFails, Disconnect
<1>2. CASE \/ IssueStepFails(t) \/ IssueReadId(t) \/ IssueWriteEmbedding(t)
           \/ IssueWriteSeat(t) \/ IssueRecord(t) \/ ReturnReadId(t) \/ ReturnClear(t)
           \/ ReturnRecord(t)
  BY <1>2 DEF IssueStepFails, IssueReadId, IssueWriteEmbedding, IssueWriteSeat,
              IssueRecord, ReturnReadId, ReturnClear, ReturnRecord
<1>3. CASE \/ EntryReadEmbedding(t) \/ EntryRefuse(t) \/ EntryAccept(t) \/ EntryPrompt(t)
           \/ EntryLeave(t) \/ FaceForIssue(t) \/ IssueCaptured(t) \/ FaceForEntry(t)
           \/ FaceTooEarly(t) \/ FaceIgnored(t) \/ Verdict(t)
  BY <1>3 DEF EntryReadEmbedding, EntryRefuse, EntryAccept, EntryPrompt, EntryLeave,
              FaceForIssue, IssueCaptured, FaceForEntry, FaceTooEarly, FaceIgnored, Verdict
<1> QED
  BY <1>1, <1>2, <1>3 DEF Continue

LEMMA OwnedContinue ==
  ASSUME Inv, Owned, NEW t \in Tasks, Continue(t)
  PROVE  Owned'
<1> SUFFICES ASSUME Needy', broken' # epoch' PROVE (\E u \in Tasks : Ends(u) \/ Serves(u))'
  BY DEF Owned
<1>1. TaskStep
  BY TaskSteps
<1>2. Needy /\ session'.flow = session.flow /\ broken # epoch
  BY <1>1, ContinueBounds
     DEF TaskStep, SessionKept, SessionReset, SessionGetsBand, SessionGetsPicture, Idle,
         Needy, Inv, TypeOK, bounds
<1>3. PICK u \in Tasks : Ends(u) \/ Serves(u)
  BY <1>2 DEF Owned
<1>4. CASE u = t
  BY <1>2, <1>3, <1>4, OwnerGoesOn
<1>5. CASE u # t
  BY <1>2, <1>3, <1>5, ContinueFrame DEF Ends, Serves
<1> QED
  BY <1>4, <1>5

LEMMA OwnedCommand ==
  ASSUME Inv, Owned, NEW a \in Admins, Command(a)
  PROVE  Owned'
<1>1. ASSUME NEW f \in Flows, NEW s \in Seats \cup {NoSeat}, Start(a, f, s) PROVE Owned'
  <2>1. a \in Tasks /\ pc'[a] = "announce" /\ proc'[a] = f /\ session'.flow = f
    BY <1>1 DEF Start, Started, Goto, Inv, TypeOK, Tasks
  <2> QED
    BY <2>1 DEF Owned, Serves
<1>2. ASSUME ~\E f \in Flows, s \in Seats \cup {NoSeat} : Start(a, f, s) PROVE Owned'
  <2>1. /\ pc[a] = "ready" /\ pc' = [pc EXCEPT ![a] = pc'[a]]
        /\ proc' = [proc EXCEPT ![a] = proc'[a]]
        /\ UNCHANGED <<session, res, broken, epoch>>
    BY <1>2 DEF Command, StartWithoutDevice, Cancel, DeviceConnect, Goto, taskVars, Flows, Inv,
                TypeOK, Tasks, bounds
  <2>2. \A u \in Tasks : Ends(u) \/ Serves(u) => u # a
    BY <2>1 DEF Ends, Serves
  <2>3. ASSUME NEW u \in Tasks, u # a PROVE pc'[u] = pc[u] /\ proc'[u] = proc[u]
    BY <2>1, <2>3 DEF Inv, TypeOK
  <2>4. \A u \in Tasks : Ends(u) \/ Serves(u) => Ends(u)' \/ Serves(u)'
    BY <2>1, <2>2, <2>3 DEF Ends, Serves
  <2> QED
    BY <2>1, <2>4 DEF Owned, Needy
<1> QED
  BY <1>1, <1>2

\* A raise hands the session to an abort, takes it to its reset, or breaks it.
LEMMA OwnedRaises ==
  ASSUME Inv, Owned, NEW t \in Tasks, Raises(t) \/ ResetRaises(t)
  PROVE  Owned'
<1>1. CASE ResetRaises(t)
  BY <1>1 DEF ResetRaises, Idle, Owned, Needy
<1>2. CASE Raises(t) /\ broken' = epoch
  BY <1>2 DEF Raises, Owned
<1>3. ASSUME Raises(t), broken' # epoch PROVE Owned'
  <2> SUFFICES ASSUME Needy' PROVE (\E u \in Tasks : Ends(u) \/ Serves(u))'
    BY DEF Owned
  <2>1. /\ \/ StartRaises(t) \/ CapturedRaises(t) \/ PromptRaises(t) \/ OutcomeRaises(t)
           \/ VerdictRaises(t) \/ PictureRaises(t)
        /\ UNCHANGED <<session, epoch>>
    BY <1>3 DEF Raises, ReportRaises
  <2>2. broken' = broken
    BY <2>1 DEF StartRaises, CapturedRaises, PromptRaises, OutcomeRaises, VerdictRaises,
                PictureRaises
  <2>3. PICK u \in Tasks : Ends(u) \/ Serves(u)
    BY <1>3, <2>1, <2>2 DEF Owned, Needy
  <2>4. CASE u # t
    <3>1. pc'[u] = pc[u] /\ proc'[u] = proc[u] /\ res'[u] = res[u]
      BY <2>1, <2>4 DEF StartRaises, CapturedRaises, PromptRaises, OutcomeRaises,
                        VerdictRaises, PictureRaises, Dies, Goto, Inv, TypeOK
    <3> QED
      BY <2>1, <2>3, <3>1 DEF Ends, Serves
  <2>5. CASE u = t
    BY <2>1, <2>3, <2>5 DEF StartRaises, CapturedRaises, PromptRaises, OutcomeRaises,
                            VerdictRaises, PictureRaises, Dies, Goto, Ends, Serves, Needy,
                            Inv, TypeOK
  <2> QED
    BY <2>4, <2>5
<1> QED
  BY <1>1, <1>2, <1>3

LEMMA OwnedRest ==
  ASSUME Inv, Owned,
         \/ UNCHANGED vars
         \/ \E tab \in Tablets :
              (\E f \in Faces : Upload(tab, f)) \/ UploadRejected(tab) \/ CaptureLost(tab)
         \/ \E g \in gate : GateDone(g)
         \/ \E b \in Bands : WearChanges(b)
         \/ DeviceLost
         \/ ServerRestart
  PROVE  Owned'
<1>1. CASE UNCHANGED <<session, pc, proc, res, broken, epoch>>
  BY <1>1 DEF Owned, Needy, Ends, Serves
<1>2. ASSUME NEW tab \in Tablets, NEW f \in Faces, Upload(tab, f) PROVE Owned'
  <2>1. /\ pc[tab] = "ready" /\ pc' = [pc EXCEPT ![tab] = "image"]
        /\ UNCHANGED <<session, proc, res, broken, epoch>>
    BY <1>2 DEF Upload, Goto, bounds
  <2> QED
    BY <2>1 DEF Owned, Needy, Ends, Serves, Inv, TypeOK
<1>3. CASE ServerRestart
  BY <1>3 DEF ServerRestart, Idle, Owned, Needy
<1>4. \/ ServerRestart \/ (\E tab \in Tablets : \E f \in Faces : Upload(tab, f))
      \/ UNCHANGED <<session, pc, proc, res, broken, epoch>>
  BY DEF vars, taskVars, bounds, UploadRejected, CaptureLost, GateDone, WearChanges, DeviceLost
<1> QED
  BY <1>1, <1>2, <1>3, <1>4

\* No session is left that nobody works on and no face can end: the guards, the aborts and the
\* resets of any number of consoles and tablets, and any number of broadcasts that raise, never
\* add up to a procedure that only a cancel could get rid of, as long as no report outside a
\* try (emit_complete, DONE, the log line of an abort) raises in that session.
THEOREM FlowNoOrphanSession == Spec => []NoOrphanSession
<1>1. Init => Owned
  BY DEF Init, Idle, Owned, Needy
<1>2. Inv /\ Owned /\ [Next]_vars => Owned'
  BY OwnedCommand, OwnedContinue, OwnedRaises, OwnedRest DEF Next
<1>3. Inv /\ Owned => NoOrphanSession
  BY DEF Owned, Needy, Ends, Serves, NoOrphanSession, busy, Inv, TypeOK, Flows
<1> QED
  BY <1>1, <1>2, <1>3, SpecInv, PTL DEF Spec

-----------------------------------------------------------------------------
(* The table under the procedures *)

Table == INSTANCE IssueRepoProofs WITH
           Wristbands <- Bands, Seats <- Seats \cup {NoSeat}, Free <- NoEmb

\* record_return of an id that is no wristband finds no row.
LEMMA ReturnOfNobody ==
  ASSUME Inv, Repo!RecordReturn(NoBand)
  PROVE  rows' = rows
<1>1. rows \in Seq(Repo!Row)
  BY DEF Inv, TypeOK
<1>2. \A i \in DOMAIN rows : rows[i] \in Repo!Row /\ rows[i].wid # NoBand
  <2>1. \A i \in DOMAIN rows : rows[i] \in Repo!Row
    BY <1>1
  <2>2. \A r \in Repo!Row : r.wid # NoBand
    BY Distinct DEF Repo!Row
  <2> QED
    BY <2>1, <2>2
<1>3. \A i \in DOMAIN rows :
        [rows[i] EXCEPT !.returned = @ \/ rows[i].wid = NoBand] = rows[i]
  <2> SUFFICES ASSUME NEW r \in Repo!Row, r.wid # NoBand
               PROVE  [r EXCEPT !.returned = @ \/ r.wid = NoBand] = r
    BY <1>2
  <2>1. CASE r.returned = TRUE
    BY <2>1 DEF Repo!Row
  <2>2. CASE r.returned = FALSE
    BY <2>2 DEF Repo!Row
  <2> QED
    BY <2>1, <2>2 DEF Repo!Row
<1>4. rows' = [i \in DOMAIN rows |-> rows[i]]
  BY <1>3 DEF Repo!RecordReturn
<1> QED
  BY <1>1, <1>4

\* Nothing but record_issue and record_return touches the table.
LEMMA RowsStay ==
  ASSUME Next, \A t \in Tasks : ~IssueRecord(t) /\ ~ReturnRecord(t)
  PROVE  rows' = rows
<1>1. ASSUME NEW t \in Tasks, Continue(t) PROVE rows' = rows
  <2>1. CASE \/ AnnounceIssue(t) \/ AnnounceTag(t) \/ AbortDisconnect(t) \/ AbortReset(t)
             \/ Complete(t) \/ DoneReset(t) \/ Linger(t) \/ Tag(t) \/ Wake(t)
             \/ Connected(t) \/ ConnectFails(t) \/ Disconnect(t)
    BY <2>1 DEF AnnounceIssue, AnnounceTag, AbortDisconnect, AbortReset, Complete,
                DoneReset, Linger, Tag, Wake, Connected, ConnectFails, Disconnect
  <2>2. CASE \/ IssueStepFails(t) \/ IssueReadId(t) \/ IssueWriteEmbedding(t)
             \/ IssueWriteSeat(t) \/ ReturnReadId(t) \/ ReturnClear(t)
    BY <2>2 DEF IssueStepFails, IssueReadId, IssueWriteEmbedding, IssueWriteSeat,
                ReturnReadId, ReturnClear
  <2>3. CASE \/ EntryReadEmbedding(t) \/ EntryRefuse(t) \/ EntryAccept(t)
             \/ EntryPrompt(t) \/ EntryLeave(t) \/ FaceForIssue(t) \/ IssueCaptured(t)
             \/ FaceForEntry(t) \/ FaceTooEarly(t) \/ FaceIgnored(t) \/ Verdict(t)
    BY <2>3 DEF EntryReadEmbedding, EntryRefuse, EntryAccept, EntryPrompt, EntryLeave,
                FaceForIssue, IssueCaptured, FaceForEntry, FaceTooEarly, FaceIgnored,
                Verdict
  <2> QED
    BY <1>1, <2>1, <2>2, <2>3 DEF Continue
<1>2. ASSUME NEW a \in Admins, Command(a) PROVE rows' = rows
  BY <1>2 DEF Command, Start, StartWithoutDevice, Cancel, DeviceConnect
<1>3. ASSUME ~\E a \in Admins : Command(a), ~\E t \in Tasks : Continue(t)
      PROVE  rows' = rows
  BY <1>3 DEF Next, Raises, ResetRaises, Upload, UploadRejected, CaptureLost, GateDone,
              WearChanges, DeviceLost, ServerRestart
<1> QED
  BY <1>1, <1>2, <1>3

\* The procedures change the table through record_issue and record_return only, and only with
\* ids they have read: every behaviour of the flows is a behaviour of the table's own
\* specification, restarts of the server included.
THEOREM FlowDrivesTable == Spec => Repo!Spec
<1>1. Init => Repo!Init
  BY DEF Init, Repo!Init
<1>2. Inv /\ [Next]_vars => [Repo!Next]_rows
  <2> SUFFICES ASSUME Inv, Next PROVE Repo!Next \/ rows' = rows
    BY DEF vars
  <2>1. ASSUME NEW t \in Tasks, IssueRecord(t) PROVE Repo!Next \/ rows' = rows
    <3>1. wid[t] \in Bands /\ session.seat \in Seats \cup {NoSeat}
      BY <2>1 DEF IssueRecord, Inv, TypeOK, IdRead
    <3> QED
      BY <2>1, <3>1 DEF IssueRecord, Repo!Next
  <2>2. ASSUME NEW t \in Tasks, ReturnRecord(t) PROVE Repo!Next \/ rows' = rows
    <3>1. wid[t] \in Bands \/ wid[t] = NoBand
      BY DEF Inv, TypeOK
    <3> QED
      BY <2>2, <3>1, ReturnOfNobody DEF ReturnRecord, Repo!Next
  <2>3. ASSUME \A t \in Tasks : ~IssueRecord(t) /\ ~ReturnRecord(t) PROVE rows' = rows
    BY <2>3, RowsStay
  <2> QED
    BY <2>1, <2>2, <2>3
<1> QED
  BY <1>1, <1>2, SpecInv, PTL DEF Spec, Repo!Spec

\* No wristband and no seat is issued twice, although on_tag checks before its BLE writes and
\* records after them, and tasks of several tablets and stale tasks may record at once.
THEOREM FlowOneActiveIssue == Spec => []Repo!OneActiveIssue
<1>1. NoEmb \notin Seats \cup {NoSeat} /\ MaxRows \in Nat
  BY Distinct, Bounds
<1>2. Table!Spec => []Table!OneActiveIssue
  BY <1>1, Table!TableOneActiveIssue
<1>3. Repo!Init => Table!Init
  BY DEF Repo!Init, Table!Init
<1>4. [Repo!Next]_rows => [Table!Next]_rows
  BY DEF Repo!Next, Repo!RecordIssue, Repo!RecordReturn, Repo!Conflict,
         Repo!FindActiveByWristband, Repo!FindActiveBySeat, Repo!IsActive,
         Table!Next, Table!RecordIssue, Table!RecordReturn, Table!Conflict,
         Table!FindActiveByWristband, Table!FindActiveBySeat, Table!IsActive
<1>5. Table!OneActiveIssue => Repo!OneActiveIssue
  BY DEF Table!OneActiveIssue, Table!IsActive, Repo!OneActiveIssue, Repo!IsActive
<1> QED
  BY <1>2, <1>3, <1>4, <1>5, FlowDrivesTable, PTL DEF Repo!Spec, Table!Spec


\* The whole system keeps the promise of the registry: across three procedures, stale tasks,
\* several tablets and restarts, a step gives one free wristband one free seat, takes one
\* back, or changes nobody's.
THEOREM FlowImplementsRegistry == Spec => Repo!ImplementsRegistry
<1>1. NoEmb \notin Seats \cup {NoSeat} /\ MaxRows \in Nat
  BY Distinct, Bounds
<1>2. Table!Spec => Table!ImplementsRegistry
  BY <1>1, Table!TableImplementsRegistry
<1>3. Repo!Init => Table!Init
  BY DEF Repo!Init, Table!Init
<1>4. [Repo!Next]_rows => [Table!Next]_rows
  BY DEF Repo!Next, Repo!RecordIssue, Repo!RecordReturn, Repo!Conflict,
         Repo!FindActiveByWristband, Repo!FindActiveBySeat, Repo!IsActive,
         Table!Next, Table!RecordIssue, Table!RecordReturn, Table!Conflict,
         Table!FindActiveByWristband, Table!FindActiveBySeat, Table!IsActive
<1>5. Repo!SeatOf = Table!SeatOf
  BY DEF Repo!SeatOf, Table!SeatOf, Repo!FindActiveByWristband, Table!FindActiveByWristband,
         Repo!IsActive, Table!IsActive
<1>6. Table!Registry!Init => Repo!Registry!Init
  BY <1>5 DEF Repo!Registry!Init, Table!Registry!Init
<1>7. [Table!Registry!Next]_(Table!SeatOf) => [Repo!Registry!Next]_(Repo!SeatOf)
  <2>1. Repo!SeatOf' = Table!SeatOf'
    BY DEF Repo!SeatOf, Table!SeatOf, Repo!FindActiveByWristband,
           Table!FindActiveByWristband, Repo!IsActive, Table!IsActive
  <2> QED
    BY <1>5, <2>1 DEF Repo!Registry!Next, Repo!Registry!Assign, Repo!Registry!Release,
                      Table!Registry!Next, Table!Registry!Assign, Table!Registry!Release
<1> QED
  BY <1>2, <1>3, <1>4, <1>6, <1>7, FlowDrivesTable, PTL
     DEF Repo!Spec, Table!Spec, Repo!ImplementsRegistry, Table!ImplementsRegistry,
         Repo!Registry!Spec, Table!Registry!Spec
=============================================================================
