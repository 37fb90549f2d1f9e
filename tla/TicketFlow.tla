------------------------------ MODULE TicketFlow ------------------------------
(***************************************************************************)
(* application/flow_runner.py and application/flows/: the issue, entry and *)
(* return procedures over the one shared Session, BLE client and issue     *)
(* table.                                                                  *)
(*                                                                         *)
(* The server is one asyncio loop.  Every /ws/admin and /ws/tablet socket  *)
(* is one task that handles its messages one at a time; a task runs alone  *)
(* up to its next await.  One action here is one such segment, and pc[t]   *)
(* names the await at which task t is suspended.  Consecutive awaits with  *)
(* no shared state read or written between them (log lines, sounds, LED    *)
(* effects) share one pc.                                                  *)
(***************************************************************************)
EXTENDS Naturals, Sequences, FiniteSets

CONSTANTS
  Admins, Tablets,      \* sockets, each served by a task of its own
  Bands,                \* wristbands; the id a band reports is the band itself
  Faces,                \* people: the face a camera embedding is of
  Seats,
  NoBand, NoSeat, NoEmb,      \* "" for an id and a seat, None for an embedding
  Zero,                 \* the all-zero embedding of a blank wristband
  NotNumber,            \* what np.asarray(None, float32) leaves on a wristband
  Torn,                 \* part of one embedding over another, an interrupted write
  MaxSessions, MaxCancels, MaxRestarts, MaxArmed, MaxRows,
  MaxRaises             \* bounds; the last: broadcasts that raise

Tasks == Admins \cup Tablets
Embeddings == Faces \cup {Zero, NotNumber, Torn}

ASSUME Sockets == Admins \cap Tablets = {}
ASSUME Distinct ==
  /\ NoBand \notin Bands /\ NoSeat \notin Seats
  /\ NoEmb \notin Embeddings \cup Seats \cup {NoSeat}
  /\ Zero \notin Faces /\ NotNumber \notin Faces /\ Torn \notin Faces
  /\ Zero # NotNumber /\ Zero # Torn /\ NotNumber # Torn
ASSUME Bounds ==
  /\ MaxSessions \in Nat /\ MaxCancels \in Nat /\ MaxRestarts \in Nat
  /\ MaxArmed \in Nat \ {0} /\ MaxRows \in Nat /\ MaxRaises \in Nat

VARIABLES
  session,    \* domain/session.py: Session (name travels with seat)
  shown,      \* the last FlowState sent to the admin consoles
  pc, then,   \* per task: where it waits; what follows an abort inside *_start
  proc,       \* per task: whose on_tag it runs
  buf,        \* per task: the extracted or the read embedding it holds
  wid,        \* per task: the wristband id on_tag has read
  res,        \* per task: the ok / passed of the outcome it carries
  link,       \* the wristband BleCentral.client is connected to
  band,       \* what each wristband stores
  rows,       \* the issues table (IssueRepo)
  nfc,        \* operator device is_connected
  gate,       \* background tasks with a PASS at the gate board
  armed,      \* per tablet: countdowns that will end in an image
  \* history, read by no guard:
  epoch,      \* sessions started so far
  origin,     \* where session.embedding came from, and of which session
  basis,      \* per task: what its verdict was computed from
  during,     \* per task: the session in which it read the embedding it holds
  left,       \* the last disconnect of the client raised
  broken,     \* the last session in which a report raised that no try surrounds
  cancels, restarts, raises

taskVars == <<pc, then, proc, buf, wid, res>>
bounds == <<cancels, restarts, raises, broken>>
vars == <<session, shown, taskVars, link, left, band, rows, nfc, gate, armed,
          epoch, origin, basis, during, bounds>>

Repo == INSTANCE IssueRepo WITH
          Wristbands <- Bands, Seats <- Seats \cup {NoSeat}, Free <- NoEmb

Flows == {"issue", "entry", "return"}
Shown == {"idle", "await_face", "await_tag", "await_face_entry", "done"}
Points == {"ready", "announce", "tag", "wake", "connect", "read", "flag", "prompt",
           "leave", "write", "seat", "record", "clear", "disc", "complete", "done",
           "linger", "abort", "aborted", "image", "captured", "verdict"}

\* What a wristband keeps: the embedding and the seat in RAM, the contact flag.
Memory == [emb : Embeddings, seat : Seats \cup {NoSeat}, flag : BOOLEAN]

Idle == [flow |-> "none", seat |-> NoSeat, emb |-> NoEmb]
NoOrigin == [from |-> "none", of |-> 0]
NoBasis == [ref |-> NoEmb, from |-> "none"]

Init ==
  /\ session = Idle /\ shown = "idle"
  /\ pc = [t \in Tasks |-> "ready"] /\ then = [t \in Tasks |-> "ready"]
  /\ proc = [t \in Tasks |-> "issue"]
  /\ buf = [t \in Tasks |-> NoEmb] /\ wid = [t \in Tasks |-> NoBand]
  /\ res = [t \in Tasks |-> FALSE]
  /\ link = NoBand /\ left = FALSE
  /\ band \in [Bands -> [emb : {Zero}, seat : {NoSeat}, flag : BOOLEAN]]
  /\ rows = <<>> /\ nfc = FALSE /\ gate = {}
  /\ armed = [t \in Tablets |-> 0]
  /\ epoch = 0 /\ origin = NoOrigin /\ basis = [t \in Tasks |-> NoBasis]
  /\ during = [t \in Tasks |-> 0]
  /\ cancels = 0 /\ restarts = 0 /\ raises = 0 /\ broken = 0

-----------------------------------------------------------------------------
(* Pieces the segments share *)

busy == session.flow # "none"

Goto(t, p) == pc' = [pc EXCEPT ![t] = p]

\* _guard_idle and require_device, with no await up to session.start. (A refused command
\* changes nothing.)  Mutant: the guard is missing.
CanStartUnguarded == nfc
CanStart == ~busy /\ nfc

\* Session.start.  Mutant: it leaves the embedding alone.
StartedKeeping(f, s) == [session EXCEPT !.flow = f, !.seat = s]
Started(f, s) == [flow |-> f, seat |-> s, emb |-> NoEmb]

\* BleCentral.disconnect: an error of the stack is logged, and the wristband may stay
\* connected.  Mutant: nothing is disconnected.
ReleaseNever == UNCHANGED <<link, left>>
Release ==
  \/ link' = NoBand /\ left' = FALSE
  \/ link # NoBand /\ link' = link /\ left' = TRUE

\* capture_trigger goes to every tablet; nothing ever withdraws a countdown.
TriggerSome(S) ==
  armed' = [t \in Tablets |-> IF t \in S /\ armed[t] < MaxArmed THEN armed[t] + 1 ELSE armed[t]]
Trigger == TriggerSome(Tablets)

\* What a write that raises may have left: all, nothing or a part of it; the four bytes of
\* NotNumber are one write.
Partly(old, new) == {old, new} \cup {v \in {Torn} : old # new /\ new # NotNumber}

\* cosine(ref, live) >= COSINE_THRESHOLD can hold: never for a zero or a NaN reference.
CanMatch(ref, live) == ref = live \/ ref = Torn

\* The verdicts the comparison can reach.  Mutant: the threshold is not applied.
VerdictsUnchecked(ref, live) == BOOLEAN
Verdicts(ref, live) == {passed \in BOOLEAN : passed => CanMatch(ref, live)}

-----------------------------------------------------------------------------
(* Commands of an admin console *)

\* issue_start / entry_start / return_start on an idle session with the reader connected.
Start(a, f, s) ==
  /\ pc[a] = "ready" /\ CanStart
  /\ epoch < MaxSessions
  /\ session' = Started(f, s)
  /\ epoch' = epoch + 1 /\ origin' = NoOrigin
  /\ proc' = [proc EXCEPT ![a] = f]
  /\ Goto(a, "announce")
  /\ UNCHANGED <<shown, then, buf, wid, res, link, left, band, rows, nfc, gate, armed, basis,
                 during, bounds>>

\* Without the reader, start raises MissingDeviceError and _safe aborts; entry_start and
\* return_start then still call their *_tag.
StartWithoutDevice(a, f) ==
  /\ pc[a] = "ready" /\ ~busy /\ ~nfc
  /\ proc' = [proc EXCEPT ![a] = f]
  /\ then' = [then EXCEPT ![a] = IF f = "issue" THEN "ready" ELSE "tag"]
  /\ Goto(a, "abort")
  /\ UNCHANGED <<session, shown, buf, wid, res, link, left, band, rows, nfc, gate, armed, epoch,
                 origin, basis, during, bounds>>

AnnounceIssue(a) ==
  /\ pc[a] = "announce" /\ proc[a] = "issue"
  /\ shown' = "await_face"
  /\ Trigger
  /\ Goto(a, "ready")
  /\ UNCHANGED <<session, then, proc, buf, wid, res, link, left, band, rows, nfc, gate, epoch,
                 origin, basis, during, bounds>>

AnnounceTag(a) ==
  /\ pc[a] = "announce" /\ proc[a] # "issue"
  /\ shown' = "await_tag"
  /\ Goto(a, "tag")
  /\ UNCHANGED <<session, then, proc, buf, wid, res, link, left, band, rows, nfc, gate, armed,
                 epoch, origin, basis, during, bounds>>

\* cancel is accepted at any time.
Cancel(a) ==
  /\ pc[a] = "ready"
  /\ cancels < MaxCancels
  /\ cancels' = cancels + 1
  /\ Goto(a, "abort")
  /\ UNCHANGED <<session, shown, then, proc, buf, wid, res, link, left, band, rows, nfc, gate,
                 armed, epoch, origin, basis, during, restarts, raises, broken>>

\* io_connect, refused while a procedure runs.
DeviceConnect(a) ==
  /\ pc[a] = "ready" /\ ~busy /\ ~nfc
  /\ nfc' = TRUE
  /\ UNCHANGED <<session, shown, taskVars, link, left, band, rows, gate, armed, epoch, origin,
                 basis, during, bounds>>

\* The port goes away: a reopen after an I/O error fails, or an io_disconnect whose busy
\* check has already passed closes it.
DeviceLost ==
  /\ nfc /\ nfc' = FALSE
  /\ UNCHANGED <<session, shown, taskVars, link, left, band, rows, gate, armed, epoch, origin,
                 basis, during, bounds>>

-----------------------------------------------------------------------------
(* FlowRunner._abort, _abort_no_log, _mark_done *)

AbortDisconnect(t) ==
  /\ pc[t] = "abort"
  /\ Release
  /\ Goto(t, "aborted")
  /\ UNCHANGED <<session, shown, then, proc, buf, wid, res, band, rows, nfc, gate, armed, epoch,
                 origin, basis, during, bounds>>

\* Resets whatever session there is now.
AbortReset(t) ==
  /\ pc[t] = "aborted"
  /\ session' = Idle /\ origin' = NoOrigin
  /\ shown' = "idle"
  /\ Goto(t, then[t])
  /\ then' = [then EXCEPT ![t] = "ready"]
  /\ buf' = [buf EXCEPT ![t] = NoEmb] /\ wid' = [wid EXCEPT ![t] = NoBand]
  /\ UNCHANGED <<proc, res, link, left, band, rows, nfc, gate, armed, epoch, basis, during,
                 bounds>>

\* After emit_complete to the tablets.
Complete(t) ==
  /\ pc[t] = "complete"
  /\ shown' = "done"
  /\ Goto(t, "done")
  /\ res' = [res EXCEPT ![t] = FALSE]
  /\ buf' = [buf EXCEPT ![t] = NoEmb] /\ wid' = [wid EXCEPT ![t] = NoBand]
  /\ UNCHANGED <<session, then, proc, link, left, band, rows, nfc, gate, armed, epoch, origin,
                 basis, during, bounds>>

DoneReset(t) ==
  /\ pc[t] = "done"
  /\ session' = Idle /\ origin' = NoOrigin
  /\ Goto(t, "linger")
  /\ UNCHANGED <<shown, then, proc, buf, wid, res, link, left, band, rows, nfc, gate, armed,
                 epoch, basis, during, bounds>>

\* What the end of DONE_LINGER_SECONDS shows.  Mutant: IDLE is never shown.
LingerStays == shown
AfterLinger == IF busy THEN shown ELSE "idle"

Linger(t) ==
  /\ pc[t] = "linger"
  /\ shown' = AfterLinger
  /\ Goto(t, "ready")
  /\ UNCHANGED <<session, then, proc, buf, wid, res, link, left, band, rows, nfc, gate, armed,
                 epoch, origin, basis, during, bounds>>

-----------------------------------------------------------------------------
(* The common head of the three on_tag: guard, wake, connect *)

\* What on_tag needs: the device and, for an issue, the face.
CanTag(t) == nfc /\ (proc[t] = "issue" => session.emb # NoEmb)

\* issue_tag / entry_tag / return_tag check the flow only; an on_tag that raises is aborted.
\* Mutant: it is not.
AfterTagForgetful(t) == IF session.flow = proc[t] /\ CanTag(t) THEN "wake" ELSE "ready"
AfterTag(t) ==
  CASE session.flow # proc[t] -> "ready"
    [] session.flow = proc[t] /\ CanTag(t) -> "wake"
    [] session.flow = proc[t] /\ ~CanTag(t) -> "abort"

Tag(t) ==
  /\ pc[t] = "tag"
  /\ Goto(t, AfterTag(t))
  /\ UNCHANGED <<session, shown, then, proc, buf, wid, res, link, left, band, rows, nfc, gate,
                 armed, epoch, origin, basis, during, bounds>>

\* wake_wristband_wait: a tagged band within 15 s, or nothing, an error, a lost device.
Wake(t) ==
  /\ pc[t] = "wake"
  /\ \/ nfc /\ Goto(t, "connect")
     \/ Goto(t, "abort")
  /\ UNCHANGED <<session, shown, then, proc, buf, wid, res, link, left, band, rows, nfc, gate,
                 armed, epoch, origin, basis, during, bounds>>

\* connect_wristband overwrites the shared client. It tries the address NFC handed over and
\* falls back to any band that advertises, so b need not be the band that was tapped.
Connected(t) ==
  /\ pc[t] = "connect"
  /\ \E b \in Bands : link' = b
  /\ left' = FALSE
  /\ Goto(t, "read")
  /\ UNCHANGED <<session, shown, then, proc, buf, wid, res, band, rows, nfc, gate, armed, epoch,
                 origin, basis, during, bounds>>

\* ble_session disconnects even when connect failed; EntryFlow returns before its try.
ConnectFails(t) ==
  /\ pc[t] = "connect"
  /\ link' \in {link, NoBand}
  /\ res' = [res EXCEPT ![t] = FALSE]
  /\ Goto(t, IF proc[t] = "entry" THEN "abort" ELSE "disc")
  /\ UNCHANGED <<session, shown, then, proc, buf, wid, left, band, rows, nfc, gate, armed, epoch,
                 origin, basis, during, bounds>>

-----------------------------------------------------------------------------
(* IssueFlow.on_tag *)

Fail(t) == Goto(t, "disc") /\ res' = [res EXCEPT ![t] = FALSE]

\* write_embedding reads the session's embedding again; None is four NaN bytes, which write
\* without an error.
Encoded == IF session.emb = NoEmb THEN NotNumber ELSE session.emb

\* A GATT operation that raises leaves the procedure through the ble_session exit.
IssueStepFails(t) ==
  /\ proc[t] = "issue" /\ pc[t] \in {"read", "write"}
  /\ Fail(t)
  /\ IF pc[t] = "write" /\ link # NoBand
     THEN \E e \in Partly(band[link].emb, Encoded) : band' = [band EXCEPT ![link].emb = e]
     ELSE UNCHANGED band
  /\ UNCHANGED <<session, shown, then, proc, buf, wid, link, left, rows, nfc, gate, armed, epoch,
                 origin, basis, during, bounds>>

\* The ids on_tag goes on with; "" fails.  Mutant: "" is not checked.
ReadIdsUnchecked == {link, NoBand}
ReadIds == {link} \cap Bands

\* read_wristband_id, then both find_active checks without an await in between.
IssueReadId(t) ==
  /\ pc[t] = "read" /\ proc[t] = "issue"
  /\ \E w \in ReadIds : wid' = [wid EXCEPT ![t] = w]
  /\ IF Repo!Conflict(wid'[t], session.seat)
     THEN Fail(t)
     ELSE Goto(t, "write") /\ UNCHANGED res
  /\ UNCHANGED <<session, shown, then, proc, buf, link, left, band, rows, nfc, gate, armed,
                 epoch, origin, basis, during, bounds>>

\* Mutant: a failed embedding write goes on to the table.
IssueWriteUnchecked(t) ==
  /\ pc[t] = "write" /\ link # NoBand
  /\ band' \in {band, [band EXCEPT ![link].emb = Encoded]}
  /\ Goto(t, "seat")
  /\ UNCHANGED <<session, shown, then, proc, buf, wid, res, link, left, rows, nfc, gate, armed,
                 epoch, origin, basis, during, bounds>>

IssueWriteEmbedding(t) ==
  /\ pc[t] = "write" /\ link # NoBand
  /\ band' = [band EXCEPT ![link].emb = Encoded]
  /\ Goto(t, "seat")
  /\ UNCHANGED <<session, shown, then, proc, buf, wid, res, link, left, rows, nfc, gate, armed,
                 epoch, origin, basis, during, bounds>>

\* The result of write_seat is not looked at.
IssueWriteSeat(t) ==
  /\ pc[t] = "seat"
  /\ \/ link # NoBand /\ band' = [band EXCEPT ![link].seat = session.seat]
     \/ UNCHANGED band
  /\ Goto(t, "record")
  /\ UNCHANGED <<session, shown, then, proc, buf, wid, res, link, left, rows, nfc, gate, armed,
                 epoch, origin, basis, during, bounds>>

\* record_issue, with the seat the session holds now.
IssueRecord(t) ==
  /\ pc[t] = "record" /\ proc[t] = "issue"
  /\ IF Repo!Conflict(wid[t], session.seat)
     THEN Fail(t) /\ UNCHANGED rows
     ELSE /\ Repo!RecordIssue(wid[t], session.seat)
          /\ Goto(t, "disc") /\ res' = [res EXCEPT ![t] = TRUE]
  /\ UNCHANGED <<session, shown, then, proc, buf, wid, link, left, band, nfc, gate, armed, epoch,
                 origin, basis, during, bounds>>

\* Where issue_tag and return_tag take the outcome.  Mutant: a failure is not aborted.
AfterOutcomeForgetful(t) ==
  IF ~res[t] THEN "ready" ELSE IF proc[t] = "issue" THEN "complete" ELSE "record"
AfterOutcome(t) ==
  IF ~res[t] THEN "abort" ELSE IF proc[t] = "issue" THEN "complete" ELSE "record"

\* The ble_session exit of issue and return: disconnect the client of the moment.
Disconnect(t) ==
  /\ pc[t] = "disc"
  /\ Release
  /\ Goto(t, AfterOutcome(t))
  /\ UNCHANGED <<session, shown, then, proc, buf, wid, res, band, rows, nfc, gate, armed, epoch,
                 origin, basis, during, bounds>>

-----------------------------------------------------------------------------
(* ReturnFlow.on_tag *)

\* An id that cannot be read is "", and is not checked.
ReturnReadId(t) ==
  /\ pc[t] = "read" /\ proc[t] = "return"
  /\ wid' \in {[wid EXCEPT ![t] = link], [wid EXCEPT ![t] = NoBand]}
  /\ Goto(t, "clear")
  /\ UNCHANGED <<session, shown, then, proc, buf, res, link, left, band, rows, nfc, gate, armed,
                 epoch, origin, basis, during, bounds>>

\* clear_wristband: zero embedding, empty seat, each may fail; its result is not looked at,
\* and the contact flag is not part of it.
ReturnClear(t) ==
  /\ pc[t] = "clear"
  /\ IF link = NoBand THEN UNCHANGED band
     ELSE \E e \in Partly(band[link].emb, Zero), s \in {NoSeat, band[link].seat} :
            band' = [band EXCEPT ![link].emb = e, ![link].seat = s]
  /\ res' = [res EXCEPT ![t] = TRUE]
  /\ Goto(t, "disc")
  /\ UNCHANGED <<session, shown, then, proc, buf, wid, link, left, rows, nfc, gate, armed, epoch,
                 origin, basis, during, bounds>>

ReturnRecord(t) ==
  /\ pc[t] = "record" /\ proc[t] = "return"
  /\ Repo!RecordReturn(wid[t])
  /\ Goto(t, "complete")
  /\ UNCHANGED <<session, shown, then, proc, buf, wid, res, link, left, band, nfc, gate, armed,
                 epoch, origin, basis, during, bounds>>

-----------------------------------------------------------------------------
(* EntryFlow.on_tag *)

\* read_embedding: None when the read raises.
EntryReadEmbedding(t) ==
  /\ pc[t] = "read" /\ proc[t] = "entry"
  /\ \E e \in {NoEmb} \cup {band[b].emb : b \in {link} \cap Bands} :
       buf' = [buf EXCEPT ![t] = e]
  /\ during' = [during EXCEPT ![t] = epoch]
  /\ Goto(t, "flag")
  /\ UNCHANGED <<session, shown, then, proc, wid, res, link, left, band, rows, nfc, gate, armed,
                 epoch, origin, basis, bounds>>

\* read_contact_flag is TRUE when the read raises; then the verdict on what was read.
EntryRefuse(t) ==
  /\ pc[t] = "flag"
  /\ res' = [res EXCEPT ![t] = FALSE]
  /\ Goto(t, "leave")
  /\ UNCHANGED <<session, shown, then, proc, buf, wid, link, left, band, rows, nfc, gate, armed,
                 epoch, origin, basis, during, bounds>>

\* session.embedding is assigned without looking at what session this is by now.
EntryAccept(t) ==
  /\ pc[t] = "flag"
  /\ link # NoBand /\ ~band[link].flag
  /\ buf[t] \notin {NoEmb, Zero}
  /\ session' = [session EXCEPT !.emb = buf[t]]
  /\ origin' = [from |-> "band", of |-> during[t]]
  /\ Goto(t, "prompt")
  /\ UNCHANGED <<shown, then, proc, buf, wid, res, link, left, band, rows, nfc, gate, armed,
                 epoch, basis, during, bounds>>

EntryPrompt(t) ==
  /\ pc[t] = "prompt"
  /\ shown' = "await_face_entry"
  /\ Trigger
  /\ res' = [res EXCEPT ![t] = TRUE]
  /\ Goto(t, "leave")
  /\ UNCHANGED <<session, then, proc, buf, wid, link, left, band, rows, nfc, gate, epoch, origin,
                 basis, during, bounds>>

\* The finally clause: disconnect unless the session holds an embedding. On success the link
\* stays up for the result effect after the face check.
EntryLeave(t) ==
  /\ pc[t] = "leave"
  /\ IF session.emb = NoEmb THEN Release ELSE UNCHANGED <<link, left>>
  /\ Goto(t, IF res[t] THEN "ready" ELSE "abort")
  /\ buf' = [buf EXCEPT ![t] = NoEmb]
  /\ res' = [res EXCEPT ![t] = FALSE]
  /\ during' = [during EXCEPT ![t] = 0]
  /\ UNCHANGED <<session, shown, then, proc, wid, band, rows, nfc, gate, armed, epoch, origin,
                 basis, bounds>>

-----------------------------------------------------------------------------
(* Tablets *)

\* A countdown ends and the tablet sends a picture in which face f is found.
Upload(tab, f) ==
  /\ pc[tab] = "ready" /\ armed[tab] > 0
  /\ armed' = [armed EXCEPT ![tab] = @ - 1]
  /\ buf' = [buf EXCEPT ![tab] = f]
  /\ Goto(tab, "image")
  /\ UNCHANGED <<session, shown, then, proc, wid, res, link, left, band, rows, nfc, gate, epoch,
                 origin, basis, during, bounds>>

\* No face found: capture_result(ok = FALSE) goes to every tablet and each schedules a retry.
UploadRejected(tab) ==
  /\ pc[tab] = "ready" /\ armed[tab] > 0
  /\ armed' = [t \in Tablets |->
                 IF t = tab \/ armed[t] = MaxArmed THEN armed[t] ELSE armed[t] + 1]
  /\ UNCHANGED <<session, shown, taskVars, link, left, band, rows, nfc, gate, epoch, origin,
                 basis, during, bounds>>

\* The camera has no frame or the socket is closed: the countdown ends in nothing.
CaptureLost(tab) ==
  /\ armed[tab] > 0
  /\ armed' = [armed EXCEPT ![tab] = @ - 1]
  /\ UNCHANGED <<session, shown, taskVars, link, left, band, rows, nfc, gate, epoch, origin,
                 basis, during, bounds>>

\* face_captured: the flow of the moment decides what the picture is for.
\* Mutant: every picture is an issue's.
AlwaysForIssue == TRUE
ForIssue == session.flow = "issue"

FaceForIssue(tab) ==
  /\ pc[tab] = "image" /\ ForIssue
  /\ session' = [session EXCEPT !.emb = buf[tab]]
  /\ origin' = [from |-> "camera", of |-> epoch]
  /\ Goto(tab, "captured")
  /\ UNCHANGED <<shown, then, proc, buf, wid, res, link, left, band, rows, nfc, gate, armed,
                 epoch, basis, during, bounds>>

\* The state IssueFlow.on_face_captured emits.  Mutant: the state of start again.
StillAwaitFace == "await_face"
CapturedState == "await_tag"

\* on_face_captured shows its state; face_captured goes on to issue_tag.
IssueCaptured(tab) ==
  /\ pc[tab] = "captured"
  /\ shown' = CapturedState
  /\ proc' = [proc EXCEPT ![tab] = "issue"]
  /\ buf' = [buf EXCEPT ![tab] = NoEmb]
  /\ Goto(tab, "tag")
  /\ UNCHANGED <<session, then, wid, res, link, left, band, rows, nfc, gate, armed, epoch,
                 origin, basis, during, bounds>>

\* The similarity is computed at once; dev is None when the reader is not connected.
FaceForEntry(tab) ==
  /\ pc[tab] = "image" /\ session.flow = "entry" /\ session.emb # NoEmb
  /\ \E passed \in Verdicts(session.emb, buf[tab]) :
       /\ res' = [res EXCEPT ![tab] = passed]
       /\ basis' = [basis EXCEPT ![tab] =
                      IF passed /\ nfc THEN [ref |-> session.emb, from |-> origin.from]
                      ELSE NoBasis]
  /\ Goto(tab, "verdict")
  /\ UNCHANGED <<session, shown, then, proc, buf, wid, link, left, band, rows, nfc, gate, armed,
                 epoch, origin, during, bounds>>

\* Entry before its wristband was read: the attempt fails, and with it the session.
FaceTooEarly(tab) ==
  /\ pc[tab] = "image" /\ session.flow = "entry" /\ session.emb = NoEmb
  /\ res' = [res EXCEPT ![tab] = FALSE]
  /\ Goto(tab, "complete")
  /\ UNCHANGED <<session, shown, then, proc, buf, wid, link, left, band, rows, nfc, gate, armed,
                 epoch, origin, basis, during, bounds>>

FaceIgnored(tab) ==
  /\ pc[tab] = "image" /\ session.flow \notin {"issue", "entry"}
  /\ buf' = [buf EXCEPT ![tab] = NoEmb]
  /\ Goto(tab, "ready")
  /\ UNCHANGED <<session, shown, then, proc, wid, res, link, left, band, rows, nfc, gate, armed,
                 epoch, origin, basis, during, bounds>>

\* After the LED effect (pass) or signal_deny (fail): the gate opens in the background and
\* the finally clause disconnects.
Verdict(tab) ==
  /\ pc[tab] = "verdict"
  /\ gate' = IF res[tab] /\ basis[tab] # NoBasis
             THEN gate \cup {[live |-> buf[tab], by |-> basis[tab]]} ELSE gate
  /\ basis' = [basis EXCEPT ![tab] = NoBasis]
  /\ Release
  /\ Goto(tab, "complete")
  /\ UNCHANGED <<session, shown, then, proc, buf, wid, res, band, rows, nfc, armed, epoch,
                 origin, during, bounds>>

\* signal_pass answers or times out.
GateDone(g) ==
  /\ g \in gate /\ gate' = gate \ {g}
  /\ UNCHANGED <<session, shown, taskVars, link, left, band, rows, nfc, armed, epoch, origin,
                 basis, during, bounds>>

-----------------------------------------------------------------------------
(* Broadcasts that raise *)

\* A socket has joined or left while ClientPool.broadcast awaited a send (ServicePanel has
\* the sockets). What was sent before has arrived.
Seen(s) == shown' \in {shown, s}

\* start: _safe aborts; entry_start and return_start still call their *_tag.
StartRaises(t) ==
  /\ pc[t] = "announce"
  /\ Goto(t, "abort")
  /\ then' = [then EXCEPT ![t] = IF proc[t] = "issue" THEN "ready" ELSE "tag"]
  /\ \/ proc[t] = "issue" /\ Seen("await_face") /\ UNCHANGED armed
     \/ proc[t] = "issue" /\ shown' = "await_face" /\ \E S \in SUBSET Tablets : TriggerSome(S)
     \/ proc[t] # "issue" /\ Seen("await_tag") /\ UNCHANGED armed
  /\ UNCHANGED <<proc, buf, wid, res, link, left, basis, during, broken>>

\* issue.on_face_captured: _safe aborts, and issue_tag is still called.
CapturedRaises(t) ==
  /\ pc[t] = "captured"
  /\ Goto(t, "abort") /\ then' = [then EXCEPT ![t] = "tag"]
  /\ proc' = [proc EXCEPT ![t] = "issue"] /\ buf' = [buf EXCEPT ![t] = NoEmb]
  /\ Seen(CapturedState)
  /\ UNCHANGED <<wid, res, link, left, armed, basis, during, broken>>

\* The except clause of entry.on_tag.
PromptRaises(t) ==
  /\ pc[t] = "prompt"
  /\ Goto(t, "leave")
  /\ \/ Seen("await_face_entry") /\ UNCHANGED armed
     \/ shown' = "await_face_entry" /\ \E S \in SUBSET Tablets : TriggerSome(S)
  /\ UNCHANGED <<then, proc, buf, wid, res, link, left, basis, during, broken>>

\* on_tag after its row was written: the outcome becomes a failure, and the procedure is
\* aborted.
OutcomeRaises(t) ==
  /\ \/ pc[t] = "disc" /\ proc[t] = "issue" /\ res[t] /\ UNCHANGED pc
     \/ /\ pc[t] = "complete" /\ (proc[t] = "return" \/ wid[t] # NoBand)
        /\ Goto(t, "abort")
  /\ res' = [res EXCEPT ![t] = FALSE]
  /\ UNCHANGED <<shown, then, proc, buf, wid, link, left, armed, basis, during, broken>>

\* entry.on_face_captured, before its try or inside: a failed attempt, and no PASS.
VerdictRaises(t) ==
  /\ pc[t] = "verdict"
  /\ Goto(t, "complete")
  /\ res' = [res EXCEPT ![t] = FALSE] /\ basis' = [basis EXCEPT ![t] = NoBasis]
  /\ Release \/ UNCHANGED <<link, left>>
  /\ UNCHANGED <<shown, then, proc, buf, wid, armed, during, broken>>

\* The exception ends the handler and the socket is closed; a tablet's countdowns end
\* with its page.
Dies(t) ==
  /\ Goto(t, "ready") /\ then' = [then EXCEPT ![t] = "ready"]
  /\ buf' = [buf EXCEPT ![t] = NoEmb] /\ wid' = [wid EXCEPT ![t] = NoBand]
  /\ res' = [res EXCEPT ![t] = FALSE]
  /\ armed' = [a \in Tablets |-> IF a = t THEN 0 ELSE armed[a]]
  /\ UNCHANGED <<proc, link, left, basis, during>>

\* emit_complete, the DONE of _mark_done, the log line of _abort and of cancel, the IDLE after
\* DONE: no try surrounds them, and nobody resets the session in their place.
ReportRaises(t) ==
  /\ pc[t] \in {"abort", "complete", "done", "linger"} /\ Dies(t)
  /\ \/ pc[t] # "linger" /\ UNCHANGED shown
     \/ pc[t] = "linger" /\ ~busy /\ Seen("idle")
  /\ broken' = epoch

\* The result or the snapshot of a picture: the face goes to nobody.
PictureRaises(t) == pc[t] = "image" /\ Dies(t) /\ UNCHANGED <<shown, broken>>

Raises(t) ==
  /\ raises < MaxRaises /\ raises' = raises + 1
  /\ \/ StartRaises(t) \/ CapturedRaises(t) \/ PromptRaises(t) \/ OutcomeRaises(t)
     \/ VerdictRaises(t) \/ ReportRaises(t) \/ PictureRaises(t)
  /\ UNCHANGED <<session, band, rows, nfc, gate, epoch, origin, cancels, restarts>>

\* The IDLE of an abort raises after the reset: the handler ends there.
ResetRaises(t) ==
  /\ raises < MaxRaises /\ raises' = raises + 1
  /\ pc[t] = "aborted" /\ Dies(t)
  /\ session' = Idle /\ origin' = NoOrigin /\ Seen("idle")
  /\ UNCHANGED <<band, rows, nfc, gate, epoch, cancels, restarts, broken>>

-----------------------------------------------------------------------------

\* The server process stops and starts again: wristbands and the table survive.
ServerRestart ==
  /\ restarts < MaxRestarts
  /\ restarts' = restarts + 1
  /\ session' = Idle /\ shown' = "idle"
  /\ pc' = [t \in Tasks |-> "ready"] /\ then' = [t \in Tasks |-> "ready"]
  /\ proc' = [t \in Tasks |-> "issue"]
  /\ buf' = [t \in Tasks |-> NoEmb] /\ wid' = [t \in Tasks |-> NoBand]
  /\ res' = [t \in Tasks |-> FALSE]
  /\ link' = NoBand /\ left' = FALSE /\ nfc' = FALSE /\ gate' = {}
  /\ armed' = [t \in Tablets |-> 0]
  /\ origin' = NoOrigin /\ basis' = [t \in Tasks |-> NoBasis]
  /\ during' = [t \in Tasks |-> 0]
  /\ UNCHANGED <<band, rows, epoch, cancels, raises, broken>>

\* Somebody takes a wristband off or puts it on: the flag follows the clasp.
WearChanges(b) ==
  /\ band' = [band EXCEPT ![b].flag = ~@]
  /\ UNCHANGED <<session, shown, taskVars, link, left, rows, nfc, gate, armed, epoch, origin,
                 basis, during, bounds>>

Command(a) ==
  \/ \E s \in Seats : Start(a, "issue", s)
  \/ \E f \in {"entry", "return"} : Start(a, f, NoSeat)
  \/ \E f \in Flows : StartWithoutDevice(a, f)
  \/ Cancel(a)
  \/ DeviceConnect(a)

\* What the loop does for a task once its awaits complete.
Continue(t) ==
  \/ AnnounceIssue(t) \/ AnnounceTag(t)
  \/ AbortDisconnect(t) \/ AbortReset(t)
  \/ Complete(t) \/ DoneReset(t) \/ Linger(t)
  \/ Tag(t) \/ Wake(t) \/ Connected(t) \/ ConnectFails(t)
  \/ IssueStepFails(t) \/ IssueReadId(t) \/ IssueWriteEmbedding(t)
  \/ IssueWriteSeat(t) \/ IssueRecord(t) \/ Disconnect(t)
  \/ ReturnReadId(t) \/ ReturnClear(t) \/ ReturnRecord(t)
  \/ EntryReadEmbedding(t) \/ EntryRefuse(t) \/ EntryAccept(t)
  \/ EntryPrompt(t) \/ EntryLeave(t)
  \/ FaceForIssue(t) \/ IssueCaptured(t) \/ FaceForEntry(t) \/ FaceTooEarly(t)
  \/ FaceIgnored(t) \/ Verdict(t)

Next ==
  \/ \E a \in Admins : Command(a)
  \/ \E t \in Tasks : Continue(t) \/ Raises(t) \/ ResetRaises(t)
  \/ \E tab \in Tablets :
       \/ \E f \in Faces : Upload(tab, f)
       \/ UploadRejected(tab)
       \/ CaptureLost(tab)
  \/ \E g \in gate : GateDone(g)
  \/ \E b \in Bands : WearChanges(b)
  \/ DeviceLost
  \/ ServerRestart

Spec == Init /\ [][Next]_vars

\* Every await of the server ends: the waits are bounded (15 s wake and connect, serial
\* timeouts, GATT errors) and the loop resumes a task that is ready. Nobody has to click,
\* look into a camera or answer.
FairSpec == Spec /\ \A t \in Tasks : WF_vars(Continue(t))

-----------------------------------------------------------------------------
(* Properties *)

Origins == [from : {"none", "band", "camera"}, of : Nat]
Bases == [ref : Embeddings \cup {NoEmb}, from : {"none", "band", "camera"}]

\* Every variable ranges over what the code can put there; in particular an issue row never
\* carries an empty wristband id, and no task carries an id it did not read off a band.
TypeOK ==
  /\ session \in [flow : Flows \cup {"none"}, seat : Seats \cup {NoSeat},
                  emb : Embeddings \cup {NoEmb}]
  /\ shown \in Shown
  /\ pc \in [Tasks -> Points] /\ then \in [Tasks -> {"ready", "tag"}]
  /\ proc \in [Tasks -> Flows]
  /\ buf \in [Tasks -> Embeddings \cup {NoEmb}] /\ wid \in [Tasks -> Bands \cup {NoBand}]
  /\ res \in [Tasks -> BOOLEAN]
  /\ link \in Bands \cup {NoBand}
  /\ band \in [Bands -> Memory] /\ rows \in Seq(Repo!Row)
  /\ nfc \in BOOLEAN
  /\ gate \in SUBSET [live : Embeddings \cup {NoEmb}, by : Bases]
  /\ armed \in [Tablets -> 0..MaxArmed]
  /\ epoch \in Nat /\ origin \in Origins /\ basis \in [Tasks -> Bases]
  /\ during \in [Tasks -> Nat]
  /\ left \in BOOLEAN /\ broken \in Nat
  /\ cancels \in Nat /\ restarts \in Nat /\ raises \in Nat

\* The reference an entry is decided against is one that some on_tag read off a wristband,
\* never a picture a tablet took (of the visitor himself, say): however an old picture, a
\* cancel and a new start interleave, issue.on_face_captured cannot feed an entry session.
EntryReferenceFromBand ==
  session.flow = "entry" /\ session.emb # NoEmb => origin.from = "band"

\* With one console the reference was moreover read in this very entry session: an on_tag
\* that outlives its session cannot hand its wristband's face to the next visitor.
EntryReferenceIsCurrent ==
  session.flow = "entry" /\ session.emb # NoEmb => origin = [from |-> "band", of |-> epoch]

\* Every PASS on its way to the gate board stands on a live face that resembles a
\* reference read off a wristband that is neither blank nor NaN. Between the comparison and
\* the PASS there are awaits in which the session may be cancelled or taken over.
GateJustified ==
  \A g \in gate :
    /\ g.by.from = "band"
    /\ g.by.ref \notin {NoEmb, Zero, NotNumber}
    /\ g.live \in Faces /\ CanMatch(g.by.ref, g.live)

\* A session nobody works on waits for a face: when every task is back at its socket, the
\* session is idle, or an issue, or an entry whose wristband has been read. A session that
\* waits for nothing could only be got rid of by a cancel. Such a session remains when the
\* report of an outcome, DONE or the reason of an abort raises; every other broadcast may.
NoOrphanSession ==
  busy /\ broken # epoch /\ (\A t \in Tasks : pc[t] = "ready")
    => session.flow = "issue" \/ (session.flow = "entry" /\ session.emb # NoEmb)

\* One procedure never turns into another: a session ends (reset) before the next begins,
\* and its seat stays what the operator typed. Two consoles may send their starts at once.
NoPreemption ==
  [][busy /\ session'.flow # "none"
       => epoch' = epoch /\ session'.flow = session.flow /\ session'.seat = session.seat]_vars

\* domain/session.py: "one procedure at a time". At most one task works on the wristband
\* reader, the BLE client or the session's outcome. Not counted: reports and countdowns of
\* a start, a picture, the end of DONE, and the end of an entry's on_tag, which hands over to
\* the tablet's task and disconnects only a wristband whose face it did not take.
Working(t) == pc[t] \notin {"ready", "announce", "image", "leave", "linger"}
OneProcedure == \A t, u \in Tasks : Working(t) /\ Working(u) => t = u

\* docs/flows.md, issue step 4: what is recorded is what was captured and typed for this
\* session, and the wristband in the row is the one that holds the captured face.
IssueRecorded == Len(rows') > Len(rows)
RecordedAsCaptured ==
  [][IssueRecorded =>
       LET r == rows'[Len(rows')]
       IN /\ r.seat # NoSeat /\ r.seat = session.seat
          /\ origin = [from |-> "camera", of |-> epoch]
          /\ band[r.wid].emb = session.emb]_vars

\* Between procedures nothing is left over: the client holds no wristband (a connected band
\* does not advertise and cannot be woken) but one whose disconnect the stack has failed, and
\* the consoles show IDLE, without which their START buttons stay disabled. (Of a client that
\* was replaced while still connected nothing is said: WristbandLink, QuietIsClosed.)
QuietIsClean ==
  ~busy /\ (\A t \in Tasks : pc[t] = "ready") => (link = NoBand \/ left) /\ shown = "idle"

\* EntryFlow: "start -> on_tag -> on_face_captured, called in this order".
FaceAfterTag ==
  \A tab \in Tablets : pc[tab] = "image" /\ session.flow = "entry" => session.emb # NoEmb

\* docs/ws-protocol.md: the states the consoles see follow the documented order; any of
\* them may be cut off by IDLE. (DONE -> AWAIT_*, a start while DONE lingers, is not in the
\* document; flow_runner.py:150 provides for it.)
Documented ==
  {<<"idle", "await_face">>, <<"await_face", "await_tag">>, <<"await_tag", "done">>,
   <<"idle", "await_tag">>, <<"await_tag", "await_face_entry">>,
   <<"await_face_entry", "done">>, <<"done", "await_face">>, <<"done", "await_tag">>}
StatesInOrder == [][shown' = "idle" \/ <<shown, shown'>> \in Documented]_shown

\* The outcomes of docs/flows.md. A step of the server begins or ends one procedure, takes its
\* one look, or puts out its one outcome: a wristband handed out with the typed seat, one
\* taken back, or one decision at the gate about the face this entry's wristband keeps. (The
\* refusal on the contact flag and the blanking of a returned band are not part of Desk. A
\* log line that raises after record_issue, issuance.py:98 and 103, takes back the outcome but
\* not the row: nobody joins or leaves here.)
Outcome(t) ==
  pc[t] \in {"complete", "done"} \/ (pc[t] = "disc" /\ proc[t] = "issue" /\ res[t])
Visit == INSTANCE Desk WITH
           Wristbands <- Bands, Looks <- Embeddings, Free <- NoEmb, NoLook <- NoEmb,
           doing <- session.flow, seat <- session.seat, look <- session.emb,
           settled <- \E t \in Tasks : Outcome(t), seatOf <- Repo!SeatOf,
           passes <- {[live |-> g.live, ref |-> g.by.ref] : g \in gate}
ImplementsDesk == Visit!Spec

\* docs/flows.md, return: a return that is announced as complete, and takes back a wristband
\* that was out, has blanked it.
TakenBack(b) == Repo!SeatOf[b] # NoEmb /\ (Repo!SeatOf[b])' = NoEmb
ReturnBlanks ==
  [][\A t \in Tasks, b \in Bands :
       pc[t] = "record" /\ pc'[t] = "complete" /\ TakenBack(b)
         => band[b].emb = Zero /\ band[b].seat = NoSeat]_vars

\* Once the face is in, an issue ends by itself: it completes or is given up, whatever I/O
\* fails on the way and whichever broadcast of its flow raises; but for a report that no try
\* surrounds (emit_complete, DONE, the log line of an abort), after which it stays busy until
\* somebody cancels.
CapturedIsServed == session.flow = "issue" /\ session.emb # NoEmb ~> ~busy \/ broken = epoch

\* docs/ws-protocol.md: DONE gives way on its own, unless its own report, or the IDLE that is
\* to replace it, raises.
DoneGivesWay == shown = "done" ~> shown # "done" \/ broken = epoch

=============================================================================
