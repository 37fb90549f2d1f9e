------------------------ MODULE TicketFlowAloneProofs ------------------------
(***************************************************************************)
(* Proofs about TicketFlow under the restrictions the shop works by: one   *)
(* admin console; and one console with one tablet, no cancel and nobody    *)
(* who joins or leaves while a broadcast is sent, where the procedures run *)
(* as docs/flows.md tells them.  Wristbands, faces, seats, sessions and    *)
(* restarts stay any number.                                               *)
(***************************************************************************)
EXTENDS TicketFlowProofs

-----------------------------------------------------------------------------
(* One console, any number of tablets and cancels *)

OneConsole == \A a, b \in Admins : a = b

\* A tablet runs on_tag for issues only.
TabletsIssue == \A tab \in Tablets : proc[tab] = "issue" /\ pc[tab] # "flag"

\* An on_tag between its read and its verdict is still in the session it read for: only its
\* own console could have begun another one.
ReadNow == \A t \in Tasks : pc[t] = "flag" => during[t] = epoch

CurrentInv == TabletsIssue /\ ReadNow /\ EntryReferenceIsCurrent

\* The steps that neither start a session, nor read or accept a reference.
Apart(t) ==
  /\ pc'[t] # "flag" \/ pc'[t] = pc[t]
  /\ \A u \in Tasks : u # t => pc'[u] = pc[u]
  /\ proc' = proc \/ t \in Admins \/ proc' = [proc EXCEPT ![t] = "issue"]
  /\ \A u \in Tasks : u # t => proc'[u] = proc[u]
  /\ during' = during \/ (pc'[t] # "flag" /\ \A u \in Tasks : u # t => during'[u] = during[u])
  /\ SessionKept \/ SessionReset \/ SessionGetsPicture

LEMMA ContinueApart ==
  ASSUME Inv, NEW t \in Tasks, Continue(t)
  PROVE  EntryReadEmbedding(t) \/ EntryAccept(t) \/ Apart(t)
<1> USE DEF Inv, TypeOK, Goto, Apart, taskVars
<1>1. CASE \/ AnnounceIssue(t) \/ AnnounceTag(t) \/ AbortDisconnect(t) \/ AbortReset(t)
           \/ Complete(t) \/ DoneReset(t) \/ Linger(t) \/ Tag(t) \/ Wake(t) \/ Connected(t)
           \/ ConnectFails(t) \/ Disconnect(t)
  BY <1>1 DEF AnnounceIssue, AnnounceTag, AbortDisconnect, AbortReset, Complete, DoneReset,
              Linger, Tag, Wake, Connected, ConnectFails, Disconnect, AfterTag,
              AfterOutcome, SessionKept, SessionReset
<1>2. CASE \/ IssueStepFails(t) \/ IssueReadId(t) \/ IssueWriteEmbedding(t)
           \/ IssueWriteSeat(t) \/ IssueRecord(t) \/ ReturnReadId(t) \/ ReturnClear(t)
           \/ ReturnRecord(t)
  BY <1>2 DEF IssueStepFails, IssueReadId, IssueWriteEmbedding, IssueWriteSeat,
              IssueRecord, ReturnReadId, ReturnClear, ReturnRecord, Fail, SessionKept
<1>3. CASE EntryRefuse(t) \/ EntryPrompt(t) \/ EntryLeave(t)
  BY <1>3 DEF EntryRefuse, EntryPrompt, EntryLeave, SessionKept
<1>4. CASE \/ FaceForIssue(t) \/ IssueCaptured(t) \/ FaceForEntry(t) \/ FaceTooEarly(t)
           \/ FaceIgnored(t) \/ Verdict(t)
  BY <1>4 DEF FaceForIssue, ForIssue, IssueCaptured, FaceForEntry, FaceTooEarly, FaceIgnored,
              Verdict, SessionKept, SessionGetsPicture
<1> QED
  BY <1>1, <1>2, <1>3, <1>4 DEF Continue

\* A broadcast that raises gives the session up or leaves it alone.
LEMMA RaisesApart ==
  ASSUME Inv, NEW t \in Tasks, Raises(t) \/ ResetRaises(t)
  PROVE  Apart(t)
<1> USE DEF Inv, TypeOK, Goto, Apart
<1>1. CASE /\ Dies(t) /\ UNCHANGED epoch
           /\ (session' = Idle /\ origin' = NoOrigin) \/ UNCHANGED <<session, origin>>
  BY <1>1 DEF Dies, SessionKept, SessionReset
<1>2. CASE /\ \/ StartRaises(t) \/ CapturedRaises(t) \/ PromptRaises(t) \/ OutcomeRaises(t)
              \/ VerdictRaises(t)
           /\ UNCHANGED <<session, epoch, origin>>
  BY <1>2 DEF StartRaises, CapturedRaises, PromptRaises, OutcomeRaises, VerdictRaises,
              SessionKept
<1> HIDE DEF Inv, Apart
<1> QED
  BY <1>1, <1>2 DEF Raises, ResetRaises, ReportRaises, PictureRaises

LEMMA CurrentApart ==
  ASSUME Inv, CurrentInv, NEW t \in Tasks, Apart(t)
  PROVE  CurrentInv'
<1> USE DEF Inv, TypeOK, CurrentInv, TabletsIssue, ReadNow, EntryReferenceIsCurrent, Tasks
<1>1. epoch' = epoch
  BY DEF Apart, SessionKept, SessionReset, SessionGetsPicture
<1>2. TabletsIssue'
  BY Sockets DEF Apart
<1>3. ReadNow'
  BY <1>1 DEF Apart
<1>4. EntryReferenceIsCurrent'
  BY DEF Apart, SessionKept, SessionReset, SessionGetsPicture, Idle
<1> QED
  BY <1>2, <1>3, <1>4

LEMMA CurrentContinue ==
  ASSUME Inv, CurrentInv, NEW t \in Tasks, Continue(t)
  PROVE  CurrentInv'
<1> USE DEF Inv, TypeOK, CurrentInv, TabletsIssue, ReadNow, EntryReferenceIsCurrent, Tasks
<1>1. ASSUME EntryReadEmbedding(t) PROVE CurrentInv'
  <2>1. /\ pc[t] = "read" /\ pc' = [pc EXCEPT ![t] = "flag"] /\ proc[t] = "entry"
        /\ during' = [during EXCEPT ![t] = epoch]
        /\ UNCHANGED <<proc, session, epoch, origin>>
    BY <1>1 DEF EntryReadEmbedding, Goto
  <2>2. t \notin Tablets
    BY <2>1
  <2> QED
    BY <2>1, <2>2
<1>2. ASSUME EntryAccept(t) PROVE CurrentInv'
  <2>1. /\ pc[t] = "flag" /\ pc' = [pc EXCEPT ![t] = "prompt"]
        /\ origin' = [from |-> "band", of |-> during[t]]
        /\ UNCHANGED <<proc, during, epoch>>
    BY <1>2 DEF EntryAccept, Goto
  <2>2. during[t] = epoch
    BY <2>1
  <2> QED
    BY <2>1, <2>2
<1> HIDE DEF Inv, CurrentInv
<1> QED
  BY <1>1, <1>2, CurrentApart, ContinueApart

\* Only a start disturbs the numbers, and the one console is then at its socket.
LEMMA CurrentCommand ==
  ASSUME OneConsole, Inv, CurrentInv, NEW a \in Admins, Command(a)
  PROVE  CurrentInv'
<1>1. /\ pc[a] = "ready" /\ during' = during
      /\ \E p \in {"ready", "announce", "abort"} : pc' = [pc EXCEPT ![a] = p]
      /\ \A u \in Tasks : u # a => proc'[u] = proc[u]
      /\ UNCHANGED <<session, epoch, origin>> \/ session'.emb = NoEmb
  <2>1. pc \in [Tasks -> Points] /\ proc \in [Tasks -> Flows] /\ a \in Tasks
    BY DEF Inv, TypeOK, Tasks
  <2>2. ASSUME NEW f \in Flows, NEW s \in Seats \cup {NoSeat}, Start(a, f, s)
        PROVE  /\ pc[a] = "ready" /\ pc' = [pc EXCEPT ![a] = "announce"] /\ during' = during
               /\ proc' = [proc EXCEPT ![a] = f] /\ session'.emb = NoEmb
    BY <2>2 DEF Start, Goto, Started
  <2>3. ASSUME \/ \E f \in Flows : StartWithoutDevice(a, f)
               \/ Cancel(a) \/ DeviceConnect(a)
        PROVE  /\ pc[a] = "ready" /\ during' = during
               /\ \E p \in {"ready", "abort"} : pc' = [pc EXCEPT ![a] = p]
               /\ proc' = [proc EXCEPT ![a] = proc'[a]]
               /\ UNCHANGED <<session, epoch, origin>>
    BY <2>1, <2>3 DEF StartWithoutDevice, Cancel, DeviceConnect, Goto, taskVars
  <2> QED
    BY <2>1, <2>2, <2>3 DEF Command, Flows
<1> USE DEF Inv, TypeOK, CurrentInv, TabletsIssue, ReadNow, EntryReferenceIsCurrent, Tasks
<1>2. TabletsIssue'
  BY <1>1, Sockets
<1>3. ReadNow'
  <2>1. \A t \in Tablets : pc'[t] # "flag"
    BY <1>2
  <2>2. \A b \in Admins : pc'[b] # "flag"
    BY <1>1 DEF OneConsole
  <2> QED
    BY <2>1, <2>2
<1>4. EntryReferenceIsCurrent'
  BY <1>1
<1> QED
  BY <1>2, <1>3, <1>4

LEMMA CurrentRest ==
  ASSUME Inv, CurrentInv,
         \/ UNCHANGED vars
         \/ \E tab \in Tablets :
              (\E f \in Faces : Upload(tab, f)) \/ UploadRejected(tab) \/ CaptureLost(tab)
         \/ \E g \in gate : GateDone(g)
         \/ \E b \in Bands : WearChanges(b)
         \/ DeviceLost
         \/ ServerRestart
  PROVE  CurrentInv'
<1> USE DEF CurrentInv, TabletsIssue, ReadNow, EntryReferenceIsCurrent
<1>1. CASE UNCHANGED <<session, pc, proc, epoch, origin, during>>
  BY <1>1
<1>2. ASSUME NEW tab \in Tablets, NEW f \in Faces, Upload(tab, f) PROVE CurrentInv'
  <2>1. /\ pc[tab] = "ready" /\ pc' = [pc EXCEPT ![tab] = "image"]
        /\ UNCHANGED <<session, proc, epoch, origin, during>>
    BY <1>2 DEF Upload, Goto
  <2> QED
    BY <2>1 DEF Inv, TypeOK, Tasks
<1>3. CASE ServerRestart
  BY <1>3 DEF ServerRestart, Idle, Tasks
<1>4. \/ ServerRestart \/ (\E tab \in Tablets : \E f \in Faces : Upload(tab, f))
      \/ UNCHANGED <<session, pc, proc, epoch, origin, during>>
  BY DEF vars, taskVars, UploadRejected, CaptureLost, GateDone, WearChanges, DeviceLost
<1> QED
  BY <1>1, <1>2, <1>3, <1>4

\* With one console, an entry is decided against a reference read off a wristband in this very
\* entry session, although a task that read in an earlier one assigns session.embedding
\* without looking at what session this is by now: with one console no such task is left when
\* the next session starts.  Any number of tablets, cancels, raises and restarts.
THEOREM FlowReferenceIsCurrent ==
  ASSUME OneConsole
  PROVE  Spec => []EntryReferenceIsCurrent
<1>1. Init => CurrentInv
  BY DEF Init, Idle, CurrentInv, TabletsIssue, ReadNow, EntryReferenceIsCurrent, Tasks
<1>2. Inv /\ CurrentInv /\ [Next]_vars => CurrentInv'
  BY CurrentContinue, CurrentCommand, RaisesApart, CurrentApart, CurrentRest DEF Next
<1>3. CurrentInv => EntryReferenceIsCurrent
  BY DEF CurrentInv
<1> QED
  BY <1>1, <1>2, <1>3, SpecInv, PTL DEF Spec

-----------------------------------------------------------------------------
(* One console, one tablet, no cancel, no broadcast that raises: the phases of the shop *)

console == CHOOSE a \in Admins : TRUE
tablet == CHOOSE tab \in Tablets : TRUE

Alone == Admins = {console} /\ Tablets = {tablet} /\ MaxCancels = 0 /\ MaxRaises = 0

\* The client is connected to no wristband, but one whose disconnect has failed.
Unheld == link = NoBand \/ left

\* Where the tablet is while nobody waits for a face.
Resting == pc[tablet] \in {"ready", "linger"} /\ armed[tablet] = 0

\* Before on_tag connects and after it has left, the client holds nothing.
Unlinked(t) ==
  pc[t] \in {"captured", "tag", "wake", "connect", "complete", "done", "aborted"}
    => Unheld

\* Nothing runs; the console may be finishing a start without a reader, or one that aborted.
NoSession ==
  /\ session = Idle /\ Unheld /\ Resting
  /\ pc[console] \in {"ready", "linger", "abort", "aborted", "tag", "leave"}
  /\ \/ shown = "idle"
     \/ shown = "done" /\ \E t \in Tasks : pc[t] = "linger"

Starting ==
  /\ session.flow \in Flows /\ session.emb = NoEmb /\ Unheld /\ Resting
  /\ pc[console] = "announce" /\ proc[console] = session.flow
  /\ shown \in {"idle", "done"}

\* An issue between its start and the picture; one picture is on its way at most.
AwaitingFace ==
  /\ session.flow = "issue" /\ session.emb = NoEmb /\ Unheld
  /\ pc[console] = "ready" /\ shown = "await_face"
  /\ \/ pc[tablet] \in {"ready", "linger"} /\ armed[tablet] <= 1
     \/ pc[tablet] = "image" /\ armed[tablet] = 0

\* What the consoles see while an issue works for task t.
IssueShown(t) ==
  CASE pc[t] = "captured" -> "await_face"
    [] pc[t] = "done" -> "done"
    [] pc[t] \notin {"captured", "done"} -> "await_tag"

\* An issue from the picture to its reset.  The tablet's task runs on_tag; the wristband it
\* writes is the one whose id it read, and holds the captured face from the write on.
Issuing ==
  /\ session.flow = "issue" /\ session.emb # NoEmb
  /\ origin = [from |-> "camera", of |-> epoch]
  /\ pc[console] = "ready" /\ armed[tablet] = 0
  /\ pc[tablet] \in {"captured", "tag", "wake", "connect", "read", "write", "seat", "record",
                     "disc", "complete", "done", "abort", "aborted"}
  /\ pc[tablet] # "captured" => proc[tablet] = "issue"
  /\ Unlinked(tablet)
  /\ pc[tablet] \in {"write", "seat", "record"} => link = wid[tablet]
  /\ pc[tablet] \in {"seat", "record"} => band[wid[tablet]].emb = session.emb
  /\ shown = IssueShown(tablet)

Returning ==
  /\ session.flow = "return" /\ session.emb = NoEmb /\ Resting
  /\ proc[console] = "return"
  /\ pc[console] \in {"tag", "wake", "connect", "read", "clear", "disc", "record", "complete",
                      "done", "abort", "aborted"}
  /\ Unlinked(console) /\ (pc[console] = "record" => Unheld)
  /\ shown = IF pc[console] = "done" THEN "done" ELSE "await_tag"

\* An entry until its wristband has been read, or has not been.
Reading ==
  /\ session.flow = "entry" /\ session.emb = NoEmb /\ Resting
  /\ proc[console] = "entry"
  /\ pc[console] \in {"tag", "wake", "connect", "read", "flag", "leave", "abort", "aborted"}
  /\ pc[console] = "leave" => ~res[console]
  /\ Unlinked(console)
  /\ shown = "await_tag"

\* An entry that has its reference and is about to ask for the face.
Prompting ==
  /\ session.flow = "entry" /\ session.emb # NoEmb /\ Resting
  /\ pc[console] = "prompt" /\ shown = "await_tag"

\* An entry that waits for the face, or has it.
Admitting ==
  /\ session.flow = "entry" /\ session.emb # NoEmb
  /\ pc[console] \in {"ready", "leave"} /\ (pc[console] = "leave" => res[console])
  /\ \/ pc[tablet] \in {"ready", "linger"} /\ armed[tablet] <= 1
     \/ pc[tablet] \in {"image", "verdict", "complete", "done"} /\ armed[tablet] = 0
  /\ Unlinked(tablet)
  /\ shown = IF pc[tablet] = "done" THEN "done" ELSE "await_face_entry"

SeatTyped == session.flow = "issue" => session.seat # NoSeat

Phase ==
  \/ NoSession \/ Starting \/ AwaitingFace \/ Issuing
  \/ Returning \/ Reading \/ Prompting \/ Admitting

\* Only a console starts without a reader, so no abort of the tablet's task goes on to a tag.
ThenReady == then[tablet] = "ready"

AloneInv == SeatTyped /\ ThenReady /\ Phase

\* What the proofs below need of the types.
Typed ==
  /\ Tasks = {console, tablet} /\ console # tablet
  /\ console \in Admins /\ tablet \in Tablets
  /\ pc \in [Tasks -> Points] /\ then \in [Tasks -> {"ready", "tag"}]
  /\ proc \in [Tasks -> Flows] /\ res \in [Tasks -> BOOLEAN]
  /\ wid \in [Tasks -> Bands \cup {NoBand}] /\ buf \in [Tasks -> Embeddings \cup {NoEmb}]
  /\ armed \in [Tablets -> 0..MaxArmed] /\ MaxArmed \in Nat \ {0}
  /\ session \in [flow : Flows \cup {"none"}, seat : Seats \cup {NoSeat},
                  emb : Embeddings \cup {NoEmb}]
  /\ link \in Bands \cup {NoBand} /\ left \in BOOLEAN /\ band \in [Bands -> Memory]
  /\ cancels \in Nat /\ raises \in Nat

LEMMA AloneTyped == Alone /\ Inv => Typed
<1> SUFFICES ASSUME Alone, Inv PROVE Typed
  OBVIOUS
<1>1. console \in Admins /\ tablet \in Tablets /\ Tasks = {console, tablet}
  BY DEF Alone, Tasks
<1>2. console # tablet
  BY <1>1, Sockets
<1> QED
  BY <1>1, <1>2, Bounds DEF Inv, TypeOK, Typed

\* Where a task waits decides what it does next.
Follows(t) ==
  /\ pc[t] # "ready"
  /\ pc[t] = "announce" => \/ AnnounceIssue(t) /\ proc[t] = "issue"
                           \/ AnnounceTag(t) /\ proc[t] # "issue"
  /\ pc[t] = "abort" => AbortDisconnect(t)
  /\ pc[t] = "aborted" => AbortReset(t)
  /\ pc[t] = "complete" => Complete(t)
  /\ pc[t] = "done" => DoneReset(t)
  /\ pc[t] = "linger" => Linger(t)
  /\ pc[t] = "tag" => Tag(t)
  /\ pc[t] = "wake" => Wake(t)
  /\ pc[t] = "connect" => Connected(t) \/ ConnectFails(t)
  /\ pc[t] = "read" /\ proc[t] = "issue" => IssueStepFails(t) \/ IssueReadId(t)
  /\ pc[t] = "read" /\ proc[t] = "return" => ReturnReadId(t)
  /\ pc[t] = "read" /\ proc[t] = "entry" => EntryReadEmbedding(t)
  /\ pc[t] = "write" => IssueStepFails(t) \/ IssueWriteEmbedding(t)
  /\ pc[t] = "seat" => IssueWriteSeat(t)
  /\ pc[t] = "record" /\ proc[t] = "issue" => IssueRecord(t)
  /\ pc[t] = "record" /\ proc[t] = "return" => ReturnRecord(t)
  /\ pc[t] = "disc" => Disconnect(t)
  /\ pc[t] = "clear" => ReturnClear(t)
  /\ pc[t] = "flag" => EntryRefuse(t) \/ EntryAccept(t)
  /\ pc[t] = "prompt" => EntryPrompt(t)
  /\ pc[t] = "leave" => EntryLeave(t)
  /\ pc[t] = "image" => \/ FaceForIssue(t) \/ FaceForEntry(t) \/ FaceTooEarly(t)
                        \/ FaceIgnored(t)
  /\ pc[t] = "captured" => IssueCaptured(t)
  /\ pc[t] = "verdict" => Verdict(t)

LEMMA ContinueFollows ==
  ASSUME NEW t \in Tasks, Continue(t)
  PROVE  Follows(t)
<1>1. CASE \/ AnnounceIssue(t) \/ AnnounceTag(t) \/ AbortDisconnect(t) \/ AbortReset(t)
           \/ Complete(t) \/ DoneReset(t) \/ Linger(t)
  <2>1. CASE AnnounceIssue(t) \/ AnnounceTag(t)
    BY <2>1 DEF Follows, AnnounceIssue, AnnounceTag
  <2>2. CASE AbortDisconnect(t) \/ AbortReset(t)
    BY <2>2 DEF Follows, AbortDisconnect, AbortReset
  <2>3. CASE Complete(t) \/ DoneReset(t) \/ Linger(t)
    BY <2>3 DEF Follows, Complete, DoneReset, Linger
  <2> QED
    BY <1>1, <2>1, <2>2, <2>3
<1>2. CASE Tag(t) \/ Wake(t) \/ Connected(t) \/ ConnectFails(t) \/ Disconnect(t)
  BY <1>2 DEF Follows, Tag, Wake, Connected, ConnectFails, Disconnect
<1>3. CASE \/ IssueStepFails(t) \/ IssueReadId(t) \/ IssueWriteEmbedding(t)
           \/ IssueWriteSeat(t) \/ IssueRecord(t)
  BY <1>3 DEF Follows, IssueStepFails, IssueReadId, IssueWriteEmbedding, IssueWriteSeat,
              IssueRecord
<1>4. CASE ReturnReadId(t) \/ ReturnClear(t) \/ ReturnRecord(t)
  BY <1>4 DEF Follows, ReturnReadId, ReturnClear, ReturnRecord
<1>5. CASE \/ EntryReadEmbedding(t) \/ EntryRefuse(t) \/ EntryAccept(t) \/ EntryPrompt(t)
           \/ EntryLeave(t)
  BY <1>5 DEF Follows, EntryReadEmbedding, EntryRefuse, EntryAccept, EntryPrompt, EntryLeave
<1>6. CASE \/ FaceForIssue(t) \/ IssueCaptured(t) \/ FaceForEntry(t) \/ FaceTooEarly(t)
           \/ FaceIgnored(t) \/ Verdict(t)
  BY <1>6 DEF Follows, FaceForIssue, IssueCaptured, FaceForEntry, FaceTooEarly, FaceIgnored,
              Verdict
<1> QED
  BY <1>1, <1>2, <1>3, <1>4, <1>5, <1>6 DEF Continue

\* What a task goes on to from each phase.
LEMMA NoSessionContinue ==
  ASSUME Typed, NoSession, NEW t \in Tasks, Continue(t)
  PROVE  NoSession'
<1> USE DEF Typed, NoSession, Resting, Unheld, Idle, Goto, taskVars
<1>1. Follows(t)
  BY ContinueFollows
<1>2. CASE pc[t] = "linger"
  <2>1. Linger(t)
    BY <1>1, <1>2 DEF Follows
  <2> QED
    BY <1>2, <2>1 DEF Linger, AfterLinger, busy
<1>3. CASE t = console /\ pc[t] = "abort"
  <2>1. AbortDisconnect(t)
    BY <1>1, <1>3 DEF Follows
  <2> QED
    BY <1>3, <2>1 DEF AbortDisconnect, Release
<1>4. CASE t = console /\ pc[t] = "aborted"
  <2>1. AbortReset(t)
    BY <1>1, <1>4 DEF Follows
  <2> QED
    BY <1>4, <2>1 DEF AbortReset
<1>5. CASE t = console /\ pc[t] = "tag"
  <2>1. Tag(t)
    BY <1>1, <1>5 DEF Follows
  <2> QED
    BY <1>5, <2>1 DEF Tag, AfterTag, Flows
<1>6. CASE t = console /\ pc[t] = "leave"
  <2>1. EntryLeave(t)
    BY <1>1, <1>6 DEF Follows
  <2> QED
    BY <1>6, <2>1 DEF EntryLeave, Release
<1>7. pc[t] # "ready"
  BY <1>1 DEF Follows
<1> QED
  BY <1>2, <1>3, <1>4, <1>5, <1>6, <1>7

LEMMA StartingContinue ==
  ASSUME Typed, Starting, NEW t \in Tasks, Continue(t)
  PROVE  Phase'
<1> USE DEF Typed, Starting, Resting, Unheld, Goto, taskVars
<1>1. Follows(t)
  BY ContinueFollows
<1>2. CASE t = tablet
  <2>1. Linger(t)
    BY <1>1, <1>2 DEF Follows
  <2>2. Starting'
    BY <1>2, <2>1 DEF Linger, AfterLinger, busy, Flows
  <2> QED
    BY <2>2 DEF Phase
<1>3. CASE t = console
  <2>1. CASE AnnounceIssue(t) /\ proc[t] = "issue"
    <3>1. armed'[tablet] = 1
      BY <2>1 DEF AnnounceIssue, Trigger, TriggerSome
    <3>2. /\ pc'[console] = "ready" /\ pc'[tablet] = pc[tablet]
          /\ shown' = "await_face" /\ session' = session /\ link' = link /\ left' = left
      BY <1>3, <2>1 DEF AnnounceIssue
    <3>3. session.flow = "issue"
      BY <1>3, <2>1
    <3>4. AwaitingFace'
      BY <3>1, <3>2, <3>3 DEF AwaitingFace
    <3> QED
      BY <3>4 DEF Phase
  <2>2. CASE AnnounceTag(t) /\ proc[t] = "return"
    <3>1. Returning'
      BY <1>3, <2>2 DEF AnnounceTag, Returning, Unlinked
    <3> QED
      BY <3>1 DEF Phase
  <2>3. CASE AnnounceTag(t) /\ proc[t] = "entry"
    <3>1. Reading'
      BY <1>3, <2>3 DEF AnnounceTag, Reading, Unlinked
    <3> QED
      BY <3>1 DEF Phase
  <2> QED
    BY <1>1, <1>3, <2>1, <2>2, <2>3 DEF Follows, Flows
<1> QED
  BY <1>2, <1>3

LEMMA AwaitingFaceContinue ==
  ASSUME Typed, GateInv, AwaitingFace, NEW t \in Tasks, Continue(t)
  PROVE  Phase'
<1> USE DEF Typed, AwaitingFace, Unheld, Goto, taskVars
<1>1. Follows(t)
  BY ContinueFollows
<1>2. t = tablet /\ pc[tablet] \in {"linger", "image"}
  BY <1>1 DEF Follows
<1>3. CASE pc[tablet] = "linger"
  <2>1. Linger(t)
    BY <1>1, <1>2, <1>3 DEF Follows
  <2>2. AwaitingFace'
    BY <1>2, <1>3, <2>1 DEF Linger, AfterLinger, busy
  <2> QED
    BY <2>2 DEF Phase
<1>4. CASE pc[tablet] = "image"
  <2>1. FaceForIssue(t)
    BY <1>1, <1>2, <1>4 DEF Follows, FaceForEntry, FaceTooEarly, FaceIgnored
  <2>2. buf[t] # NoEmb
    BY <1>2, <1>4, Distinct DEF GateInv, FaceHeld, Embeddings
  <2>3. /\ session'.flow = "issue" /\ session'.emb # NoEmb
        /\ origin' = [from |-> "camera", of |-> epoch']
    BY <2>1, <2>2 DEF FaceForIssue
  <2>4. /\ pc'[tablet] = "captured" /\ pc'[console] = "ready"
        /\ UNCHANGED <<shown, then, link, left, armed>>
    BY <1>2, <2>1 DEF FaceForIssue
  <2>5. Issuing'
    BY <1>4, <2>3, <2>4 DEF Issuing, IssueShown, Unlinked
  <2> QED
    BY <2>5 DEF Phase
<1> QED
  BY <1>2, <1>3, <1>4

\* The issue's task goes on to a point where the facts of Issuing that it needs hold.
LEMMA IssuingContinue ==
  ASSUME Typed, ThenReady, Issuing, NEW t \in Tasks, Continue(t)
  PROVE  Phase'
<1> USE DEF Typed, Unheld, Goto, taskVars
<1>1. Follows(t)
  BY ContinueFollows
<1>2. t = tablet /\ pc[console] = "ready" /\ armed[tablet] = 0 /\ session.flow = "issue"
  BY <1>1 DEF Follows, Issuing
<1>3. CASE pc[tablet] = "captured"
  <2>1. IssueCaptured(tablet)
    BY <1>1, <1>2, <1>3 DEF Follows
  <2>2. Issuing'
    BY <1>2, <1>3, <2>1 DEF IssueCaptured, CapturedState, Issuing, IssueShown, Unlinked
  <2> QED
    BY <2>2 DEF Phase
<1>4. CASE pc[tablet] \in {"tag", "wake", "connect", "abort"}
  <2>1. \/ Tag(tablet) \/ Wake(tablet) \/ Connected(tablet) \/ ConnectFails(tablet)
        \/ AbortDisconnect(tablet)
    BY <1>1, <1>2, <1>4 DEF Follows
  <2>2. Issuing'
    BY <1>2, <1>4, <2>1 DEF Tag, AfterTag, Wake, Connected, ConnectFails, AbortDisconnect,
                            Release, Issuing, IssueShown, Unlinked
  <2> QED
    BY <2>2 DEF Phase
<1>5. CASE pc[tablet] = "read"
  <2>1. IssueStepFails(tablet) \/ IssueReadId(tablet)
    BY <1>1, <1>2, <1>5 DEF Follows, Issuing
  <2>2. ASSUME IssueStepFails(tablet) PROVE Issuing'
    BY <1>2, <1>5, <2>2 DEF IssueStepFails, Fail, Issuing, IssueShown, Unlinked
  <2>3. ASSUME IssueReadId(tablet) PROVE Issuing'
    <3>1. wid'[tablet] = link
      BY <2>3 DEF IssueReadId, ReadIds
    <3>2. /\ pc' = [pc EXCEPT ![tablet] = "disc"] \/ pc' = [pc EXCEPT ![tablet] = "write"]
          /\ UNCHANGED <<session, shown, proc, link, left, armed, epoch, origin>>
      BY <2>3 DEF IssueReadId, Fail
    <3> QED
      BY <1>2, <1>5, <3>1, <3>2 DEF Issuing, IssueShown, Unlinked
  <2> QED
    BY <2>1, <2>2, <2>3 DEF Phase
<1>6. CASE pc[tablet] = "write"
  <2>1. IssueStepFails(tablet) \/ IssueWriteEmbedding(tablet)
    BY <1>1, <1>2, <1>6 DEF Follows
  <2>2. ASSUME IssueStepFails(tablet) PROVE Issuing'
    BY <1>2, <1>6, <2>2 DEF IssueStepFails, Fail, Issuing, IssueShown, Unlinked
  <2>3. ASSUME IssueWriteEmbedding(tablet) PROVE Issuing'
    <3>1. link \in Bands /\ wid[tablet] = link /\ session.emb # NoEmb
      BY <1>6, <2>3 DEF IssueWriteEmbedding, Issuing
    <3>2. band' = [band EXCEPT ![link].emb = session.emb]
      BY <2>3, <3>1 DEF IssueWriteEmbedding, Encoded
    <3>3. band'[link].emb = session.emb
      BY <3>1, <3>2 DEF Memory
    <3>4. /\ pc' = [pc EXCEPT ![tablet] = "seat"]
          /\ UNCHANGED <<session, shown, proc, wid, link, left, armed, epoch, origin>>
      BY <2>3 DEF IssueWriteEmbedding
    <3> QED
      BY <1>2, <1>6, <3>1, <3>3, <3>4 DEF Issuing, IssueShown, Unlinked
  <2> QED
    BY <2>1, <2>2, <2>3 DEF Phase
<1>7. CASE pc[tablet] = "seat"
  <2>1. IssueWriteSeat(tablet)
    BY <1>1, <1>2, <1>7 DEF Follows
  <2>2. link = wid[tablet] /\ band[link].emb = session.emb
    BY <1>7 DEF Issuing
  <2>3. band'[link].emb = band[link].emb
    <3>1. CASE UNCHANGED band
      BY <3>1
    <3>2. CASE link # NoBand /\ band' = [band EXCEPT ![link].seat = session.seat]
      BY <3>2 DEF Memory
    <3> QED
      BY <2>1, <3>1, <3>2 DEF IssueWriteSeat
  <2>4. /\ pc' = [pc EXCEPT ![tablet] = "record"]
        /\ UNCHANGED <<session, shown, proc, wid, link, left, armed, epoch, origin>>
    BY <2>1 DEF IssueWriteSeat
  <2>5. Issuing'
    BY <1>2, <1>7, <2>2, <2>3, <2>4 DEF Issuing, IssueShown, Unlinked
  <2> QED
    BY <2>5 DEF Phase
<1>8. CASE pc[tablet] \in {"record", "disc", "complete"}
  <2>1. IssueRecord(tablet) \/ Disconnect(tablet) \/ Complete(tablet)
    BY <1>1, <1>2, <1>8 DEF Follows, Issuing
  <2>2. Issuing'
    BY <1>2, <1>8, <2>1 DEF IssueRecord, Disconnect, AfterOutcome, Release, Complete, Fail,
                            Issuing, IssueShown, Unlinked
  <2> QED
    BY <2>2 DEF Phase
<1>9. CASE pc[tablet] \in {"done", "aborted"}
  <2>1. DoneReset(tablet) \/ AbortReset(tablet)
    BY <1>1, <1>2, <1>9 DEF Follows
  <2>2. NoSession'
    BY <1>2, <1>9, <2>1 DEF DoneReset, AbortReset, NoSession, Resting, ThenReady, Issuing,
                            IssueShown, Unlinked
  <2> QED
    BY <2>2 DEF Phase
<1> QED
  BY <1>3, <1>4, <1>5, <1>6, <1>7, <1>8, <1>9 DEF Issuing

LEMMA ReturningContinue ==
  ASSUME Typed, Returning, NEW t \in Tasks, Continue(t)
  PROVE  Phase'
<1> USE DEF Typed, Resting, Unheld, Goto, taskVars
<1>1. Follows(t)
  BY ContinueFollows
<1>2. CASE t = tablet
  <2>1. Linger(t)
    BY <1>1, <1>2 DEF Follows, Returning
  <2>2. Returning'
    BY <1>2, <2>1 DEF Linger, AfterLinger, busy, Returning, Unlinked
  <2> QED
    BY <2>2 DEF Phase
<1>3. CASE t = console /\ pc[t] \in {"tag", "wake", "connect", "abort"}
  <2>1. \/ Tag(t) \/ Wake(t) \/ Connected(t) \/ ConnectFails(t) \/ AbortDisconnect(t)
    BY <1>1, <1>3 DEF Follows
  <2>2. Returning'
    BY <1>3, <2>1 DEF Tag, AfterTag, Wake, Connected, ConnectFails, AbortDisconnect, Release,
                      Returning, Unlinked
  <2> QED
    BY <2>2 DEF Phase
<1>4. CASE t = console /\ pc[t] \in {"read", "clear", "disc", "record", "complete"}
  <2>1. \/ ReturnReadId(t) \/ ReturnClear(t) \/ Disconnect(t) \/ ReturnRecord(t) \/ Complete(t)
    BY <1>1, <1>4 DEF Follows, Returning
  <2>2. Returning'
    BY <1>4, <2>1 DEF ReturnReadId, ReturnClear, Disconnect, AfterOutcome, Release,
                      ReturnRecord, Complete, Returning, Unlinked
  <2> QED
    BY <2>2 DEF Phase
<1>5. CASE t = console /\ pc[t] \in {"done", "aborted"}
  <2>1. DoneReset(t) \/ AbortReset(t)
    BY <1>1, <1>5 DEF Follows
  <2>2. NoSession'
    BY <1>5, <2>1 DEF DoneReset, AbortReset, NoSession, Returning, Unlinked
  <2> QED
    BY <2>2 DEF Phase
<1> QED
  BY <1>2, <1>3, <1>4, <1>5 DEF Returning

LEMMA ReadingContinue ==
  ASSUME Typed, Reading, NEW t \in Tasks, Continue(t)
  PROVE  Phase'
<1> USE DEF Typed, Resting, Unheld, Goto, taskVars
<1>1. Follows(t)
  BY ContinueFollows
<1>2. CASE t = tablet
  <2>1. Linger(t)
    BY <1>1, <1>2 DEF Follows, Reading
  <2>2. Reading'
    BY <1>2, <2>1 DEF Linger, AfterLinger, busy, Reading, Unlinked
  <2> QED
    BY <2>2 DEF Phase
<1>3. CASE t = console /\ pc[t] \in {"tag", "wake", "connect", "abort"}
  <2>1. \/ Tag(t) \/ Wake(t) \/ Connected(t) \/ ConnectFails(t) \/ AbortDisconnect(t)
    BY <1>1, <1>3 DEF Follows
  <2>2. Reading'
    BY <1>3, <2>1 DEF Tag, AfterTag, Wake, Connected, ConnectFails, AbortDisconnect, Release,
                      Reading, Unlinked
  <2> QED
    BY <2>2 DEF Phase
<1>4. CASE t = console /\ pc[t] \in {"read", "leave"}
  <2>1. EntryReadEmbedding(t) \/ EntryLeave(t)
    BY <1>1, <1>4 DEF Follows, Reading
  <2>2. Reading'
    BY <1>4, <2>1 DEF EntryReadEmbedding, EntryLeave, Release, Reading, Unlinked
  <2> QED
    BY <2>2 DEF Phase
<1>5. CASE t = console /\ pc[t] = "flag"
  <2>1. ASSUME EntryRefuse(t) PROVE Reading'
    BY <1>5, <2>1 DEF EntryRefuse, Reading, Unlinked
  <2>2. ASSUME EntryAccept(t) PROVE Prompting'
    BY <1>5, <2>2 DEF EntryAccept, Reading, Prompting
  <2> QED
    BY <1>1, <1>5, <2>1, <2>2 DEF Follows, Phase
<1>6. CASE t = console /\ pc[t] = "aborted"
  <2>1. AbortReset(t)
    BY <1>1, <1>6 DEF Follows
  <2>2. NoSession'
    BY <1>6, <2>1 DEF AbortReset, NoSession, Reading, Unlinked
  <2> QED
    BY <2>2 DEF Phase
<1> QED
  BY <1>2, <1>3, <1>4, <1>5, <1>6 DEF Reading

LEMMA PromptingContinue ==
  ASSUME Typed, Prompting, NEW t \in Tasks, Continue(t)
  PROVE  Phase'
<1> USE DEF Typed, Resting, Unheld, Goto, taskVars
<1>1. Follows(t)
  BY ContinueFollows
<1>2. CASE t = tablet
  <2>1. Linger(t)
    BY <1>1, <1>2 DEF Follows, Prompting
  <2>2. Prompting'
    BY <1>2, <2>1 DEF Linger, AfterLinger, busy, Prompting
  <2> QED
    BY <2>2 DEF Phase
<1>3. CASE t = console
  <2>1. EntryPrompt(t)
    BY <1>1, <1>3 DEF Follows, Prompting
  <2>2. armed'[tablet] <= 1
    BY <2>1 DEF EntryPrompt, Trigger, TriggerSome, Prompting
  <2>3. Admitting'
    BY <1>3, <2>1, <2>2 DEF EntryPrompt, Prompting, Admitting, Unlinked
  <2> QED
    BY <2>3 DEF Phase
<1> QED
  BY <1>2, <1>3

\* The face of an entry: the tablet's task decides and completes, while the console's task may
\* still be leaving on_tag.
LEMMA AdmittingContinue ==
  ASSUME Typed, ThenReady, Admitting, NEW t \in Tasks, Continue(t)
  PROVE  Phase'
<1> USE DEF Typed, Unheld, Goto, taskVars
<1>1. Follows(t)
  BY ContinueFollows
<1>2. CASE t = console
  <2>1. pc[t] = "leave" /\ EntryLeave(t)
    BY <1>1, <1>2 DEF Follows, Admitting
  <2>2. Admitting'
    BY <1>2, <2>1 DEF EntryLeave, Admitting, Unlinked
  <2> QED
    BY <2>2 DEF Phase
<1>3. CASE t = tablet /\ pc[t] = "linger"
  <2>1. Linger(t)
    BY <1>1, <1>3 DEF Follows
  <2>2. Admitting'
    BY <1>3, <2>1 DEF Linger, AfterLinger, busy, Admitting, Unlinked
  <2> QED
    BY <2>2 DEF Phase
<1>4. CASE t = tablet /\ pc[t] = "image"
  <2>1. FaceForEntry(t)
    BY <1>1, <1>4 DEF Follows, Admitting, FaceForIssue, ForIssue, FaceTooEarly, FaceIgnored
  <2>2. Admitting'
    BY <1>4, <2>1 DEF FaceForEntry, Admitting, Unlinked
  <2> QED
    BY <2>2 DEF Phase
<1>5. CASE t = tablet /\ pc[t] \in {"verdict", "complete"}
  <2>1. Verdict(t) \/ Complete(t)
    BY <1>1, <1>5 DEF Follows
  <2>2. Admitting'
    BY <1>5, <2>1 DEF Verdict, Complete, Release, Admitting, Unlinked
  <2> QED
    BY <2>2 DEF Phase
<1>6. CASE t = tablet /\ pc[t] = "done"
  <2>1. DoneReset(t)
    BY <1>1, <1>6 DEF Follows
  <2>2. NoSession'
    BY <1>6, <2>1 DEF DoneReset, Admitting, NoSession, Resting, Unlinked
  <2> QED
    BY <2>2 DEF Phase
<1>7. pc[t] # "ready"
  BY <1>1 DEF Follows
<1> QED
  BY <1>2, <1>3, <1>4, <1>5, <1>6, <1>7 DEF Admitting

\* What a command does: with no cancel and nothing running, a start or a connect.
LEMMA AloneCommand ==
  ASSUME Alone, Typed, Phase, SeatTyped, Command(console)
  PROVE  Phase' /\ SeatTyped'
<1> USE DEF Typed, Resting, Unheld, Goto, taskVars
<1>1. ~Cancel(console)
  BY DEF Alone, Cancel
<1>2. pc[console] = "ready" /\ ~busy
  BY <1>1 DEF Command, Start, CanStart, StartWithoutDevice, DeviceConnect
<1>3. NoSession
  BY <1>2 DEF Phase, busy, Starting, AwaitingFace, Issuing, Returning, Reading, Prompting,
              Admitting, Flows
<1>4. ASSUME NEW f \in Flows, NEW s \in Seats \cup {NoSeat}, Start(console, f, s)
      PROVE  Starting'
  BY <1>3, <1>4 DEF Start, Started, NoSession, Starting, Idle
<1>5. ASSUME NEW f \in Flows, StartWithoutDevice(console, f) PROVE NoSession'
  BY <1>2, <1>3, <1>5 DEF StartWithoutDevice, NoSession
<1>6. ASSUME DeviceConnect(console) PROVE NoSession'
  BY <1>3, <1>6 DEF DeviceConnect, NoSession
<1>7. Phase'
  BY <1>1, <1>4, <1>5, <1>6 DEF Command, Phase, Flows
<1>8. SeatTyped'
  <2>1. ASSUME NEW s \in Seats, Start(console, "issue", s) PROVE SeatTyped'
    BY <2>1, Distinct DEF Start, Started, SeatTyped
  <2>2. ASSUME NEW f \in {"entry", "return"}, Start(console, f, NoSeat) PROVE SeatTyped'
    BY <2>2 DEF Start, Started, SeatTyped
  <2>3. ASSUME UNCHANGED session PROVE SeatTyped'
    BY <2>3 DEF SeatTyped
  <2> QED
    BY <1>1, <2>1, <2>2, <2>3 DEF Command, StartWithoutDevice, DeviceConnect
<1> QED
  BY <1>7, <1>8

\* The tablet's pictures and what fails on their way.
LEMMA AlonePictures ==
  ASSUME Typed, Phase,
         \/ \E f \in Faces : Upload(tablet, f)
         \/ UploadRejected(tablet)
         \/ CaptureLost(tablet)
  PROVE  Phase'
<1> USE DEF Typed, Resting, Unheld, Goto, taskVars
<1>1. armed[tablet] > 0 /\ armed[tablet] \in Nat
  BY DEF Upload, UploadRejected, CaptureLost
<1>2. armed[tablet] = 1 /\ (AwaitingFace \/ Admitting)
  BY <1>1 DEF Phase, NoSession, Starting, AwaitingFace, Issuing, Returning, Reading, Prompting,
              Admitting
<1>3. armed'[tablet] \in {0, 1}
  BY <1>2 DEF Upload, UploadRejected, CaptureLost
<1>4. \/ pc' = pc
      \/ /\ pc[tablet] = "ready" /\ pc' = [pc EXCEPT ![tablet] = "image"]
         /\ armed'[tablet] = 0
  BY <1>2 DEF Upload, UploadRejected, CaptureLost
<1>5. UNCHANGED <<session, shown, res, link, left>>
  BY DEF Upload, UploadRejected, CaptureLost
<1>6. CASE AwaitingFace
  <2>1. AwaitingFace'
    BY <1>2, <1>3, <1>4, <1>5, <1>6 DEF AwaitingFace
  <2> QED
    BY <2>1 DEF Phase
<1>7. CASE Admitting
  <2>1. Admitting'
    BY <1>2, <1>3, <1>4, <1>5, <1>7 DEF Admitting, Unlinked
  <2> QED
    BY <2>1 DEF Phase
<1> QED
  BY <1>2, <1>6, <1>7

\* What happens around the server leaves the phase; a restart ends it.
LEMMA AloneSurroundings ==
  ASSUME Typed, IdRead, Phase,
         \/ UNCHANGED vars
         \/ \E g \in gate : GateDone(g)
         \/ \E b \in Bands : WearChanges(b)
         \/ DeviceLost
         \/ ServerRestart
  PROVE  Phase'
<1> USE DEF Typed, Resting, Unheld, taskVars
<1>1. CASE ServerRestart
  <2>1. NoSession'
    BY <1>1 DEF ServerRestart, NoSession
  <2> QED
    BY <2>1 DEF Phase
<1>2. ASSUME ~ServerRestart PROVE Phase'
  <2>1. /\ UNCHANGED <<session, shown, taskVars, link, left, armed, epoch, origin>>
    BY <1>2 DEF vars, GateDone, WearChanges, DeviceLost
  <2>2. \A b \in Bands : band'[b].emb = band[b].emb
    BY <1>2 DEF vars, GateDone, WearChanges, DeviceLost, Memory
  <2>3. CASE Issuing
    <3>1. pc[tablet] \in {"seat", "record"} => wid[tablet] \in Bands
      BY <2>3 DEF IdRead, Issuing
    <3>2. Issuing'
      BY <2>1, <2>2, <2>3, <3>1 DEF Issuing, IssueShown, Unlinked
    <3> QED
      BY <3>2 DEF Phase
  <2>4. CASE NoSession \/ Starting \/ AwaitingFace
    BY <2>1, <2>4 DEF Phase, NoSession, Starting, AwaitingFace
  <2>5. CASE Returning \/ Reading \/ Prompting \/ Admitting
    BY <2>1, <2>5 DEF Phase, Returning, Reading, Prompting, Admitting, Unlinked
  <2> QED
    BY <2>3, <2>4, <2>5 DEF Phase
<1> QED
  BY <1>1, <1>2

LEMMA ThenStays ==
  ASSUME Typed, ThenReady, NEW t \in Tasks, Continue(t)
  PROVE  ThenReady'
<1> USE DEF Typed, ThenReady, taskVars
<1>1. CASE AbortReset(t)
  BY <1>1 DEF AbortReset
<1>2. CASE \/ AnnounceIssue(t) \/ AnnounceTag(t) \/ AbortDisconnect(t)
           \/ Complete(t) \/ DoneReset(t) \/ Linger(t)
           \/ Tag(t) \/ Wake(t) \/ Connected(t) \/ ConnectFails(t) \/ Disconnect(t)
  BY <1>2 DEF AnnounceIssue, AnnounceTag, AbortDisconnect, Complete, DoneReset, Linger, Tag,
              Wake, Connected, ConnectFails, Disconnect
<1>3. CASE \/ IssueStepFails(t) \/ IssueReadId(t) \/ IssueWriteEmbedding(t)
           \/ IssueWriteSeat(t) \/ IssueRecord(t)
           \/ ReturnReadId(t) \/ ReturnClear(t) \/ ReturnRecord(t)
  BY <1>3 DEF IssueStepFails, IssueReadId, IssueWriteEmbedding, IssueWriteSeat, IssueRecord,
              ReturnReadId, ReturnClear, ReturnRecord
<1>4. CASE \/ EntryReadEmbedding(t) \/ EntryRefuse(t) \/ EntryAccept(t) \/ EntryPrompt(t)
           \/ EntryLeave(t) \/ FaceForIssue(t) \/ IssueCaptured(t) \/ FaceForEntry(t)
           \/ FaceTooEarly(t) \/ FaceIgnored(t) \/ Verdict(t)
  BY <1>4 DEF EntryReadEmbedding, EntryRefuse, EntryAccept, EntryPrompt, EntryLeave,
              FaceForIssue, IssueCaptured, FaceForEntry, FaceTooEarly, FaceIgnored, Verdict
<1> QED
  BY <1>1, <1>2, <1>3, <1>4 DEF Continue

LEMMA PhaseContinue ==
  ASSUME Typed, GateInv, ThenReady, Phase, NEW t \in Tasks, Continue(t)
  PROVE  Phase'
<1>1. CASE NoSession
  BY <1>1, NoSessionContinue DEF Phase
<1>2. CASE Starting \/ AwaitingFace \/ Issuing
  BY <1>2, StartingContinue, AwaitingFaceContinue, IssuingContinue
<1>3. CASE Returning \/ Reading \/ Prompting \/ Admitting
  BY <1>3, ReturningContinue, ReadingContinue, PromptingContinue, AdmittingContinue
<1> QED
  BY <1>1, <1>2, <1>3 DEF Phase

\* Nobody joins or leaves.
LEMMA NobodyRaises ==
  ASSUME Alone, Inv, NEW t \in Tasks
  PROVE  ~Raises(t) /\ ~ResetRaises(t)
  BY DEF Alone, Inv, TypeOK, Raises, ResetRaises

LEMMA AloneNext ==
  ASSUME Alone
  PROVE  Inv /\ GateInv /\ AloneInv /\ [Next]_vars => AloneInv'
<1> SUFFICES ASSUME Inv, GateInv, AloneInv, [Next]_vars PROVE AloneInv'
  OBVIOUS
<1>1. Typed
  BY AloneTyped
<1>2. ASSUME NEW t \in Tasks, Continue(t) PROVE AloneInv'
  <2>1. TaskStep
    BY <1>2, TaskSteps
  <2>2. SeatTyped'
    BY <2>1 DEF TaskStep, SessionKept, SessionReset, SessionGetsBand, SessionGetsPicture, Idle,
                Inv, TypeOK, AloneInv, SeatTyped
  <2> QED
    BY <1>1, <1>2, <2>2, ThenStays, PhaseContinue DEF AloneInv
<1>3. ASSUME NEW a \in Admins, Command(a) PROVE AloneInv'
  <2>1. a = console
    BY DEF Alone
  <2>2. then'[tablet] = then[tablet]
    BY <1>1, <1>3, <2>1 DEF Typed, Command, Start, StartWithoutDevice, Cancel, DeviceConnect,
                            taskVars
  <2> QED
    BY <1>1, <1>3, <2>1, <2>2, AloneCommand DEF AloneInv, ThenReady
<1>4. ASSUME NEW tab \in Tablets,
             (\E f \in Faces : Upload(tab, f)) \/ UploadRejected(tab) \/ CaptureLost(tab)
      PROVE  AloneInv'
  <2>1. tab = tablet
    BY DEF Alone
  <2>2. UNCHANGED <<session, then>>
    BY <1>4 DEF Upload, UploadRejected, CaptureLost, taskVars
  <2> QED
    BY <1>1, <1>4, <2>1, <2>2, AlonePictures DEF AloneInv, SeatTyped, ThenReady
<1>5. ASSUME \/ UNCHANGED vars
             \/ \E g \in gate : GateDone(g)
             \/ \E b \in Bands : WearChanges(b)
             \/ DeviceLost
             \/ ServerRestart
      PROVE  AloneInv'
  <2>1. SeatTyped' /\ ThenReady'
    <3>1. CASE UNCHANGED <<session, then>>
      BY <3>1 DEF AloneInv, SeatTyped, ThenReady
    <3>2. CASE ServerRestart
      BY <1>1, <3>2 DEF ServerRestart, Idle, SeatTyped, ThenReady, Typed
    <3> QED
      BY <1>5, <3>1, <3>2 DEF vars, taskVars, GateDone, WearChanges, DeviceLost
  <2> QED
    BY <1>1, <1>5, <2>1, AloneSurroundings DEF AloneInv, Inv
<1> QED
  BY <1>2, <1>3, <1>4, <1>5, NobodyRaises DEF Next

LEMMA AloneInit == Alone /\ Init => AloneInv
<1> SUFFICES ASSUME Alone, Init PROVE AloneInv
  OBVIOUS
<1>1. console \in Tasks /\ tablet \in Tasks /\ tablet \in Tablets
  BY DEF Alone, Tasks
<1>2. NoSession
  BY <1>1 DEF Init, NoSession, Resting, Unheld
<1> QED
  BY <1>1, <1>2 DEF Init, Idle, AloneInv, SeatTyped, ThenReady, Phase

LEMMA SpecAlone ==
  ASSUME Alone
  PROVE  Spec => [](Inv /\ AloneInv)
  BY AloneInit, AloneNext, SpecInv, SpecGate, PTL DEF Spec

\* domain/session.py, "one procedure at a time": with one console, one tablet and no cancel, at
\* most one task works on the reader, the BLE client and the session, although a console's
\* task hands the session on to the tablet's and may still be leaving on_tag then.
THEOREM AloneOneProcedure ==
  ASSUME Alone
  PROVE  Spec => []OneProcedure
<1>1. Inv /\ AloneInv => OneProcedure
  <2> SUFFICES ASSUME Inv, AloneInv PROVE OneProcedure
    OBVIOUS
  <2>1. Typed
    BY AloneTyped
  <2>2. ~(Working(console) /\ Working(tablet))
    BY DEF AloneInv, Phase, Working, NoSession, Resting, Starting, AwaitingFace, Issuing,
           Returning, Reading, Prompting, Admitting
  <2> QED
    BY <2>1, <2>2 DEF OneProcedure, Typed
<1> QED
  BY <1>1, SpecAlone, PTL

\* Between the procedures nothing is left over: every way through a procedure, whatever fails
\* in it, ends with a disconnect of the client, which leaves no wristband connected unless the
\* stack fails it, and with IDLE shown, on which the START buttons depend.
THEOREM AloneQuietIsClean ==
  ASSUME Alone
  PROVE  Spec => []QuietIsClean
<1>1. Inv /\ AloneInv => QuietIsClean
  <2> SUFFICES ASSUME Inv, AloneInv, ~busy, \A t \in Tasks : pc[t] = "ready"
               PROVE  Unheld /\ shown = "idle"
    BY DEF QuietIsClean, Unheld
  <2>1. NoSession
    BY DEF AloneInv, Phase, busy, Starting, AwaitingFace, Issuing, Returning, Reading,
           Prompting, Admitting, Flows
  <2> QED
    BY <2>1 DEF NoSession
<1> QED
  BY <1>1, SpecAlone, PTL

\* EntryFlow's order of calls: no face is asked for, and none arrives, before the wristband of
\* an entry has been read; no countdown outlives the procedure that asked for it.
THEOREM AloneFaceAfterTag ==
  ASSUME Alone
  PROVE  Spec => []FaceAfterTag
<1>1. Inv /\ AloneInv => FaceAfterTag
  <2> SUFFICES ASSUME Inv, AloneInv, pc[tablet] = "image", session.flow = "entry"
               PROVE  session.emb # NoEmb
    BY DEF FaceAfterTag, Alone
  <2> QED
    BY DEF AloneInv, Phase, NoSession, Resting, Starting, AwaitingFace, Issuing, Returning,
           Reading, Prompting, Admitting
<1> QED
  BY <1>1, SpecAlone, PTL

\* A row is only appended by an issue that has checked for a conflict.
LEMMA OnlyIssueRecords ==
  ASSUME Inv, [Next]_vars, IssueRecorded
  PROVE  \E t \in Tasks :
           /\ IssueRecord(t)
           /\ rows'[Len(rows')] = [wid |-> wid[t], seat |-> session.seat, returned |-> FALSE]
<1>1. rows \in Seq(Repo!Row) /\ Len(rows) \in Nat
  BY DEF Inv, TypeOK
<1>2. rows' # rows
  BY <1>1 DEF IssueRecorded
<1>3. PICK t \in Tasks : IssueRecord(t) \/ ReturnRecord(t)
  BY <1>2, RowsStay DEF vars
<1>4. ASSUME ReturnRecord(t) PROVE FALSE
  <2>1. rows' = [i \in DOMAIN rows |-> [rows[i] EXCEPT !.returned = @ \/ rows[i].wid = wid[t]]]
    BY <1>4 DEF ReturnRecord, Repo!RecordReturn
  <2>2. DOMAIN rows' = 1 .. Len(rows)
    BY <1>1, <2>1
  <2>3. Len(rows') = Len(rows)
    BY <1>1, <2>1, <2>2
  <2> QED
    BY <1>1, <2>3 DEF IssueRecorded
<1>5. rows' = Append(rows, [wid |-> wid[t], seat |-> session.seat, returned |-> FALSE])
  BY <1>2, <1>3, <1>4 DEF IssueRecord, Repo!RecordIssue
<1>6. rows'[Len(rows')] = [wid |-> wid[t], seat |-> session.seat, returned |-> FALSE]
  <2> DEFINE row == [wid |-> wid[t], seat |-> session.seat, returned |-> FALSE]
  <2>1. row \in {row} \cup Repo!Row /\ rows \in Seq({row} \cup Repo!Row)
    BY <1>1
  <2> HIDE DEF row
  <2>2. rows' = Append(rows, row)
    BY <1>5 DEF row
  <2> QED
    BY <2>1, <2>2 DEF row
<1> QED
  BY <1>3, <1>4, <1>6

\* docs/flows.md, issue step 4: the row that is recorded carries the seat typed for this
\* session, and its wristband holds the face captured for this session: from the write of the
\* embedding on, neither the connection nor the session changes under on_tag.
THEOREM AloneRecordedAsCaptured ==
  ASSUME Alone
  PROVE  Spec => RecordedAsCaptured
<1> DEFINE Faithful ==
      IssueRecorded =>
        LET r == rows'[Len(rows')]
        IN /\ r.seat # NoSeat /\ r.seat = session.seat
           /\ origin = [from |-> "camera", of |-> epoch]
           /\ band[r.wid].emb = session.emb
<1>1. Inv /\ AloneInv /\ [Next]_vars => [Faithful]_vars
  <2> SUFFICES ASSUME Inv, AloneInv, [Next]_vars, IssueRecorded PROVE Faithful
    OBVIOUS
  <2>1. Typed
    BY AloneTyped
  <2>2. PICK t \in Tasks :
          /\ IssueRecord(t)
          /\ rows'[Len(rows')] = [wid |-> wid[t], seat |-> session.seat, returned |-> FALSE]
    BY OnlyIssueRecords
  <2>3. pc[t] = "record" /\ proc[t] = "issue"
    BY <2>2 DEF IssueRecord
  <2>4. Issuing /\ t = tablet
    BY <2>1, <2>3 DEF Typed, AloneInv, Phase, NoSession, Resting, Starting, AwaitingFace,
                      Issuing, Returning, Reading, Prompting, Admitting
  <2>5. session.seat # NoSeat
    BY <2>4 DEF AloneInv, SeatTyped, Issuing
  <2>6. origin = [from |-> "camera", of |-> epoch] /\ band[wid[t]].emb = session.emb
    BY <2>3, <2>4 DEF Issuing
  <2> QED
    BY <2>2, <2>5, <2>6
<1> QED
  BY <1>1, SpecAlone, PTL DEF Spec, RecordedAsCaptured

\* What a task shows next.
ShownStep == shown' = shown \/ shown' = "idle" \/ <<shown, shown'>> \in Documented

LEMMA TaskShows ==
  ASSUME Typed, Phase, NEW t \in Tasks, Continue(t)
  PROVE  ShownStep
<1> USE DEF Typed
<1>1. CASE AnnounceIssue(t) \/ AnnounceTag(t)
  <2>1. pc[t] = "announce" /\ shown' \in {"await_face", "await_tag"}
    BY <1>1 DEF AnnounceIssue, AnnounceTag
  <2>2. shown \in {"idle", "done"}
    BY <2>1 DEF Phase, NoSession, Resting, Starting, AwaitingFace, Issuing, Returning, Reading,
                Prompting, Admitting
  <2> QED
    BY <2>1, <2>2 DEF ShownStep, Documented
<1>2. CASE Complete(t)
  <2>1. pc[t] = "complete" /\ shown' = "done"
    BY <1>2 DEF Complete
  <2>2. shown \in {"await_tag", "await_face_entry"}
    BY <2>1 DEF Phase, NoSession, Resting, Starting, AwaitingFace, Issuing, IssueShown,
                Returning, Reading, Prompting, Admitting
  <2> QED
    BY <2>1, <2>2 DEF ShownStep, Documented
<1>3. CASE EntryPrompt(t)
  <2>1. pc[t] = "prompt" /\ shown' = "await_face_entry"
    BY <1>3 DEF EntryPrompt
  <2>2. shown = "await_tag"
    BY <2>1 DEF Phase, NoSession, Resting, Starting, AwaitingFace, Issuing, Returning, Reading,
                Prompting, Admitting
  <2> QED
    BY <2>1, <2>2 DEF ShownStep, Documented
<1>4. CASE IssueCaptured(t)
  <2>1. pc[t] = "captured" /\ shown' = "await_tag"
    BY <1>4 DEF IssueCaptured, CapturedState
  <2>2. shown = "await_face"
    BY <2>1 DEF Phase, NoSession, Resting, Starting, AwaitingFace, Issuing, IssueShown,
                Returning, Reading, Prompting, Admitting
  <2> QED
    BY <2>1, <2>2 DEF ShownStep, Documented
<1>5. CASE Linger(t) \/ AbortReset(t)
  BY <1>5 DEF Linger, AfterLinger, AbortReset, ShownStep
<1>6. CASE \/ AbortDisconnect(t) \/ DoneReset(t) \/ Tag(t) \/ Wake(t) \/ Connected(t)
           \/ ConnectFails(t) \/ Disconnect(t) \/ IssueStepFails(t) \/ IssueReadId(t)
           \/ IssueWriteEmbedding(t) \/ IssueWriteSeat(t) \/ IssueRecord(t)
  BY <1>6 DEF AbortDisconnect, DoneReset, Tag, Wake, Connected, ConnectFails, Disconnect,
              IssueStepFails, IssueReadId, IssueWriteEmbedding, IssueWriteSeat, IssueRecord,
              ShownStep
<1>7. CASE \/ ReturnReadId(t) \/ ReturnClear(t) \/ ReturnRecord(t) \/ EntryReadEmbedding(t)
           \/ EntryRefuse(t) \/ EntryAccept(t) \/ EntryLeave(t) \/ FaceForIssue(t)
           \/ FaceForEntry(t) \/ FaceTooEarly(t) \/ FaceIgnored(t) \/ Verdict(t)
  BY <1>7 DEF ReturnReadId, ReturnClear, ReturnRecord, EntryReadEmbedding, EntryRefuse,
              EntryAccept, EntryLeave, FaceForIssue, FaceForEntry, FaceTooEarly, FaceIgnored,
              Verdict, ShownStep
<1> QED
  BY <1>1, <1>2, <1>3, <1>4, <1>5, <1>6, <1>7 DEF Continue

\* docs/ws-protocol.md: the consoles see the states in the documented order, whatever fails and
\* although the consoles' task and the tablet's task take turns in sending them.
THEOREM AloneStatesInOrder ==
  ASSUME Alone
  PROVE  Spec => StatesInOrder
<1>1. Inv /\ AloneInv /\ [Next]_vars
        => [shown' = "idle" \/ <<shown, shown'>> \in Documented]_shown
  <2> SUFFICES ASSUME Inv, AloneInv, [Next]_vars PROVE ShownStep
    BY DEF ShownStep
  <2>1. ASSUME NEW t \in Tasks, Continue(t) PROVE ShownStep
    BY <2>1, AloneTyped, TaskShows DEF AloneInv
  <2>2. ASSUME ~\E t \in Tasks : Continue(t) PROVE ShownStep
    BY <2>2, NobodyRaises
       DEF Next, Command, Start, StartWithoutDevice, Cancel, DeviceConnect, Upload,
                UploadRejected, CaptureLost, GateDone, WearChanges, DeviceLost, ServerRestart,
                vars, ShownStep
  <2> QED
    BY <2>1, <2>2
<1> QED
  BY <1>1, SpecAlone, PTL DEF Spec, StatesInOrder
=============================================================================
