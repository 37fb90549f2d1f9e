------------------------ MODULE OperatorDeviceProofs ------------------------
(***************************************************************************)
(* Proofs about OperatorDevice for any number of tasks, sends, connects    *)
(* and resets.                                                             *)
(***************************************************************************)
EXTENDS OperatorDevice, SequenceTheorems, TLAPS

-----------------------------------------------------------------------------
(* The invariant.  That the lock is served is not inductive by itself: one *)
(* has to know that whoever is at work holds it.  Nor is the ownership of  *)
(* answers: it rests on what may still be on its way over the cable.       *)

\* At work under the lock, or about to resume from it.
UnderLock(t) ==
  t \in awaited /\ job[t].stage \in {"write", "read", "reopen", "opening", "back", "lost"}

WorkerHolds == \A t \in Tasks : UnderLock(t) => holder = t
LockInv == TypeOK /\ WorkerHolds /\ LockIsServed

\* Numbers of sends that may turn up without anybody waiting for them.
Loose == {0} \cup abandoned
Reading == {job[t].msg.id : t \in {u \in awaited : job[u].stage = "read"}}

\* A thread without a caller works for a send that was abandoned.
OrphansLoose ==
  \A t \in Tasks : t \notin awaited /\ job[t].stage # "none" => job[t].msg.id \in Loose

\* Whatever is on the cable is loose, or belongs to the send that reads and is there once.
OnCable ==
  /\ \A i \in DOMAIN rx : rx[i].id \in Loose \/ rx[i].id \in Reading
  /\ \A j \in DOMAIN tx : tx[j].to \in Loose \/ tx[j].to \in Reading
Once ==
  /\ \A i, k \in DOMAIN rx : rx[i].id = rx[k].id => i = k \/ rx[i].id \in Loose
  /\ \A i \in DOMAIN rx, j \in DOMAIN tx : rx[i].id = tx[j].to => rx[i].id \in Loose
  /\ \A j, k \in DOMAIN tx : tx[j].to = tx[k].to => j = k \/ tx[j].to \in Loose

AnswerInv == OrphansLoose /\ OnCable /\ Once /\ OwnAnswer

\* A wake that is alone is the only one, and its WAKE is younger than since.
WakeSends(t) ==
  /\ t \in awaited /\ job[t].msg.id > since[t]
  /\ job[t].stage = "sim" => job[t].line.to = job[t].msg.id
WakeInv ==
  \A t \in alone :
    /\ Waking = {t} /\ since[t] <= sent
    /\ op[t] = "wake" => WakeSends(t)
    /\ last_addr \in Loose \/ last_addr > since[t]

-----------------------------------------------------------------------------
(* Types *)

LEMMA TypeInit == Init => TypeOK
<1> SUFFICES ASSUME Init PROVE TypeOK
  OBVIOUS
<1>1. NoJob \in Jobs
  BY LineBounds DEF NoJob, Jobs, Stages, Message, Numbers, Words, Ports, Line, Empty, Answers
<1>2. job \in [Tasks -> Jobs] /\ link \in [Tasks -> Links] /\ ran \in [1 .. MaxSends -> Nat]
  BY <1>1 DEF Init, LineInit, Links
<1>3. op \in [Tasks -> Ops] /\ pings \in [Tasks -> 0 .. HandshakeAttempts]
      /\ since \in [Tasks -> Numbers]
  BY AttemptsAre, LineBounds DEF Init, Ops, Numbers
<1>4. rx \in Seq(Message) /\ tx \in Seq(Line)
  BY DEF Init, LineInit
<1>5. /\ ser \in Handles /\ sim \in BOOLEAN /\ port \in Ports /\ awaited \in SUBSET Tasks
      /\ holder \in Tasks \cup {Nobody} /\ up \in BOOLEAN
  BY DEF Init, LineInit, Handles, Ports
<1>6. /\ sent \in Numbers /\ changes \in 0 .. MaxChanges /\ resets \in 0 .. MaxResets
      /\ abandoned \in SUBSET Numbers /\ last_addr \in Numbers /\ alone \in SUBSET Tasks
  BY LineBounds DEF Init, LineInit, Numbers
<1> QED
  BY <1>2, <1>3, <1>4, <1>5, <1>6 DEF TypeOK

\* The conjuncts of TypeOK about one send.
JobTyped == job \in [Tasks -> Jobs]
CableTyped == rx \in Seq(Message) /\ tx \in Seq(Line)

\* What a step may write into a job.
LEMMA JobFields ==
  ASSUME NEW j \in Jobs
  PROVE  /\ \A s \in Stages : [j EXCEPT !.stage = s] \in Jobs
         /\ \A s \in Stages, l \in Line : [j EXCEPT !.stage = s, !.line = l] \in Jobs
         /\ \A s \in Stages, v \in Ports : [j EXCEPT !.stage = s, !.via = v] \in Jobs
         /\ \A s \in Stages, n \in {1, 2}, v \in Ports :
              [j EXCEPT !.stage = s, !.try = n, !.via = v] \in Jobs
  BY DEF Jobs

LEMMA NullTypes == NoJob \in Jobs /\ Empty \in Line /\ Banner \in Line
  BY LineBounds DEF NoJob, Jobs, Stages, Message, Numbers, Words, Ports, Line, Empty, Banner,
                    Answers

\* The steps of a send keep it typed.
LEMMA JobSteps ==
  ASSUME TypeOK, NEW t \in Tasks, SendStep(t)
  PROVE  JobTyped'
<1>1. job[t] \in Jobs /\ job \in [Tasks -> Jobs]
  BY DEF TypeOK
<1>2. \A j \in Jobs : [job EXCEPT ![t] = j] \in [Tasks -> Jobs]
  BY <1>1
<1>3. \A s \in Stages : job' = [job EXCEPT ![t].stage = s] => JobTyped'
  BY <1>1, <1>2, JobFields DEF JobTyped
<1>4. \A s \in Stages : job' = [job EXCEPT ![t] = IF t \notin awaited THEN NoJob
                                                    ELSE [@ EXCEPT !.stage = s]] => JobTyped'
  <2> SUFFICES ASSUME NEW s \in Stages,
                      job' = [job EXCEPT ![t] = IF t \notin awaited THEN NoJob
                                ELSE [@ EXCEPT !.stage = s]]
               PROVE  JobTyped'
    OBVIOUS
  <2>1. [job[t] EXCEPT !.stage = s] \in Jobs
    BY <1>1, JobFields
  <2> QED
    BY <1>2, <2>1, NullTypes DEF JobTyped
<1>5. \A l \in Line : job' = [job EXCEPT ![t] = IF t \notin awaited THEN NoJob
                              ELSE [@ EXCEPT !.stage = "back", !.line = l]] => JobTyped'
  <2> SUFFICES ASSUME NEW l \in Line,
                      job' = [job EXCEPT ![t] = IF t \notin awaited THEN NoJob
                                ELSE [@ EXCEPT !.stage = "back", !.line = l]]
               PROVE  JobTyped'
    OBVIOUS
  <2>1. "back" \in Stages
    BY DEF Stages
  <2>2. [job[t] EXCEPT !.stage = "back", !.line = l] \in Jobs
    BY <1>1, <2>1, JobFields
  <2> QED
    BY <1>2, <2>2, NullTypes DEF JobTyped
<1>6. port \in Ports /\ (tx # <<>> => Head(tx) \in Line)
  BY DEF TypeOK
<1>a. CASE Acquire(t) \/ Write(t)
  BY <1>a, <1>3 DEF Acquire, Write, Stage, Stages
<1>b. CASE WriteFails(t) \/ ReadFails(t)
  <2>1. /\ "reopen" \in Stages /\ "raised" \in Stages
        /\ job' = [job EXCEPT ![t] = IF t \notin awaited THEN NoJob
                      ELSE [@ EXCEPT !.stage = IF job[t].try = 1 THEN "reopen" ELSE "raised"]]
    BY <1>b DEF WriteFails, ReadFails, Raised, Stages
  <2> QED
    BY <2>1, <1>4
<1>c. CASE Read(t)
  BY <1>c, <1>5, <1>6 DEF Read
<1>d. CASE Deadline(t)
  BY <1>d, <1>5, NullTypes DEF Deadline
<1>e. CASE ReopenBegin(t)
  <2>1. [job[t] EXCEPT !.stage = "opening", !.via = port] \in Jobs
    BY <1>1, <1>6, JobFields DEF Stages
  <2> QED
    BY <1>e, <1>2, <2>1 DEF ReopenBegin, JobTyped
<1>f. CASE ReopenWithoutPort(t) \/ ReopenFails(t)
  BY <1>f, <1>4 DEF ReopenWithoutPort, ReopenFails, Stages
<1>g. CASE Reopened(t)
  <2>1. [job[t] EXCEPT !.stage = "write", !.try = 2, !.via = "none"] \in Jobs
    BY <1>1, JobFields DEF Stages, Ports
  <2> QED
    BY <1>g, <1>2, <2>1, NullTypes DEF Reopened, JobTyped
<1> QED
  BY <1>a, <1>b, <1>c, <1>d, <1>e, <1>f, <1>g DEF SendStep

\* So does its beginning.
LEMMA SubmitTypes ==
  ASSUME TypeOK, NEW t \in Tasks, NEW w \in Words, Submit(t, w)
  PROVE  JobTyped' /\ sent' \in Numbers /\ awaited' \in SUBSET Tasks
<1>1. sent + 1 \in Numbers
  BY LineBounds DEF TypeOK, Submit, Numbers
<1>2. \A s \in {"sim", "raised", "queued"}, l \in {Empty, [to |-> sent + 1, word |-> "OK"]} :
        [NoJob EXCEPT !.msg = [id |-> sent + 1, word |-> w], !.stage = s, !.line = l] \in Jobs
  <2>1. [id |-> sent + 1, word |-> w] \in Message
    BY <1>1 DEF Message
  <2>2. Empty \in Line /\ [to |-> sent + 1, word |-> "OK"] \in Line
    <3>1. [to |-> sent + 1, word |-> "OK"] \in Line
      BY <1>1 DEF Line, Answers
    <3> QED
      BY <3>1, NullTypes
  <2>3. {"sim", "raised", "queued"} \subseteq Stages
    BY DEF Stages
  <2>4. \A m \in Message, s \in Stages, l \in Line :
          [NoJob EXCEPT !.msg = m, !.stage = s, !.line = l] \in Jobs
    BY NullTypes DEF Jobs
  <2> QED
    BY <2>1, <2>2, <2>3, <2>4
<1> QED
  BY <1>1, <1>2 DEF Submit, TypeOK, JobTyped

\* What a board and an opening do to the cable.
LEMMA CableSteps ==
  ASSUME TypeOK, NEW t \in Tasks, SendStep(t) \/ ConnectStep(t)
  PROVE  CableTyped' /\ up' \in BOOLEAN /\ resets' \in 0 .. MaxResets
<1>1. rx \in Seq(Message) /\ tx \in Seq(Line) /\ up \in BOOLEAN /\ resets \in 0 .. MaxResets
      /\ job[t].msg \in Message
  BY DEF TypeOK, Jobs
<1>2. /\ Append(rx, job[t].msg) \in Seq(Message) /\ (tx # <<>> => Tail(tx) \in Seq(Line))
      /\ <<>> \in Seq(Message) /\ <<>> \in Seq(Line)
  BY <1>1
<1>3. CASE OpenedPort
  <2>1. rx' \in {rx, <<>>} /\ tx' = <<>> /\ up' \in BOOLEAN
        /\ (resets' = resets \/ (resets < MaxResets /\ resets' = resets + 1))
    BY <1>1, <1>3 DEF OpenedPort, Resets
  <2>2. resets' \in 0 .. MaxResets
    BY <1>1, <2>1, LineBounds
  <2> QED
    BY <1>1, <1>2, <2>1, <2>2 DEF CableTyped
<1>4. CASE UNCHANGED <<rx, up, resets>> /\ tx' \in {tx, <<>>}
  BY <1>1, <1>2, <1>4 DEF CableTyped
<1>5. CASE Write(t)
  <2>1. rx' \in {rx, Append(rx, job[t].msg)} /\ tx' = <<>> /\ UNCHANGED <<up, resets>>
    BY <1>5 DEF Write
  <2> QED
    BY <1>1, <1>2, <2>1 DEF CableTyped
<1>6. CASE Read(t)
  BY <1>1, <1>2, <1>6 DEF Read, CableTyped
<1> QED
  BY <1>3, <1>4, <1>5, <1>6 DEF SendStep, ConnectStep, Acquire, WriteFails, Deadline, ReadFails,
     ReopenBegin, ReopenWithoutPort, Reopened, ReopenFails, ConnectOpened, ConnectFails,
     ConnectSettled, board

\* TypeOK in two halves: the serial line, and the operator over it.
LineTyped ==
  /\ ser \in Handles /\ sim \in BOOLEAN /\ port \in Ports
  /\ link \in [Tasks -> Links] /\ JobTyped
  /\ awaited \in SUBSET Tasks /\ holder \in Tasks \cup {Nobody}
  /\ sent \in Numbers /\ changes \in 0 .. MaxChanges
  /\ CableTyped
  /\ up \in BOOLEAN /\ resets \in 0 .. MaxResets
  /\ abandoned \in SUBSET Numbers /\ ran \in [1 .. MaxSends -> Nat]
OpTyped ==
  /\ op \in [Tasks -> Ops] /\ pings \in [Tasks -> 0 .. HandshakeAttempts]
  /\ last_addr \in Numbers
  /\ since \in [Tasks -> Numbers] /\ alone \in SUBSET Tasks

\* What is read of a job or a line.
LEMMA JobReads ==
  ASSUME TypeOK, NEW t \in Tasks
  PROVE  job[t].msg.id \in Numbers /\ job[t].line.to \in Numbers /\ Heard(t).to \in Numbers
  BY NullTypes DEF TypeOK, Jobs, Message, Line, Heard

LEMMA LineSend ==
  ASSUME TypeOK, NEW t \in Tasks, SendStep(t) \/ ConnectStep(t)
  PROVE  LineTyped'
<1>1. JobTyped'
  BY JobSteps DEF ConnectStep, ConnectOpened, ConnectFails, ConnectSettled, TypeOK, JobTyped
<1>2. CableTyped' /\ up' \in BOOLEAN /\ resets' \in 0 .. MaxResets
  BY CableSteps
<1>3. job[t].msg.id \in Numbers
  BY JobReads
<1>4. /\ ser' \in {ser, "none", "good"} /\ sim' = sim /\ port' \in {port, "none", "COM"}
      /\ link' \in {link} \cup {[link EXCEPT ![t] = l] : l \in {"settling", "false", "true"}}
      /\ awaited' = awaited /\ holder' \in {holder, t}
      /\ sent' = sent /\ changes' = changes
      /\ abandoned' \in {abandoned, abandoned \cup {job[t].msg.id}} /\ ran' = ran
  <2>1. CASE SendStep(t)
    BY <2>1 DEF SendStep, Acquire, Write, WriteFails, Read, Deadline, ReadFails, ReopenBegin,
       ReopenWithoutPort, Reopened, ReopenFails, OpenedPort, handle, count, board, history
  <2>2. CASE ConnectStep(t)
    BY <2>2 DEF ConnectStep, ConnectOpened, ConnectFails, ConnectSettled, OpenedPort,
       handle, count, board, history
  <2> QED
    BY <2>1, <2>2
<1>5. ser' \in Handles /\ port' \in Ports /\ link' \in [Tasks -> Links]
  BY <1>4 DEF TypeOK, Handles, Ports, Links
<1> QED
  BY <1>1, <1>2, <1>3, <1>4, <1>5 DEF LineTyped, TypeOK

LEMMA LineSubmit ==
  ASSUME TypeOK, NEW t \in Tasks, NEW w \in Words, Submit(t, w),
         UNCHANGED <<handle, holder, board, history>>, link' \in [Tasks -> Links]
  PROVE  LineTyped'
<1>1. JobTyped' /\ sent' \in Numbers /\ awaited' \in SUBSET Tasks
  BY SubmitTypes
<1>2. CableTyped'
  BY DEF TypeOK, CableTyped, board
<1> QED
  BY <1>1, <1>2 DEF LineTyped, TypeOK, Submit, handle, board, history

LEMMA LineReturns ==
  ASSUME TypeOK, NEW t \in Tasks, Returns(t) \/ CancelSend(t)
  PROVE  LineTyped'
<1>1. job[t].msg.id \in Numbers
  BY JobReads
<1>2. job' \in {job, [job EXCEPT ![t] = NoJob]}
  BY DEF Returns, CancelSend
<1>3. JobTyped'
  BY <1>2, NullTypes DEF TypeOK, JobTyped
<1>4. CableTyped'
  BY DEF Returns, CancelSend, TypeOK, CableTyped, board
<1>5. /\ ser' \in {ser, "none"} /\ sim' = sim /\ port' = port /\ link' = link
      /\ awaited' = awaited \ {t} /\ holder' \in {holder, Nobody}
      /\ sent' = sent /\ changes' = changes /\ up' = up /\ resets' = resets
      /\ abandoned' \in {abandoned, abandoned \cup {job[t].msg.id}} /\ ran' = ran
  BY DEF Returns, Resume, Released, CancelSend, handle, count, board
<1> QED
  BY <1>1, <1>3, <1>4, <1>5 DEF LineTyped, TypeOK, Handles

LEMMA LineConnect ==
  ASSUME TypeOK, NEW t \in Tasks, NEW p \in {"COM", "SIM"}, Connect(t, p)
  PROVE  LineTyped'
<1>1. CableTyped' /\ JobTyped'
  BY DEF Connect, TypeOK, CableTyped, JobTyped, board
<1>2. changes' \in 0 .. MaxChanges
  BY LineBounds DEF Connect, ConnectBegin, Change, TypeOK
<1>3. /\ link' \in {[link EXCEPT ![t] = l] : l \in {"true", "opening"}}
      /\ ser' = ser /\ sim' \in {sim, TRUE} /\ port' \in {port, "SIM"}
  BY DEF Connect, ConnectBegin, handle
<1>4. link' \in [Tasks -> Links] /\ port' \in Ports
  BY <1>3 DEF TypeOK, Links, Ports
<1> QED
  BY <1>1, <1>2, <1>3, <1>4 DEF LineTyped, TypeOK, Connect, board, history

LEMMA LineAround ==
  ASSUME TypeOK, Around
  PROVE  LineTyped'
<1>1. JobTyped'
  BY DEF Around, Disconnect, BoardResets, BoardBoots, Execute, TypeOK, JobTyped
<1>2. rx \in Seq(Message) /\ tx \in Seq(Line) /\ <<>> \in Seq(Line) /\ <<>> \in Seq(Message)
  BY DEF TypeOK
<1>3. CASE Disconnect
  <2>1. CableTyped'
    BY <1>2, <1>3 DEF Disconnect, CableTyped
  <2>2. changes' \in 0 .. MaxChanges /\ ser' \in Handles /\ port' \in Ports
    BY <1>3, LineBounds DEF Disconnect, Change, TypeOK, Handles, Ports
  <2> QED
    BY <1>1, <1>3, <2>1, <2>2 DEF Disconnect, LineTyped, TypeOK, history
<1>4. CASE BoardResets
  <2>1. CableTyped' /\ ser' \in Handles
    BY <1>2, <1>4 DEF BoardResets, Resets, CableTyped, TypeOK, Handles
  <2>2. resets' \in 0 .. MaxResets /\ up' \in BOOLEAN
    <3>1. resets < MaxResets /\ resets' = resets + 1 /\ up' = FALSE /\ resets \in 0 .. MaxResets
      BY <1>4 DEF BoardResets, Resets, TypeOK
    <3>2. resets' \in 0 .. MaxResets
      BY <3>1, LineBounds
    <3> QED
      BY <3>1, <3>2
  <2> QED
    BY <1>1, <1>4, <2>1, <2>2 DEF BoardResets, LineTyped, TypeOK, count, history
<1>5. CASE BoardBoots
  <2>1. tx' \in {tx, Append(tx, Banner)}
    BY <1>5 DEF BoardBoots, Emitted
  <2>2. CableTyped'
    BY <1>2, <1>5, <2>1, NullTypes DEF BoardBoots, CableTyped
  <2> QED
    BY <1>1, <1>5, <2>2 DEF BoardBoots, LineTyped, TypeOK, handle, count, history
<1>6. ASSUME NEW w \in {"OK", "ADDR", "NO_TAG", "ERR"}, Execute(w) PROVE LineTyped'
  <2> DEFINE m == Head(rx)
  <2>1. m \in Message /\ Tail(rx) \in Seq(Message)
    BY <1>2, <1>6 DEF Execute
  <2>2. [to |-> m.id, word |-> w] \in Line
    BY <2>1 DEF Line, Message, Answers
  <2>3. tx' \in {tx, Append(tx, [to |-> m.id, word |-> w])} /\ rx' = Tail(rx)
    BY <1>6 DEF Execute, Emitted
  <2>4. CableTyped'
    <3> HIDE DEF m
    <3> QED
      BY <1>2, <2>1, <2>2, <2>3 DEF CableTyped
  <2>5. ran' = [ran EXCEPT ![m.id] = @ + 1]
    BY <1>6 DEF Execute
  <2>6. ran' \in [1 .. MaxSends -> Nat]
    <3>1. ran \in [1 .. MaxSends -> Nat]
      BY DEF TypeOK
    <3>2. \A n : [ran EXCEPT ![n] = @ + 1] \in [1 .. MaxSends -> Nat]
      <4> SUFFICES ASSUME NEW n PROVE [ran EXCEPT ![n] = @ + 1] \in [1 .. MaxSends -> Nat]
        OBVIOUS
      <4>1. CASE n \in 1 .. MaxSends
        <5>1. ran[n] + 1 \in Nat
          BY <3>1, <4>1
        <5> QED
          BY <3>1, <5>1
      <4>2. CASE n \notin 1 .. MaxSends
        BY <3>1, <4>2
      <4> QED
        BY <4>1, <4>2
    <3> QED
      BY <2>5, <3>2
  <2> QED
    BY <1>1, <1>6, <2>4, <2>6 DEF Execute, LineTyped, TypeOK, handle, count
<1> QED
  BY <1>3, <1>4, <1>5, <1>6 DEF Around

\* The calls of OperatorDevice.
LEMMA OpCalls ==
  ASSUME TypeOK, NEW t \in Tasks,
         \/ \E p \in {"COM", "SIM"} : Connect(t, p)
         \/ Wake(t) \/ Signal(t) \/ Frame(t) \/ CancelFrame(t)
  PROVE  OpTyped'
<1> USE DEF TypeOK, OpTyped, Goto, Ops
<1>1. ASSUME NEW p \in {"COM", "SIM"}, Connect(t, p) PROVE OpTyped'
  BY <1>1 DEF Connect
<1>2. CASE Signal(t) \/ Frame(t) \/ CancelFrame(t)
  BY <1>2 DEF Signal, Frame, CancelFrame
<1>3. CASE Wake(t)
  <2>1. Waking \subseteq Tasks /\ 0 \in Numbers
    BY LineBounds DEF Waking, Numbers
  <2>2. alone' \in SUBSET Tasks
    BY <1>3, <2>1 DEF Wake
  <2> QED
    BY <1>3, <2>1, <2>2 DEF Wake
<1> QED
  BY <1>1, <1>2, <1>3

LEMMA OpContinues ==
  ASSUME TypeOK, NEW t \in Tasks, Continue(t)
  PROVE  OpTyped'
<1> USE DEF TypeOK, OpTyped, Goto, Ops
<1>0. 0 \in Numbers /\ 0 \in 0 .. HandshakeAttempts /\ 1 \in 0 .. HandshakeAttempts
  BY LineBounds, AttemptsAre DEF Numbers
<1>1. CASE Refused(t) \/ SendOkReturns(t) \/ WakeAgain(t)
  BY <1>1 DEF Refused, SendOkReturns, WakeAgain
<1>2. CASE Ping(t)
  <2>1. pings' \in [Tasks -> 0 .. HandshakeAttempts]
    <3>1. CASE pings' = [pings EXCEPT ![t] = 1]
      BY <1>0, <3>1
    <3>2. CASE pings[t] < HandshakeAttempts /\ pings' = [pings EXCEPT ![t] = @ + 1]
      <4>1. pings[t] + 1 \in 0 .. HandshakeAttempts
        BY <3>2, AttemptsAre
      <4> QED
        BY <3>2, <4>1
    <3> QED
      BY <1>2, <3>1, <3>2 DEF Ping
  <2> QED
    BY <1>2, <2>1 DEF Ping
<1>3. CASE PingReturns(t)
  BY <1>0, <1>3 DEF PingReturns
<1>4. CASE HandshakeEnds(t)
  BY <1>0, <1>4 DEF HandshakeEnds
<1>5. CASE WakeReturns(t)
  <2>1. last_addr' \in Numbers
    BY <1>5, JobReads DEF WakeReturns, Address
  <2>2. op' \in [Tasks -> Ops]
    BY <1>5 DEF WakeReturns
  <2>3. since' \in [Tasks -> Numbers] /\ alone' \in SUBSET Tasks
    BY <1>0, <1>5 DEF WakeReturns, WakeOver
  <2> QED
    BY <1>5, <2>1, <2>2, <2>3 DEF WakeReturns
<1>6. CASE WakeDeadline(t) \/ UseAddress(t)
  BY <1>0, <1>6 DEF WakeDeadline, UseAddress, WakeOver
<1> QED
  BY <1>1, <1>2, <1>3, <1>4, <1>5, <1>6 DEF Continue

\* What the callers do to the line.
LEMMA LineCalls ==
  ASSUME TypeOK, NEW t \in Tasks,
         \/ \E p \in {"COM", "SIM"} : Connect(t, p)
         \/ Wake(t) \/ Signal(t) \/ Frame(t) \/ CancelFrame(t) \/ Continue(t)
  PROVE  LineTyped'
<1>1. "WAKE" \in Words /\ "SIGNAL" \in Words /\ "RGB" \in Words /\ "PING" \in Words
      /\ link \in [Tasks -> Links] /\ [link EXCEPT ![t] = "none"] \in [Tasks -> Links]
  BY DEF Words, TypeOK, Links
<1>2. CASE \E p \in {"COM", "SIM"} : Connect(t, p)
  BY <1>2, LineConnect
<1>3. ASSUME NEW w \in Words, Sends(t, w) PROVE LineTyped'
  BY <1>1, <1>3, LineSubmit DEF Sends
<1>4. CASE Wake(t) \/ Signal(t) \/ Frame(t) \/ WakeAgain(t)
  BY <1>1, <1>3, <1>4 DEF Wake, Signal, Frame, WakeAgain
<1>5. CASE CancelFrame(t) \/ PingReturns(t) \/ WakeReturns(t) \/ SendOkReturns(t)
  BY <1>5, LineReturns DEF CancelFrame, PingReturns, WakeReturns, SendOkReturns
<1>6. CASE Ping(t)
  BY <1>1, <1>6, LineSubmit DEF Ping
<1>7. CASE UNCHANGED <<handle, job, awaited, holder, count, board, history>>
           /\ link' \in {link, [link EXCEPT ![t] = "none"]}
  BY <1>1, <1>7 DEF LineTyped, TypeOK, JobTyped, CableTyped, handle, count, board, history
<1> QED
  BY <1>2, <1>4, <1>5, <1>6, <1>7 DEF Continue, Refused, HandshakeEnds, WakeDeadline, UseAddress,
     lineVars

\* Every step as one of four kinds, for the case splits below.
Calls(t) ==
  \/ \E p \in {"COM", "SIM"} : Connect(t, p)
  \/ Wake(t) \/ Signal(t) \/ Frame(t) \/ CancelFrame(t)

LEMMA Steps ==
  ASSUME [Next]_vars
  PROVE  \/ \E t \in Tasks : Calls(t) \/ Continue(t) \/ Transport(t)
         \/ Around \/ UNCHANGED vars
  BY TasksAre DEF Next, Call, Calls, Advance, AtRest

LEMMA TypeNext == TypeOK /\ [Next]_vars => TypeOK'
<1> SUFFICES ASSUME TypeOK, [Next]_vars PROVE TypeOK'
  OBVIOUS
<1>0. LineTyped' /\ OpTyped' => TypeOK'
  BY DEF TypeOK, LineTyped, OpTyped, JobTyped, CableTyped
<1>1. ASSUME NEW t \in Tasks, Calls(t) PROVE TypeOK'
  BY <1>1, LineCalls, OpCalls, <1>0 DEF Calls
<1>2. ASSUME NEW t \in Tasks, Continue(t) PROVE TypeOK'
  BY <1>2, LineCalls, OpContinues, <1>0
<1>3. ASSUME NEW t \in Tasks, Transport(t) PROVE TypeOK'
  <2>1. LineTyped'
    BY <1>3, LineSend DEF Transport
  <2> QED
    BY <1>3, <2>1, <1>0 DEF Transport, opVars, OpTyped, TypeOK
<1>4. CASE Around
  <2>1. LineTyped'
    BY <1>4, LineAround
  <2> QED
    BY <1>4, <2>1, <1>0 DEF Around, opVars, OpTyped, TypeOK
<1>5. CASE UNCHANGED vars
  BY <1>5 DEF TypeOK, vars, lineVars, opVars, handle, count, board, history
<1> QED
  BY <1>1, <1>2, <1>3, <1>4, <1>5, Steps

\* operator.py and serial_io.py keep every variable in its type.
THEOREM LineTypeOK == Spec => []TypeOK
  BY TypeInit, TypeNext, PTL DEF Spec

-----------------------------------------------------------------------------
(* The lock.  Five kinds of step concern it. *)

Others(t) == \A u \in Tasks \ {t} : job'[u] = job[u]

Apart == UNCHANGED <<job, awaited, holder>>
Begins(t) ==
  /\ job[t].stage = "none" /\ job'[t].stage \in {"sim", "raised", "queued"} /\ Others(t)
  /\ awaited' = awaited \cup {t} /\ UNCHANGED holder
Enters(t) ==
  /\ t \in awaited /\ job[t].stage = "queued" /\ job'[t].stage = "write" /\ Others(t)
  /\ holder = Nobody /\ holder' = t /\ UNCHANGED awaited
Works(t) ==
  /\ job[t].stage \in {"write", "read", "reopen", "opening"} /\ Others(t)
  /\ t \in awaited =>
       job'[t].stage \in {"write", "read", "reopen", "opening", "back", "lost", "raised"}
  /\ UNCHANGED <<awaited, holder>>
Leaves(t) ==
  /\ t \in awaited /\ awaited' = awaited \ {t} /\ Others(t)
  /\ holder' = IF holder = t THEN Nobody ELSE holder

LEMMA LockSend ==
  ASSUME TypeOK, NEW t \in Tasks, SendStep(t)
  PROVE  Enters(t) \/ Works(t)
<1>1. job \in [Tasks -> Jobs] /\ job[t] \in Jobs
  BY DEF TypeOK
<1>2. CASE Acquire(t)
  BY <1>1, <1>2 DEF Acquire, Stage, Enters, Others, Jobs
<1>3. CASE Write(t)
  BY <1>1, <1>3 DEF Write, Stage, Works, Others, Jobs
<1>4. CASE WriteFails(t)
  BY <1>1, <1>4 DEF WriteFails, Raised, Works, Others, Jobs
<1>5. CASE ReadFails(t)
  BY <1>1, <1>5 DEF ReadFails, Raised, Works, Others, Jobs
<1>6. CASE Read(t)
  BY <1>1, <1>6 DEF Read, Works, Others, Jobs
<1>7. CASE Deadline(t)
  BY <1>1, <1>7 DEF Deadline, Works, Others, Jobs
<1>8. CASE ReopenBegin(t) \/ Reopened(t)
  BY <1>1, <1>8 DEF ReopenBegin, Reopened, Works, Others, Jobs
<1>9. CASE ReopenWithoutPort(t) \/ ReopenFails(t)
  BY <1>1, <1>9 DEF ReopenWithoutPort, ReopenFails, Works, Others, Jobs
<1> QED
  BY <1>2, <1>3, <1>4, <1>5, <1>6, <1>7, <1>8, <1>9 DEF SendStep

LEMMA LockSubmit ==
  ASSUME TypeOK, NEW t \in Tasks, NEW w, Submit(t, w), UNCHANGED holder
  PROVE  Begins(t)
<1>1. job \in [Tasks -> Jobs]
  BY DEF TypeOK
<1>2. job'[t].stage \in {"sim", "raised", "queued"}
  BY <1>1 DEF Submit, NoJob
<1> QED
  BY <1>1, <1>2 DEF Submit, Begins, Others

LEMMA LockLeaves ==
  ASSUME TypeOK, NEW t \in Tasks, Returns(t) \/ CancelSend(t)
  PROVE  Leaves(t)
<1>1. job \in [Tasks -> Jobs] /\ job' \in {job, [job EXCEPT ![t] = NoJob]}
  BY DEF TypeOK, Returns, CancelSend
<1> QED
  BY <1>1 DEF Returns, Ended, Resume, CancelSend, Released, Leaves, Others

LEMMA LockSteps ==
  ASSUME TypeOK, [Next]_vars
  PROVE  \/ Apart
         \/ \E t \in Tasks : Begins(t) \/ Enters(t) \/ Works(t) \/ Leaves(t)
<1>1. ASSUME NEW t \in Tasks, Calls(t) PROVE Apart \/ Begins(t) \/ Leaves(t)
  BY <1>1, LockSubmit, LockLeaves
     DEF Calls, Connect, Wake, Signal, Frame, CancelFrame, Sends, Apart
<1>2. ASSUME NEW t \in Tasks, Continue(t) PROVE Apart \/ Begins(t) \/ Leaves(t)
  BY <1>2, LockSubmit, LockLeaves
     DEF Continue, Refused, Ping, PingReturns, HandshakeEnds, WakeReturns, WakeAgain,
         WakeDeadline, UseAddress, SendOkReturns, Sends, Apart, lineVars
<1>3. ASSUME NEW t \in Tasks, Transport(t) PROVE Apart \/ Enters(t) \/ Works(t)
  BY <1>3, LockSend
     DEF Transport, ConnectStep, ConnectOpened, ConnectFails, ConnectSettled, Apart
<1>4. CASE Around
  BY <1>4 DEF Around, Disconnect, BoardResets, BoardBoots, Execute, Apart
<1>5. CASE UNCHANGED vars
  BY <1>5 DEF vars, lineVars, Apart
<1> QED
  BY <1>1, <1>2, <1>3, <1>4, <1>5, Steps

LEMMA LockInit == Init => LockInv
<1> SUFFICES ASSUME Init PROVE LockInv
  OBVIOUS
<1> QED
  BY TypeInit DEF Init, LineInit, LockInv, WorkerHolds, UnderLock, LockIsServed

LEMMA LockNext == LockInv /\ [Next]_vars => LockInv'
<1> SUFFICES ASSUME LockInv, [Next]_vars PROVE LockInv'
  OBVIOUS
<1>1. TypeOK /\ TypeOK'
  BY TypeNext DEF LockInv
<1>2. CASE Apart
  BY <1>1, <1>2 DEF Apart, LockInv, WorkerHolds, UnderLock, LockIsServed, AtWork, Ended
<1>3. ASSUME NEW t \in Tasks, Begins(t) PROVE WorkerHolds' /\ LockIsServed'
  <2>1. holder # t
    BY <1>3, NobodyIsNoTask DEF Begins, LockInv, LockIsServed, AtWork, Ended
  <2>2. WorkerHolds'
    BY <1>3 DEF Begins, Others, LockInv, WorkerHolds, UnderLock
  <2>3. LockIsServed'
    BY <1>1, <1>3, <2>1 DEF Begins, Others, LockInv, LockIsServed, AtWork, Ended, TypeOK
  <2> QED
    BY <2>2, <2>3
<1>4. ASSUME NEW t \in Tasks, Enters(t) PROVE WorkerHolds' /\ LockIsServed'
  <2>1. WorkerHolds'
    BY <1>4, NobodyIsNoTask DEF Enters, Others, LockInv, WorkerHolds, UnderLock
  <2>2. LockIsServed'
    BY <1>4 DEF Enters, LockIsServed, AtWork
  <2> QED
    BY <2>1, <2>2
<1>5. ASSUME NEW t \in Tasks, Works(t) PROVE WorkerHolds' /\ LockIsServed'
  <2>1. t \in awaited => holder = t
    BY <1>5 DEF Works, LockInv, WorkerHolds, UnderLock
  <2>2. holder = t => t \in awaited
    BY NobodyIsNoTask DEF LockInv, LockIsServed, AtWork, Ended
  <2>3. WorkerHolds'
    BY <1>5, <2>1 DEF Works, Others, LockInv, WorkerHolds, UnderLock
  <2>4. LockIsServed'
    BY <1>1, <1>5, <2>2 DEF Works, Others, LockInv, LockIsServed, AtWork, Ended, TypeOK
  <2> QED
    BY <2>3, <2>4
<1>6. ASSUME NEW t \in Tasks, Leaves(t) PROVE WorkerHolds' /\ LockIsServed'
  <2>1. WorkerHolds'
    BY <1>6 DEF Leaves, Others, LockInv, WorkerHolds, UnderLock
  <2>2. LockIsServed'
    BY <1>1, <1>6 DEF Leaves, Others, LockInv, LockIsServed, AtWork, Ended, TypeOK
  <2> QED
    BY <2>1, <2>2
<1> QED
  BY <1>1, <1>2, <1>3, <1>4, <1>5, <1>6, LockSteps DEF LockInv

LEMMA SpecLock == Spec => []LockInv
  BY LockInit, LockNext, PTL DEF Spec

\* SerialTransport.send: the lock is never left locked, whichever await a failure, a
\* deadline or a cancellation hits.
THEOREM LineLockIsServed == Spec => []LockIsServed
<1>1. LockInv => LockIsServed
  BY DEF LockInv
<1> QED
  BY <1>1, SpecLock, PTL

\* SerialTransport.send: of the awaited sends at most one has a thread at the port.
THEOREM LineOneWorker == Spec => []OneWorker
<1>1. LockInv => OneWorker
  BY DEF LockInv, WorkerHolds, UnderLock, OneWorker, AtWork
<1> QED
  BY <1>1, SpecLock, PTL

-----------------------------------------------------------------------------
(* The answers *)

Inv == LockInv /\ AnswerInv
CableInv == OnCable /\ Once
OwnInv == OrphansLoose /\ OwnAnswer

LEMMA TailEntries ==
  ASSUME NEW S, NEW s \in Seq(S), s # <<>>
  PROVE  /\ 1 \in DOMAIN s /\ Head(s) = s[1]
         /\ \A i \in DOMAIN Tail(s) :
              i + 1 \in DOMAIN s /\ i + 1 # 1 /\ Tail(s)[i] = s[i + 1] /\ i \in Nat
  OBVIOUS

LEMMA AppendEntries ==
  ASSUME NEW S, NEW s \in Seq(S), NEW e \in S
  PROVE  \A i \in DOMAIN Append(s, e) :
           \/ i \in DOMAIN s /\ Append(s, e)[i] = s[i]
           \/ i = Len(s) + 1 /\ Append(s, e)[i] = e
  OBVIOUS

\* One task reads under the lock.
LEMMA OneReader ==
  ASSUME LockInv, NEW t \in awaited, UnderLock(t), NEW n, n \in Reading
  PROVE  job[t].stage = "read" /\ job[t].msg.id = n
  BY DEF LockInv, TypeOK, WorkerHolds, UnderLock, Reading

\* A step that takes from the cable at most.
LEMMA CableLess ==
  ASSUME CableInv, rx' \in {rx, <<>>}, tx' \in {tx, <<>>}, Loose \subseteq Loose',
         \A n : n \in Reading => n \in Reading' \/ n \in Loose'
  PROVE  CableInv'
<1>1. \A i \in DOMAIN rx' : i \in DOMAIN rx /\ rx'[i] = rx[i]
  OBVIOUS
<1>2. \A j \in DOMAIN tx' : j \in DOMAIN tx /\ tx'[j] = tx[j]
  OBVIOUS
<1>3. OnCable'
  BY <1>1, <1>2 DEF CableInv, OnCable
<1>4. Once'
  BY <1>1, <1>2 DEF CableInv, Once
<1> QED
  BY <1>3, <1>4 DEF CableInv

\* A step of one task keeps the answers of the others.
LEMMA OwnFrame ==
  ASSUME OwnInv, NEW t \in Tasks, Others(t), abandoned \subseteq abandoned',
         \A u \in Tasks \ {t} : u \in awaited' <=> u \in awaited,
         t \notin awaited' /\ job'[t].stage # "none" => job'[t].msg.id \in Loose',
         t \in awaited' /\ job'[t].stage = "back" =>
           job'[t].line.to \in {job'[t].msg.id} \cup Loose'
  PROVE  OwnInv'
<1>1. Loose \subseteq Loose'
  BY DEF Loose
<1>2. OrphansLoose'
  BY <1>1 DEF OwnInv, OrphansLoose, Others
<1>3. OwnAnswer'
  <2> SUFFICES ASSUME NEW u \in Tasks, u \in awaited', job'[u].stage = "back"
               PROVE  job'[u].line.to \in {0, job'[u].msg.id} \cup abandoned'
    BY DEF OwnAnswer
  <2>1. CASE u = t
    BY <2>1 DEF Loose
  <2>2. CASE u # t
    BY <2>2 DEF OwnInv, OwnAnswer, Others
  <2> QED
    BY <2>1, <2>2
<1> QED
  BY <1>2, <1>3 DEF OwnInv

LEMMA AnswerWrite ==
  ASSUME Inv, NEW t \in Tasks, Write(t)
  PROVE  AnswerInv'
<1> DEFINE n == job[t].msg.id
<1>1. /\ job \in [Tasks -> Jobs] /\ job[t] \in Jobs /\ rx \in Seq(Message) /\ job[t].msg \in Message
      /\ awaited \subseteq Tasks
  BY DEF Inv, LockInv, TypeOK, Jobs
<1>2. /\ job[t].stage = "write" /\ tx' = <<>> /\ rx' \in {rx, Append(rx, job[t].msg)}
      /\ job' = [job EXCEPT ![t].stage = "read"] /\ UNCHANGED <<awaited, abandoned>>
  BY DEF Write, Stage, history
<1>3. job'[t].stage = "read" /\ job'[t].msg.id = n /\ Others(t) /\ Loose' = Loose
  BY <1>1, <1>2 DEF Others, Jobs, Loose
<1>4. OwnInv'
  <2>1. t \notin awaited => n \in Loose
    BY <1>2 DEF Inv, AnswerInv, OrphansLoose
  <2> QED
    BY <1>2, <1>3, <2>1, OwnFrame DEF Inv, AnswerInv, OwnInv
<1>5. \A m : m \in Reading => m \in Reading'
  BY <1>2, <1>3 DEF Reading, Others
<1>6. t \in awaited => n \in Reading'
  BY <1>2, <1>3 DEF Reading
<1>7. t \notin awaited => n \in Loose
  BY <1>2 DEF Inv, AnswerInv, OrphansLoose
<1>8. \A i \in DOMAIN rx : rx[i].id = n => n \in Loose
  <2>1. CASE t \in awaited
    BY <1>2, <2>1, OneReader DEF Inv, AnswerInv, OnCable, UnderLock
  <2> QED
    BY <1>7, <2>1
<1>9. \A i \in DOMAIN rx' :
        \/ i \in DOMAIN rx /\ rx'[i] = rx[i]
        \/ i = Len(rx) + 1 /\ rx'[i] = job[t].msg
  BY <1>1, <1>2, AppendEntries
<1>10. OnCable'
  BY <1>2, <1>3, <1>5, <1>6, <1>7, <1>9 DEF Inv, AnswerInv, OnCable
<1>11. Once'
  <2>1. ASSUME NEW i \in DOMAIN rx', NEW k \in DOMAIN rx', rx'[i].id = rx'[k].id
        PROVE  i = k \/ rx'[i].id \in Loose
    BY <1>8, <1>9, <2>1 DEF Inv, AnswerInv, Once
  <2> QED
    BY <1>2, <1>3, <2>1 DEF Once
<1> QED
  BY <1>4, <1>10, <1>11 DEF AnswerInv, OwnInv

LEMMA AnswerRead ==
  ASSUME Inv, NEW t \in Tasks, Read(t)
  PROVE  AnswerInv'
<1> DEFINE n == job[t].msg.id
<1>1. /\ job \in [Tasks -> Jobs] /\ job[t] \in Jobs /\ tx \in Seq(Line) /\ awaited \subseteq Tasks
  BY DEF Inv, LockInv, TypeOK
<1>2. /\ job[t].stage = "read" /\ tx # <<>> /\ tx' = Tail(tx) /\ UNCHANGED <<rx, awaited>>
      /\ job' = [job EXCEPT ![t] = IF t \notin awaited THEN NoJob
                                   ELSE [@ EXCEPT !.stage = "back", !.line = Head(tx)]]
      /\ abandoned' = IF Head(tx).to = n THEN abandoned ELSE abandoned \cup {n}
  BY DEF Read
<1>3. /\ Others(t) /\ abandoned \subseteq abandoned' /\ Loose \subseteq Loose'
      /\ tx[1].to = n \/ n \in Loose'
  BY <1>1, <1>2, TailEntries DEF Others, Loose
<1>4. t \in awaited => job'[t].stage = "back" /\ job'[t].line = tx[1] /\ job'[t].msg.id = n
  BY <1>1, <1>2, TailEntries DEF Jobs
<1>5. t \notin awaited => job'[t].stage = "none"
  BY <1>1, <1>2 DEF NoJob
<1>6. 1 \in DOMAIN tx /\ \A j \in DOMAIN tx' :
        j + 1 \in DOMAIN tx /\ j + 1 # 1 /\ tx'[j] = tx[j + 1] /\ j \in Nat
  BY <1>1, <1>2, TailEntries
<1>7. ASSUME NEW m, t \in awaited, m \in Reading PROVE m = n
  BY <1>2, <1>7, OneReader DEF UnderLock, Inv
<1>8. OwnInv'
  <2>1. t \in awaited => tx[1].to \in {n} \cup Loose
    BY <1>6, <1>7 DEF Inv, AnswerInv, OnCable
  <2> QED
    BY <1>2, <1>3, <1>4, <1>5, <2>1, OwnFrame DEF Inv, AnswerInv, OwnInv
<1>9. \A m : m \in Reading /\ m # n => m \in Reading'
  BY <1>2, <1>3 DEF Reading, Others
<1>10. t \notin awaited => n \in Loose
  BY <1>2 DEF Inv, AnswerInv, OrphansLoose
<1>11. ASSUME NEW m, m \in Loose \/ m \in Reading, m = tx[1].to => m \in Loose
       PROVE  m \in Loose' \/ m \in Reading'
  BY <1>3, <1>9, <1>11
<1>12. OnCable'
  <2>1. ASSUME NEW i \in DOMAIN rx' PROVE rx'[i].id \in Loose' \/ rx'[i].id \in Reading'
    <3>1. rx[i].id = tx[1].to => rx[i].id \in Loose
      BY <1>2, <1>6, <2>1 DEF Inv, AnswerInv, Once
    <3> QED
      BY <1>2, <1>11, <2>1, <3>1 DEF Inv, AnswerInv, OnCable
  <2>2. ASSUME NEW j \in DOMAIN tx' PROVE tx'[j].to \in Loose' \/ tx'[j].to \in Reading'
    <3>1. tx[j + 1].to = tx[1].to => tx[j + 1].to \in Loose
      BY <1>6, <2>2 DEF Inv, AnswerInv, Once
    <3> QED
      BY <1>6, <1>11, <2>2, <3>1 DEF Inv, AnswerInv, OnCable
  <2> QED
    BY <2>1, <2>2 DEF OnCable
<1>13. Once'
  <2>1. ASSUME NEW i \in DOMAIN tx', NEW k \in DOMAIN tx', tx'[i].to = tx'[k].to
        PROVE  i = k \/ tx'[i].to \in Loose'
    BY <1>3, <1>6, <2>1 DEF Inv, AnswerInv, Once
  <2>2. ASSUME NEW i \in DOMAIN rx', NEW k \in DOMAIN tx', rx'[i].id = tx'[k].to
        PROVE  rx'[i].id \in Loose'
    BY <1>2, <1>3, <1>6, <2>2 DEF Inv, AnswerInv, Once
  <2>3. ASSUME NEW i \in DOMAIN rx', NEW k \in DOMAIN rx', rx'[i].id = rx'[k].id
        PROVE  i = k \/ rx'[i].id \in Loose'
    BY <1>2, <1>3, <2>3 DEF Inv, AnswerInv, Once
  <2> QED
    BY <2>1, <2>2, <2>3 DEF Once
<1> QED
  BY <1>8, <1>12, <1>13 DEF AnswerInv, OwnInv

\* The other steps of a send take from the cable at most.
LEMMA AnswerSend ==
  ASSUME Inv, NEW t \in Tasks, SendStep(t)
  PROVE  AnswerInv'
<1> DEFINE n == job[t].msg.id
<1>1. CASE Write(t)
  BY <1>1, AnswerWrite
<1>2. CASE Read(t)
  BY <1>2, AnswerRead
<1>3. CASE \/ Acquire(t) \/ WriteFails(t) \/ Deadline(t) \/ ReadFails(t)
           \/ ReopenBegin(t) \/ ReopenWithoutPort(t) \/ Reopened(t) \/ ReopenFails(t)
  <2>1. job \in [Tasks -> Jobs] /\ job[t] \in Jobs /\ job[t].stage # "none"
    BY <1>3 DEF Inv, LockInv, TypeOK, Acquire, WriteFails, Deadline, ReadFails, ReopenBegin,
       ReopenWithoutPort, Reopened, ReopenFails
  <2>2. /\ rx' \in {rx, <<>>} /\ tx' \in {tx, <<>>} /\ awaited' = awaited
        /\ abandoned' \in {abandoned, abandoned \cup {n}}
        /\ job[t].stage = "read" => n \in Loose'
    BY <1>3 DEF Acquire, WriteFails, Deadline, ReadFails, ReopenBegin, ReopenWithoutPort, Reopened,
       ReopenFails, OpenedPort, Resets, board, history, Loose
  <2>3. /\ Others(t) /\ abandoned \subseteq abandoned' /\ Loose \subseteq Loose'
    BY <2>1, <2>2, <1>3, LockSend DEF Enters, Works, SendStep, Loose, Inv, LockInv
  <2>4. \/ job'[t].stage = "none"
        \/ /\ job'[t].msg = job[t].msg
           /\ job'[t].stage = "back" => job'[t].line = Empty
    <3>1. CASE Acquire(t) \/ ReopenBegin(t)
      BY <3>1, <2>1 DEF Acquire, ReopenBegin, Stage, Jobs
    <3>2. CASE WriteFails(t) \/ ReadFails(t)
      BY <3>2, <2>1 DEF WriteFails, ReadFails, Raised, Jobs, NoJob
    <3>3. CASE Deadline(t)
      BY <3>3, <2>1 DEF Deadline, Jobs, NoJob
    <3>4. CASE ReopenWithoutPort(t) \/ ReopenFails(t)
      BY <3>4, <2>1 DEF ReopenWithoutPort, ReopenFails, Jobs, NoJob
    <3>5. CASE Reopened(t)
      BY <3>5, <2>1 DEF Reopened, Jobs, NoJob
    <3> QED
      BY <1>3, <3>1, <3>2, <3>3, <3>4, <3>5
  <2>5. t \notin awaited => n \in Loose
    BY <2>1 DEF Inv, AnswerInv, OrphansLoose
  <2>6. OwnInv'
    <3>1. t \notin awaited' /\ job'[t].stage # "none" => job'[t].msg.id \in Loose'
      BY <2>2, <2>3, <2>4, <2>5
    <3>2. t \in awaited' /\ job'[t].stage = "back" =>
            job'[t].line.to \in {job'[t].msg.id} \cup Loose'
      <4>1. Empty.to = 0 /\ 0 \in Loose'
        BY DEF Empty, Loose
      <4>2. job'[t].stage = "back" => job'[t].line = Empty
        BY <2>4
      <4> QED
        BY <4>1, <4>2
    <3>3. OwnInv /\ awaited' = awaited
      BY <2>2 DEF Inv, AnswerInv, OwnInv
    <3> QED
      BY <2>3, <3>1, <3>2, <3>3, OwnFrame
  <2>7. \A m : m \in Reading => m \in Reading' \/ m \in Loose'
    BY <2>2, <2>3 DEF Reading, Others, Inv, LockInv, TypeOK
  <2>8. CableInv'
    BY <2>2, <2>3, <2>7, CableLess DEF Inv, AnswerInv, CableInv
  <2> QED
    BY <2>6, <2>8 DEF AnswerInv, OwnInv, CableInv
<1> QED
  BY <1>1, <1>2, <1>3 DEF SendStep

LEMMA AnswerConnect ==
  ASSUME Inv, rx' \in {rx, <<>>}, tx' \in {tx, <<>>}, UNCHANGED <<job, awaited, abandoned>>
  PROVE  AnswerInv'
<1>1. Loose \subseteq Loose' /\ \A n : n \in Reading => n \in Reading'
  BY DEF Loose, Reading
<1>2. CableInv'
  BY <1>1, CableLess DEF Inv, AnswerInv, CableInv
<1>3. OwnInv'
  BY DEF Inv, AnswerInv, OwnInv, OrphansLoose, OwnAnswer, Loose
<1> QED
  BY <1>2, <1>3 DEF AnswerInv, OwnInv, CableInv

LEMMA AnswerSubmit ==
  ASSUME Inv, NEW t \in Tasks, NEW w, Submit(t, w), UNCHANGED <<holder, board, history>>
  PROVE  AnswerInv'
<1>1. Begins(t)
  BY LockSubmit DEF Inv, LockInv
<1>2. UNCHANGED <<rx, tx, abandoned>>
  BY DEF board, history
<1>3. OwnInv'
  BY <1>1, <1>2, OwnFrame DEF Inv, AnswerInv, OwnInv, Begins
<1>4. Loose \subseteq Loose' /\ \A n : n \in Reading => n \in Reading'
  BY <1>1, <1>2 DEF Loose, Reading, Begins, Others, Inv, LockInv, TypeOK
<1>5. CableInv'
  BY <1>2, <1>4, CableLess DEF Inv, AnswerInv, CableInv
<1> QED
  BY <1>3, <1>5 DEF AnswerInv, OwnInv, CableInv

LEMMA AnswerLeaves ==
  ASSUME Inv, NEW t \in Tasks, Returns(t) \/ CancelSend(t)
  PROVE  AnswerInv'
<1> DEFINE n == job[t].msg.id
<1>1. Leaves(t) /\ job \in [Tasks -> Jobs]
  BY LockLeaves DEF Inv, LockInv, TypeOK
<1>2. /\ UNCHANGED <<rx, tx>> /\ abandoned' \in {abandoned, abandoned \cup {n}}
      /\ job'[t].stage # "none" => job'[t].msg.id = n /\ n \in Loose'
      /\ job[t].stage = "read" => n \in Loose'
  BY <1>1 DEF Returns, Ended, CancelSend, board, Loose, NoJob
<1>3. OwnInv'
  BY <1>1, <1>2, OwnFrame DEF Inv, AnswerInv, OwnInv, Leaves
<1>4. Loose \subseteq Loose' /\ \A m : m \in Reading => m \in Reading' \/ m \in Loose'
  BY <1>1, <1>2 DEF Loose, Reading, Leaves, Others, Inv, LockInv, TypeOK
<1>5. CableInv'
  BY <1>2, <1>4, CableLess DEF Inv, AnswerInv, CableInv
<1> QED
  BY <1>3, <1>5 DEF AnswerInv, OwnInv, CableInv

LEMMA AnswerBoard ==
  ASSUME Inv, BoardBoots \/ \E w \in {"OK", "ADDR", "NO_TAG", "ERR"} : Execute(w)
  PROVE  AnswerInv'
<1>1. rx \in Seq(Message) /\ tx \in Seq(Line)
  BY DEF Inv, LockInv, TypeOK
<1>2. UNCHANGED <<job, awaited, abandoned>>
  BY DEF BoardBoots, Execute, history
<1>3. OwnInv' /\ Loose' = Loose /\ Reading' = Reading
  BY <1>2 DEF Inv, AnswerInv, OwnInv, OrphansLoose, OwnAnswer, Loose, Reading
<1>4. PICK e \in Line :
        /\ tx' \in {tx, Append(tx, e)}
        /\ \/ rx' = rx /\ e.to = 0
           \/ rx # <<>> /\ rx' = Tail(rx) /\ e.to = Head(rx).id
  <2>1. CASE BoardBoots
    BY <2>1, NullTypes DEF BoardBoots, Emitted, Banner
  <2>2. ASSUME NEW w \in {"OK", "ADDR", "NO_TAG", "ERR"}, Execute(w)
        PROVE  \E e \in Line :
                 /\ tx' \in {tx, Append(tx, e)} /\ e.to = Head(rx).id
                 /\ rx # <<>> /\ rx' = Tail(rx)
    <3>1. Head(rx) \in Message /\ rx # <<>>
      BY <1>1, <2>2 DEF Execute
    <3>2. [to |-> Head(rx).id, word |-> w] \in Line
      BY <3>1 DEF Line, Message, Answers
    <3> QED
      BY <2>2, <3>1, <3>2 DEF Execute, Emitted
  <2> QED
    BY <2>1, <2>2
<1>5. \A j \in DOMAIN tx' :
        \/ j \in DOMAIN tx /\ tx'[j] = tx[j]
        \/ j = Len(tx) + 1 /\ tx'[j] = e
  BY <1>1, <1>4, AppendEntries
<1>6. \/ rx' = rx /\ e.to = 0
      \/ /\ 1 \in DOMAIN rx /\ e.to = rx[1].id
         /\ \A i \in DOMAIN rx' :
              i + 1 \in DOMAIN rx /\ i + 1 # 1 /\ rx'[i] = rx[i + 1] /\ i \in Nat
  BY <1>1, <1>4, TailEntries
<1>7. 0 \in Loose
  BY DEF Loose
<1>8. OnCable'
  BY <1>3, <1>5, <1>6, <1>7 DEF Inv, AnswerInv, OnCable
<1>9. Once'
  <2>1. ASSUME NEW i \in DOMAIN rx', NEW k \in DOMAIN rx', rx'[i].id = rx'[k].id
        PROVE  i = k \/ rx'[i].id \in Loose
    BY <1>6, <2>1 DEF Inv, AnswerInv, Once
  <2>2. ASSUME NEW i \in DOMAIN rx', NEW j \in DOMAIN tx', rx'[i].id = tx'[j].to
        PROVE  rx'[i].id \in Loose
    BY <1>5, <1>6, <1>7, <2>2 DEF Inv, AnswerInv, Once
  <2>3. ASSUME NEW j \in DOMAIN tx', NEW k \in DOMAIN tx', tx'[j].to = tx'[k].to
        PROVE  j = k \/ tx'[j].to \in Loose
    BY <1>5, <1>6, <1>7, <2>3 DEF Inv, AnswerInv, Once
  <2> QED
    BY <1>3, <2>1, <2>2, <2>3 DEF Once
<1> QED
  BY <1>3, <1>8, <1>9 DEF AnswerInv, OwnInv

LEMMA AnswerNext == Inv /\ [Next]_vars => Inv'
<1> SUFFICES ASSUME Inv, [Next]_vars PROVE Inv'
  OBVIOUS
<1>1. LockInv'
  BY LockNext DEF Inv
<1>2. ASSUME NEW t \in Tasks, Calls(t) \/ Continue(t) PROVE AnswerInv'
  <2>1. \/ \E w : Submit(t, w) /\ UNCHANGED <<holder, board, history>>
        \/ Returns(t) \/ CancelSend(t)
        \/ UNCHANGED <<rx, tx, job, awaited, abandoned>>
    BY <1>2 DEF Calls, Connect, Wake, Signal, Frame, CancelFrame, Continue, Refused, Ping,
       PingReturns, HandshakeEnds, WakeReturns, WakeAgain, WakeDeadline, UseAddress, SendOkReturns,
       Sends, lineVars, board, history
  <2> QED
    BY <2>1, AnswerSubmit, AnswerLeaves, AnswerConnect
<1>3. ASSUME NEW t \in Tasks, Transport(t) PROVE AnswerInv'
  <2>1. CASE ConnectStep(t)
    BY <2>1, AnswerConnect DEF ConnectStep, ConnectOpened, ConnectFails, ConnectSettled,
       OpenedPort, Resets, board, history
  <2> QED
    BY <1>3, <2>1, AnswerSend DEF Transport
<1>4. ASSUME Around PROVE AnswerInv'
  <2>1. CASE Disconnect \/ BoardResets
    BY <2>1, AnswerConnect DEF Disconnect, BoardResets, Resets, history
  <2> QED
    BY <1>4, <2>1, AnswerBoard DEF Around
<1>5. ASSUME UNCHANGED vars PROVE AnswerInv'
  BY <1>5, AnswerConnect DEF vars, lineVars, board, history
<1> QED
  BY <1>1, <1>2, <1>3, <1>4, <1>5, Steps DEF Inv

LEMMA AnswerInit == Init => Inv
<1> SUFFICES ASSUME Init PROVE Inv
  OBVIOUS
<1>1. LockInv
  BY LockInit
<1>2. rx = <<>> /\ tx = <<>> /\ \A t \in Tasks : job[t].stage = "none"
  BY DEF Init, LineInit, NoJob
<1>3. OnCable /\ Once
  BY <1>2 DEF OnCable, Once
<1> QED
  BY <1>1, <1>2, <1>3 DEF Inv, AnswerInv, OrphansLoose, OwnAnswer

LEMMA SpecAnswers == Spec => []Inv
  BY AnswerInit, AnswerNext, PTL DEF Spec

\* SerialTransport.send: an awaited send gets its own answer, boot text, or the answer to a
\* send that was given up, sent twice or cancelled; the lock and the flush are enough.
THEOREM LineOwnAnswer == Spec => []OwnAnswer
<1>1. Inv => OwnAnswer
  BY DEF Inv, AnswerInv
<1> QED
  BY <1>1, SpecAnswers, PTL

-----------------------------------------------------------------------------
(* The address *)

\* A step that leaves the wakes alone.
LEMMA WakeFrame ==
  ASSUME Inv, WakeInv, NEW t \in Tasks, op[t] \notin {"wake", "wakepause", "woken"},
         op' \in {op, [op EXCEPT ![t] = op'[t]]}, op'[t] \notin {"wake", "wakepause", "woken"},
         Others(t), \A u \in Tasks \ {t} : u \in awaited' <=> u \in awaited,
         UNCHANGED <<alone, since, last_addr>>, sent' >= sent, sent' \in Nat,
         abandoned \subseteq abandoned'
  PROVE  WakeInv'
<1>1. /\ op \in [Tasks -> Ops] /\ alone \subseteq Tasks
      /\ since \in [Tasks -> Numbers] /\ sent \in Numbers
  BY DEF Inv, LockInv, TypeOK
<1>2. \A u \in Tasks \ {t} : op'[u] = op[u]
  BY <1>1
<1>3. Waking' = Waking /\ t \notin Waking
  BY <1>2 DEF Waking
<1>4. Loose \subseteq Loose'
  BY DEF Loose
<1>5. \A u \in alone : u \in Tasks /\ u # t
  BY <1>1, <1>3 DEF WakeInv
<1>6. \A u \in alone : since[u] <= sent'
  <2>1. ASSUME NEW u \in alone PROVE since[u] \in Nat /\ sent \in Nat /\ since[u] <= sent
    BY <1>1, LineBounds, <2>1 DEF WakeInv, Numbers
  <2> QED
    BY <2>1
<1>7. \A u \in alone : WakeSends(u) => WakeSends(u)'
  BY <1>5 DEF WakeSends, Others
<1> QED
  BY <1>2, <1>3, <1>4, <1>5, <1>6, <1>7 DEF WakeInv

\* A step of the line.
LEMMA WakeTransport ==
  ASSUME Inv, WakeInv, UNCHANGED opVars, UNCHANGED <<sent, awaited>>,
         abandoned \subseteq abandoned',
         \A u \in awaited :
           /\ job'[u].msg = job[u].msg
           /\ job'[u].stage = "sim" => job'[u] = job[u]
  PROVE  WakeInv'
<1>1. Waking' = Waking /\ Loose \subseteq Loose'
  BY DEF Waking, Loose, opVars
<1>2. \A u \in alone : WakeSends(u) => WakeSends(u)'
  BY DEF WakeSends, opVars
<1> QED
  BY <1>1, <1>2 DEF WakeInv, opVars

LEMMA WakeSendStep ==
  ASSUME Inv, WakeInv, NEW t \in Tasks, Transport(t)
  PROVE  WakeInv'
<1>1. job \in [Tasks -> Jobs] /\ job[t] \in Jobs /\ awaited \subseteq Tasks
  BY DEF Inv, LockInv, TypeOK
<1>2. CASE ConnectStep(t)
  BY <1>2, WakeTransport DEF Transport, ConnectStep, ConnectOpened, ConnectFails, ConnectSettled,
     count, history
<1>3. CASE SendStep(t)
  <2>1. UNCHANGED <<sent, awaited>> /\ abandoned \subseteq abandoned'
    BY <1>3 DEF SendStep, Acquire, Write, WriteFails, Read, Deadline, ReadFails, ReopenBegin,
       ReopenWithoutPort, Reopened, ReopenFails, count, history
  <2>2. Others(t)
    BY <1>3, LockSend DEF Enters, Works, Inv, LockInv
  <2>3. t \in awaited => job'[t].msg = job[t].msg /\ job'[t].stage # "sim"
    <3>1. CASE Acquire(t) \/ Write(t) \/ ReopenBegin(t)
      BY <3>1, <1>1 DEF Acquire, Write, ReopenBegin, Stage, Jobs
    <3>2. CASE WriteFails(t)
      BY <3>2, <1>1 DEF WriteFails, Raised, Jobs
    <3>3. CASE ReadFails(t)
      BY <3>3, <1>1 DEF ReadFails, Raised, Jobs
    <3>4. CASE Read(t)
      BY <3>4, <1>1 DEF Read, Jobs
    <3>5. CASE Deadline(t)
      BY <3>5, <1>1 DEF Deadline, Jobs
    <3>6. CASE Reopened(t)
      BY <3>6, <1>1 DEF Reopened, Jobs
    <3>7. CASE ReopenWithoutPort(t) \/ ReopenFails(t)
      BY <3>7, <1>1 DEF ReopenWithoutPort, ReopenFails, Jobs
    <3> QED
      BY <1>3, <3>1, <3>2, <3>3, <3>4, <3>5, <3>6, <3>7 DEF SendStep
  <2>4. \A u \in awaited :
          /\ job'[u].msg = job[u].msg
          /\ job'[u].stage = "sim" => job'[u] = job[u]
    BY <1>1, <2>2, <2>3 DEF Others
  <2> QED
    BY <1>3, <2>1, <2>4, WakeTransport DEF Transport
<1> QED
  BY <1>2, <1>3 DEF Transport

\* A WAKE goes out.
LEMMA WakeSubmit ==
  ASSUME Inv, NEW t \in Tasks, Sends(t, "WAKE")
  PROVE  /\ sent' = sent + 1 /\ sent \in Nat /\ t \in awaited' /\ job'[t].msg.id = sent + 1
         /\ job'[t].stage = "sim" => job'[t].line.to = job'[t].msg.id
         /\ abandoned' = abandoned
<1>1. job \in [Tasks -> Jobs] /\ sent \in Numbers
  BY DEF Inv, LockInv, TypeOK
<1>2. job'[t] = [NoJob EXCEPT
          !.msg = [id |-> sent + 1, word |-> "WAKE"],
          !.stage = IF sim THEN "sim" ELSE IF ser = "none" THEN "raised" ELSE "queued",
          !.line = IF sim THEN [to |-> sent + 1, word |-> "OK"] ELSE Empty]
  BY <1>1 DEF Sends, Submit
<1>3. job'[t].msg.id = sent + 1 /\ (job'[t].stage = "sim" => job'[t].line.to = sent + 1)
  BY <1>2 DEF NoJob
<1> QED
  BY <1>1, <1>3, LineBounds DEF Sends, Submit, history, Numbers

\* What a wake hears is its own, or loose.
LEMMA WakeHears ==
  ASSUME Inv, WakeInv, NEW t \in alone, op[t] = "wake", Ended(t)
  PROVE  Heard(t).to \in Loose \/ Heard(t).to > since[t]
<1>1. t \in Tasks /\ t \in awaited /\ job[t].msg.id > since[t]
  BY DEF Inv, LockInv, TypeOK, WakeInv, WakeSends
<1>2. CASE job[t].stage = "sim"
  BY <1>1, <1>2 DEF WakeInv, WakeSends, Heard
<1>3. CASE job[t].stage = "back"
  BY <1>1, <1>3 DEF Inv, AnswerInv, OwnAnswer, Loose, Heard
<1>4. CASE job[t].stage \notin {"sim", "back"}
  BY <1>4 DEF Heard, Empty, Loose
<1> QED
  BY <1>2, <1>3, <1>4

LEMMA WakeBegins ==
  ASSUME Inv, WakeInv, NEW t \in Tasks, Wake(t)
  PROVE  WakeInv'
<1>1. op \in [Tasks -> Ops] /\ alone \subseteq Tasks /\ since \in [Tasks -> Numbers]
  BY DEF Inv, LockInv, TypeOK
<1>2. /\ op[t] = "idle" /\ op' = [op EXCEPT ![t] = "wake"] /\ since' = [since EXCEPT ![t] = sent]
      /\ last_addr' = 0 /\ Sends(t, "WAKE")
  BY DEF Wake, Goto
<1>3. \A u \in alone : Waking = {u}
  BY DEF WakeInv
<1>4. alone' \subseteq {t} /\ (t \in alone' => Waking = {})
  <2>1. CASE Waking = {}
    BY <1>3, <2>1 DEF Wake
  <2>2. CASE Waking # {}
    BY <1>3, <2>2 DEF Wake
  <2> QED
    BY <2>1, <2>2
<1>5. Waking = {} => Waking' = {t}
  BY <1>1, <1>2 DEF Waking
<1>6. since'[t] = sent /\ 0 \in Loose'
  BY <1>1, <1>2 DEF Loose
<1>7. WakeSends(t)' /\ since'[t] <= sent'
  BY <1>2, <1>6, WakeSubmit DEF WakeSends
<1> QED
  BY <1>2, <1>4, <1>5, <1>6, <1>7 DEF WakeInv

LEMMA WakeGoesOn ==
  ASSUME Inv, WakeInv, NEW t \in Tasks,
         WakeReturns(t) \/ WakeAgain(t) \/ WakeDeadline(t) \/ UseAddress(t)
  PROVE  WakeInv'
<1>1. /\ op \in [Tasks -> Ops] /\ alone \subseteq Tasks
      /\ since \in [Tasks -> Numbers] /\ sent \in Numbers
  BY DEF Inv, LockInv, TypeOK
<1>2. t \in Waking
  BY DEF WakeReturns, WakeAgain, WakeDeadline, UseAddress, Waking
<1>3. alone \subseteq {t}
  BY <1>2 DEF WakeInv
<1>4. /\ op' = [op EXCEPT ![t] = op'[t]]
      /\ \/ op'[t] = "idle" /\ alone' = alone \ {t}
         \/ op'[t] # "idle" /\ UNCHANGED <<since, alone>>
  BY <1>1 DEF WakeReturns, WakeAgain, WakeDeadline, UseAddress, WakeOver, Goto
<1>5. CASE op'[t] = "idle"
  BY <1>3, <1>4, <1>5 DEF WakeInv
<1>6. CASE op'[t] # "idle" /\ WakeReturns(t)
  <2>1. op'[t] \in {"woken", "wakepause"}
    BY <1>1, <1>6 DEF WakeReturns, Goto
  <2>2. t \in alone => Waking' = {t}
    BY <1>1, <1>4, <2>1 DEF Waking, WakeInv
  <2>3. sent' = sent /\ Loose \subseteq Loose'
    BY <1>6 DEF WakeReturns, Returns, count, Loose
  <2>4. t \in alone => last_addr' \in Loose \/ last_addr' > since[t]
    BY <1>6, WakeHears DEF WakeReturns, Returns, Address, WakeInv
  <2> QED
    BY <1>3, <1>4, <1>6, <2>1, <2>2, <2>3, <2>4 DEF WakeInv
<1>7. CASE WakeAgain(t)
  <2>1. op'[t] = "wake" /\ Sends(t, "WAKE") /\ UNCHANGED <<last_addr, since, alone>>
    BY <1>1, <1>7 DEF WakeAgain, Goto
  <2>2. t \in alone => Waking' = {t}
    BY <1>1, <1>4, <2>1 DEF Waking, WakeInv
  <2>3. t \in alone => WakeSends(t)' /\ since'[t] <= sent'
    <3>1. t \in alone => since[t] \in Nat /\ since[t] <= sent
      BY <1>1, LineBounds DEF WakeInv, Numbers
    <3>2. sent \in Nat /\ sent' = sent + 1 /\ job'[t].msg.id = sent + 1
      BY <2>1, WakeSubmit
    <3>3. t \in alone => since'[t] < sent + 1
      BY <2>1, <3>1, <3>2
    <3> QED
      BY <2>1, <3>1, <3>2, <3>3, WakeSubmit DEF WakeSends
  <2>4. Loose' = Loose
    BY <2>1, WakeSubmit DEF Loose
  <2> QED
    BY <1>3, <2>1, <2>2, <2>3, <2>4 DEF WakeInv
<1>8. CASE WakeDeadline(t) \/ UseAddress(t)
  <2>1. op'[t] = "idle"
    BY <1>1, <1>8 DEF WakeDeadline, UseAddress, Goto
  <2> QED
    BY <1>5, <2>1
<1> QED
  BY <1>5, <1>6, <1>7, <1>8

LEMMA WakeElse ==
  ASSUME Inv, WakeInv, NEW t \in Tasks,
         \/ \E p \in {"COM", "SIM"} : Connect(t, p)
         \/ Signal(t) \/ Frame(t) \/ CancelFrame(t) \/ Refused(t) \/ Ping(t) \/ PingReturns(t)
         \/ HandshakeEnds(t) \/ SendOkReturns(t)
  PROVE  WakeInv'
<1>1. op \in [Tasks -> Ops] /\ sent \in Numbers /\ sent \in Nat
  BY LineBounds DEF Inv, LockInv, TypeOK, Numbers
<1>2. /\ op[t] \notin {"wake", "wakepause", "woken"}
      /\ op' = [op EXCEPT ![t] = op'[t]] /\ op'[t] \notin {"wake", "wakepause", "woken"}
      /\ UNCHANGED <<alone, since, last_addr>>
  BY <1>1 DEF Connect, Signal, Frame, CancelFrame, Refused, Ping, PingReturns, HandshakeEnds,
     SendOkReturns, Goto
<1>3. \/ \E w : Submit(t, w) /\ UNCHANGED <<holder, history>>
      \/ Returns(t) \/ CancelSend(t)
      \/ UNCHANGED <<job, awaited, sent, abandoned>>
  BY DEF Connect, ConnectBegin, Change, Signal, Frame, CancelFrame, Refused, Ping, PingReturns,
     HandshakeEnds, SendOkReturns, Sends, history, count
<1>4. /\ Others(t) /\ \A u \in Tasks \ {t} : u \in awaited' <=> u \in awaited
      /\ sent' \in {sent, sent + 1} /\ abandoned \subseteq abandoned'
  <2>1. ASSUME NEW w, Submit(t, w), UNCHANGED <<holder, history>>
        PROVE  Begins(t) /\ sent' = sent + 1 /\ abandoned' = abandoned
    BY <2>1, LockSubmit DEF Submit, history, Inv, LockInv
  <2>2. CASE Returns(t) \/ CancelSend(t)
    BY <2>2, LockLeaves DEF Returns, CancelSend, Leaves, count, Inv, LockInv
  <2>3. CASE UNCHANGED <<job, awaited, sent, abandoned>>
    BY <2>3 DEF Others
  <2> QED
    BY <1>3, <2>1, <2>2, <2>3 DEF Begins
<1>5. sent' >= sent /\ sent' \in Nat
  BY <1>1, <1>4
<1> QED
  BY <1>2, <1>4, <1>5, WakeFrame

LEMMA WakeNext == Inv /\ WakeInv /\ [Next]_vars => WakeInv'
<1> SUFFICES ASSUME Inv, WakeInv, [Next]_vars PROVE WakeInv'
  OBVIOUS
<1>1. ASSUME NEW t \in Tasks, Calls(t) PROVE WakeInv'
  BY <1>1, WakeBegins, WakeElse DEF Calls
<1>2. ASSUME NEW t \in Tasks, Continue(t) PROVE WakeInv'
  BY <1>2, WakeGoesOn, WakeElse DEF Continue
<1>3. ASSUME NEW t \in Tasks, Transport(t) PROVE WakeInv'
  BY <1>3, WakeSendStep
<1>4. CASE Around
  <2>1. UNCHANGED <<sent, awaited, job, abandoned, opVars>>
    BY <1>4 DEF Around, Disconnect, Change, BoardResets, BoardBoots, Execute, count, history
  <2> QED
    BY <2>1, WakeTransport
<1>5. CASE UNCHANGED vars
  BY <1>5, WakeTransport DEF vars, lineVars, count, history
<1> QED
  BY <1>1, <1>2, <1>3, <1>4, <1>5, Steps

\* operator.py: a procedure that wakes a wristband without another wake in the way connects to
\* the address of its own wake, although last_wristband_addr is one field read after an await.
THEOREM LineAddressIsOwn == Spec => []AddressIsOwn
<1>1. Init => WakeInv
  BY DEF Init, WakeInv
<1>2. Inv /\ WakeInv => AddressIsOwn
  BY DEF WakeInv, AddressIsOwn, Loose
<1> QED
  BY <1>1, <1>2, SpecAnswers, WakeNext, PTL DEF Spec

=============================================================================
