------------------------ MODULE WristbandLinkProofs ------------------------
(***************************************************************************)
(* Proofs about WristbandLink for any number of procedures, chunks,        *)
(* faults, cancels and toggles.                                            *)
(***************************************************************************)
EXTENDS WristbandLink, TLAPS

-----------------------------------------------------------------------------
(* The invariants *)

One(b) == IF b THEN 1 ELSE 0

\* Every trigger block that is set, and every switch under way, has a trigger behind it.
DueInv == due >= One(trigger) + One(starting)

\* A colour shown while the loop ends the one before was written over it.
NotifyInv == lit => (timer /\ ~expiring) \/ overlapped

\* A switch back that a BLE period has been asked for was asked by a visit; by the first,
\* while it is connected, only with a CTRL.
TellInv ==
  /\ link # Nobody => visits >= 1
  /\ mode = "BLE" /\ switch => visits >= 1
  /\ mode = "BLE" /\ switch /\ link # Nobody /\ visits = 1 => told

Early == {"idle", "wake", "verify", "scan", "rescan", "connecting", "use"}
Holding == {"use", "offset", "chunk", "face", "led", "close", "closing"}

\* A connection belongs to a task that has passed its connect; and as long as nothing was
\* left, the task of a connection the server knows of is still to disconnect it, over the
\* backend that made it.
LinkAt(t) ==
  /\ link = t => job[t].pc \notin Early \ {"use"}
  /\ ~left /\ link = t /\ client = t => job[t].pc \in Holding
  /\ ~left /\ (job[t].pc \in {"rescan", "connecting"} \/ (link = t /\ client = t))
       => chosen = "real"
LinkInv == \A t \in Sessions : LinkAt(t)

Whole(v) == [n \in Pieces |-> [at |-> n, of |-> v]]
Writers == {t \in Issues : t \in Using /\ job[t].n > 1}

\* What a task that uses its own client has written, or read of the embedding that is there.
Held(t) ==
  IF t \in Issues THEN \A k \in 1 .. job[t].n - 1 : emb[k] = t
  ELSE /\ job[t].pc = "chunk" => off = job[t].n
       /\ \E v \in Values \cup {Blank} :
            /\ \A n \in Pieces : emb[n] = v
            /\ \A k \in 1 .. job[t].n - 1 : job[t].buf[k] = [at |-> k, of |-> v]

\* The wristband holds a whole embedding unless a write was cut off or goes on; a task that
\* shares with nobody is alone, and has done all the pieces before the one it is at.
StoreInv ==
  \/ \E v \in Values \cup {Blank} : \A n \in Pieces : emb[n] = v
  \/ cut \/ Writers # {}
UseAt(t) ==
  /\ job[t].pc \in Early => job[t].n = 1
  /\ t \in Using \ shared => Using = {t}
  /\ t \in Using \ shared /\ link = t => Held(t)
ReadAt(t) ==
  At(t, "face") /\ t \notin shared => \E v \in Values \cup {Blank} : job[t].buf = Whole(v)
ReadInv == StoreInv /\ \A t \in Sessions : UseAt(t) /\ ReadAt(t)

-----------------------------------------------------------------------------
(* Types: the wristband, and the server over it *)

JobTyped == job \in [Tasks -> Job]
RadioTyped ==
  /\ mode \in {"ESPNOW", "BLE"} /\ starting \in BOOLEAN /\ ending \in BOOLEAN
  /\ adv \in BOOLEAN
  /\ link \in Sessions \cup {Nobody} /\ switch \in BOOLEAN /\ trigger \in BOOLEAN
  /\ told \in BOOLEAN
StoreTyped == emb \in [Pieces -> Values \cup {Blank}] /\ off \in Pieces
LedsTyped ==
  lit \in BOOLEAN /\ timer \in BOOLEAN /\ expiring \in BOOLEAN /\ overlapped \in BOOLEAN
CountTyped == faults \in 0 .. MaxFaults /\ due \in Int /\ visits \in Nat
BandTyped == RadioTyped /\ StoreTyped /\ LedsTyped /\ CountTyped
ServerTyped ==
  /\ is_mock \in BOOLEAN /\ real \in BOOLEAN /\ client \in Sessions \cup {Nobody}
  /\ state \in Values \cup {Blank}
  /\ current \in Sessions \cup {Nobody} /\ JobTyped
  /\ cancels \in 0 .. MaxCancels /\ toggles \in 0 .. MaxToggles
  /\ left \in BOOLEAN /\ shared \subseteq Sessions /\ cut \in BOOLEAN

LEMMA Halves == TypeOK <=> BandTyped /\ ServerTyped
  BY DEF TypeOK, BandTyped, RadioTyped, StoreTyped, LedsTyped, CountTyped, ServerTyped, JobTyped

LEMMA FirstPieces ==
  /\ 1 \in Pieces /\ BlankBand \in [Pieces -> Values \cup {Blank}]
  /\ NoPieces \in [Pieces -> Piece]
  BY BandBounds DEF Pieces, BlankBand, NoPieces, Piece

LEMMA NullJob == NoJob \in Job
  BY FirstPieces DEF NoJob, Job, Points

\* What a step may write into a job.
LEMMA JobFields ==
  ASSUME NEW j \in Job
  PROVE  /\ \A p \in Points : [j EXCEPT !.pc = p] \in Job
         /\ \A p \in Points, a \in BOOLEAN : [j EXCEPT !.pc = p, !.addressed = a] \in Job
         /\ \A p \in Points, a \in BOOLEAN : [j EXCEPT !.pc = p, !.again = a] \in Job
         /\ \A p \in Points, b \in [Pieces -> Piece] : [j EXCEPT !.pc = p, !.buf = b] \in Job
         /\ \A n \in Pieces : [j EXCEPT !.n = n] \in Job
  BY DEF Job

LEMMA JobRead ==
  ASSUME NEW j \in Job, NEW p \in Points, NEW b \in [Pieces -> Piece], NEW n \in Pieces,
         NEW a \in BOOLEAN
  PROVE  [j EXCEPT !.buf = b, !.n = n, !.pc = p, !.again = a] \in Job
  BY DEF Job

LEMMA TypeInit == Init => TypeOK
<1> SUFFICES ASSUME Init PROVE TypeOK
  OBVIOUS
<1>1. BandTyped
  <2>1. RadioTyped /\ LedsTyped
    BY DEF Init, BandInit, RadioTyped, LedsTyped
  <2>2. StoreTyped /\ CountTyped
    BY FirstPieces, BandBounds DEF Init, BandInit, StoreTyped, CountTyped
  <2> QED
    BY <2>1, <2>2 DEF BandTyped
<1>2. JobTyped
  BY NullJob DEF Init, JobTyped
<1>3. ServerTyped
  <2>1. cancels \in 0 .. MaxCancels /\ toggles \in 0 .. MaxToggles
    BY LinkBounds DEF Init
  <2> QED
    BY <1>2, <2>1 DEF Init, BackendInit, ServerTyped
<1> QED
  BY <1>1, <1>3, Halves

\* The wristband's own steps, and what a client does to it.
LEMMA BandSteps ==
  ASSUME BandTyped, NEW c \in Sessions \cup {Nobody},
         \/ Loop
         \/ Reboots
         \/ Connects(c) /\ UNCHANGED <<store, leds, faults, due, overlapped>>
         \/ Disconnects /\ (Fault \/ UNCHANGED faults) /\ UNCHANGED <<store, leds, due, overlapped>>
         \/ Controls /\ UNCHANGED <<store, leds, due, overlapped>>
         \/ (Notify \/ UNCHANGED <<leds, overlapped>>)
            /\ UNCHANGED <<radio, store, faults, due, calls>>
  PROVE  BandTyped'
<1> USE DEF BandTyped, radio, store, leds, calls
<1>0. faults' \in 0 .. MaxFaults
  <2>1. CASE Fault
    BY <2>1, BandBounds DEF Fault, CountTyped
  <2>2. CASE UNCHANGED faults
    BY <2>2 DEF CountTyped
  <2> QED
    BY <2>1, <2>2 DEF Loop, WakeUp, Consume, BleEntered, SwitchBack, AdvertisingTimeout, Leave,
       EnterEspnow, Expire, Expired, Reboots, Controls
<1>1. due' \in Int /\ visits' \in Nat
  <2>1. due' \in {due, due + 1, due - 1} /\ visits' \in {visits, visits + 1, 0}
    BY DEF Loop, WakeUp, Consume, BleEntered, SwitchBack, AdvertisingTimeout, Leave, EnterEspnow,
       Expire, Expired, Reboots, Connects, Disconnects, Controls
  <2> QED
    BY <2>1 DEF CountTyped
<1>2. StoreTyped'
  <2>1. UNCHANGED <<emb, off>> \/ (emb' = BlankBand /\ off' = 1)
    BY DEF Loop, WakeUp, BleEntered, SwitchBack, AdvertisingTimeout, Leave, EnterEspnow,
       Expire, Expired, Reboots
  <2> QED
    BY <2>1, FirstPieces DEF StoreTyped
<1>3. LedsTyped'
  <2>1. CASE UNCHANGED <<leds, overlapped>>
    BY <2>1 DEF LedsTyped
  <2>2. CASE Expire \/ Expired \/ Reboots \/ Notify
    BY <2>2 DEF Expire, Expired, Reboots, Notify, LedsTyped
  <2> QED
    BY <2>1, <2>2 DEF Loop, WakeUp, BleEntered, SwitchBack, AdvertisingTimeout, Leave, EnterEspnow
<1>4. RadioTyped'
  <2>1. CASE UNCHANGED radio /\ UNCHANGED told
    BY <2>1 DEF RadioTyped
  <2>2. CASE WakeUp
    BY <2>2 DEF WakeUp, Consume, RadioTyped
  <2>3. CASE BleEntered \/ Reboots
    BY <2>3 DEF BleEntered, Cleared, Reboots, RadioTyped
  <2>4. CASE EnterEspnow
    <3>1. switch' \in BOOLEAN
      BY <2>4 DEF EnterEspnow
    <3> QED
      BY <2>4, <3>1 DEF EnterEspnow, RadioTyped
  <2>5. CASE Connects(c) \/ Disconnects
    BY <2>5 DEF Connects, Disconnects, RadioTyped
  <2>6. CASE Controls
    BY <2>6 DEF Controls, RadioTyped
  <2>7. CASE SwitchBack \/ AdvertisingTimeout
    BY <2>7 DEF SwitchBack, AdvertisingTimeout, Leave, RadioTyped
  <2>8. CASE Expire \/ Expired
    BY <2>1, <2>8 DEF Expire, Expired
  <2>9. CASE Loop
    BY <2>2, <2>3, <2>4, <2>7, <2>8, <2>9 DEF Loop
  <2> QED
    BY <2>1, <2>3, <2>5, <2>6, <2>9
<1> QED
  BY <1>0, <1>1, <1>2, <1>3, <1>4 DEF CountTyped

\* One task's job changes, and stays a job.
Moves(t) == \E j \in Job : job' = [job EXCEPT ![t] = j]

LEMMA MovesTyped ==
  ASSUME JobTyped, NEW t \in Tasks, Moves(t)
  PROVE  JobTyped'
BY DEF JobTyped, Moves

LEMMA GotoMoves ==
  ASSUME JobTyped, NEW t \in Tasks, NEW p \in Points, Goto(t, p)
  PROVE  Moves(t)
<1>1. job[t] \in Job
  BY DEF JobTyped
<1>2. [job[t] EXCEPT !.pc = p] \in Job
  BY <1>1, JobFields
<1>3. job' = [job EXCEPT ![t] = [job[t] EXCEPT !.pc = p]]
  BY DEF Goto
<1> QED
  BY <1>2, <1>3 DEF Moves

LEMMA FailsMoves ==
  ASSUME NEW t \in Tasks, NEW b \in BOOLEAN, Fails(t, b)
  PROVE  Moves(t)
<1>1. Ending(b) \in Job
  BY NullJob, JobFields DEF Ending, Points
<1> QED
  BY <1>1 DEF Fails, Moves

LEMMA ConnectFailsMoves ==
  ASSUME NEW t \in Tasks, ConnectFails(t)
  PROVE  Moves(t)
<1>1. (t \in Issues) \in BOOLEAN
  OBVIOUS
<1> QED
  BY <1>1, FailsMoves DEF ConnectFails

LEMMA ClosedMoves ==
  ASSUME JobTyped, NEW t \in Tasks, Closed(t)
  PROVE  Moves(t)
<1>1. job[t] \in Job
  BY DEF JobTyped
<1> DEFINE p == IF job[t].again THEN "close" ELSE "reset"
<1>2. p \in Points
  BY DEF Points
<1>3. [job[t] EXCEPT !.pc = p, !.again = FALSE] \in Job
  BY <1>1, <1>2, JobFields
<1>4. job' = [job EXCEPT ![t] = [job[t] EXCEPT !.pc = p, !.again = FALSE]]
  BY DEF Closed
<1> QED
  BY <1>3, <1>4 DEF Moves

\* Every step of a task moves that task.
LEMMA ProcedureMoves ==
  ASSUME BandTyped, ServerTyped, NEW t \in Sessions, Procedure(t)
  PROVE  Moves(t)
<1> USE DEF ServerTyped, Points
<1>1. t \in Tasks /\ job[t] \in Job
  BY DEF Tasks, JobTyped
<1>2. CASE \E p \in Points : Goto(t, p)
  BY <1>1, <1>2, GotoMoves
<1>3. CASE \E b \in BOOLEAN : Fails(t, b)
  BY <1>1, <1>3, FailsMoves
<1>4. CASE ConnectFails(t)
  BY <1>1, <1>4, ConnectFailsMoves
<1>5. ASSUME NEW a \in BOOLEAN, ScanEnds(t, a)
      PROVE  Moves(t)
  <2>1. [job[t] EXCEPT !.pc = "connecting", !.addressed = a] \in Job
    BY <1>1, JobFields
  <2>2. job' = [job EXCEPT ![t] = [job[t] EXCEPT !.pc = "connecting", !.addressed = a]]
    BY <1>5 DEF ScanEnds
  <2> QED
    BY <2>1, <2>2 DEF Moves
<1>6. CASE Use(t)
  <2>1. CASE job' = [job EXCEPT ![t].pc = "face",
                                ![t].buf = [n \in Pieces |-> [at |-> n, of |-> state]]]
    <3>1. [n \in Pieces |-> [at |-> n, of |-> state]] \in [Pieces -> Piece]
      BY DEF Piece
    <3> DEFINE b == [n \in Pieces |-> [at |-> n, of |-> state]]
    <3>2. [job[t] EXCEPT !.pc = "face", !.buf = b] \in Job
      BY <1>1, <3>1, JobFields
    <3>3. job' = [job EXCEPT ![t] = [job[t] EXCEPT !.pc = "face", !.buf = b]]
      BY <2>1
    <3> QED
      BY <3>2, <3>3 DEF Moves
  <2> QED
    BY <1>2, <1>6, <2>1 DEF Use
<1>7. CASE WriteChunk(t)
  <2>1. CASE job' = [job EXCEPT ![t].n = @ + 1] /\ job[t].n # Chunks
    <3>1. job[t].n + 1 \in Pieces
      BY <1>1, <2>1, BandBounds DEF Job, Pieces
    <3>2. [job[t] EXCEPT !.n = job[t].n + 1] \in Job
      BY <1>1, <3>1, JobFields
    <3>3. job' = [job EXCEPT ![t] = [job[t] EXCEPT !.n = job[t].n + 1]]
      BY <2>1
    <3> QED
      BY <3>2, <3>3 DEF Moves
  <2> QED
    BY <1>2, <1>7, <2>1 DEF WriteChunk
<1>8. CASE ReadChunk(t)
  <2> DEFINE got == [job[t].buf EXCEPT ![job[t].n] = Got]
             blank == \A n \in Pieces : got[n].of = Blank
             m == IF job[t].n = Chunks THEN job[t].n ELSE job[t].n + 1
             p == IF job[t].n < Chunks THEN "offset" ELSE IF blank THEN "led" ELSE "face"
             a == job[t].n = Chunks /\ blank
  <2>1. got \in [Pieces -> Piece]
    <3>1. off \in Pieces /\ emb[off] \in Values \cup {Blank}
      BY DEF BandTyped, StoreTyped
    <3>2. Got \in Piece
      BY <3>1 DEF Got, Piece
    <3> QED
      BY <1>1, <3>2 DEF Job
  <2>2. m \in Pieces
    BY <1>1, BandBounds DEF Job, Pieces
  <2>3. p \in Points /\ a \in BOOLEAN
    OBVIOUS
  <2>4. [job[t] EXCEPT !.buf = got, !.n = m, !.pc = p, !.again = a] \in Job
    <3> HIDE DEF got, blank, m, p, a
    <3> QED
      BY <1>1, <2>1, <2>2, <2>3, JobRead
  <2>5. job' = [job EXCEPT ![t] = [job[t] EXCEPT !.buf = got, !.n = m, !.pc = p, !.again = a]]
    BY <1>8 DEF ReadChunk
  <2> QED
    BY <2>4, <2>5 DEF Moves
<1>9. CASE Forgotten(t)
  <2>1. [NoJob EXCEPT !.pc = "done"] \in Job
    BY NullJob, JobFields
  <2> QED
    BY <1>9, <2>1 DEF Forgotten, Moves
<1>10. CASE Led(t)
  <2>1. Ending(job[t].again) \in Job
    <3>1. job[t].again \in BOOLEAN
      BY <1>1 DEF Job
    <3> QED
      BY <3>1, NullJob, JobFields DEF Ending
  <2> QED
    BY <1>10, <2>1 DEF Led, Moves
<1> QED
  BY <1>2, <1>3, <1>4, <1>5, <1>6, <1>7, <1>8, <1>9, <1>10
  DEF Procedure, Start, Wake, WakeVerified, ConnectMock, NotFound, Connected, ConnectRaises,
      ReadOffset, UseRaises, Picture

LEMMA EndMoves ==
  ASSUME ServerTyped, NEW t \in Tasks, Close(t) \/ ClosingEnds(t) \/ Reset(t)
  PROVE  Moves(t)
<1> USE DEF ServerTyped, Points
<1>1. CASE Goto(t, "closing")
  BY <1>1, GotoMoves
<1>2. CASE Closed(t)
  BY <1>2, ClosedMoves
<1>3. CASE Reset(t)
  <2> DEFINE p == IF t = Console THEN "idle" ELSE "done"
  <2>1. [NoJob EXCEPT !.pc = p] \in Job
    BY NullJob, JobFields
  <2> QED
    BY <1>3, <2>1 DEF Reset, Moves
<1> QED
  BY <1>1, <1>2, <1>3 DEF Close, ClosingEnds

LEMMA JobNext ==
  ASSUME BandTyped, ServerTyped, [Next]_vars
  PROVE  JobTyped'
<1>1. CASE \E t \in Tasks : Moves(t)
  BY <1>1, MovesTyped DEF ServerTyped
<1>2. CASE Cancel
  BY <1>2, GotoMoves, <1>1 DEF Cancel, Tasks, Points, ServerTyped
<1>3. CASE UNCHANGED job
  BY <1>3 DEF ServerTyped, JobTyped
<1>4. CASE \E t \in Sessions : Procedure(t)
  BY <1>4, <1>1, ProcedureMoves DEF Tasks
<1>5. CASE \E t \in Tasks : Close(t) \/ ClosingEnds(t) \/ Reset(t)
  BY <1>5, <1>1, EndMoves
<1> QED
  BY <1>2, <1>3, <1>4, <1>5 DEF Next, Toggle, Band, LinkLost, AtRest, vars

LEMMA StoreNext ==
  ASSUME BandTyped, ServerTyped, NEW t \in Sessions, WriteChunk(t) \/ ReadOffset(t)
  PROVE  StoreTyped'
<1>1. job[t].n \in Pieces
  BY DEF ServerTyped, JobTyped, Tasks, Job
<1>2. CASE WriteChunk(t)
  <2>1. t \in Values
    BY <1>2, LinkNames DEF WriteChunk
  <2> QED
    BY <1>1, <1>2, <2>1 DEF WriteChunk, Put, BandTyped, StoreTyped
<1>3. CASE ReadOffset(t)
  BY <1>1, <1>3 DEF ReadOffset, Offset, BandTyped, StoreTyped
<1> QED
  BY <1>2, <1>3

LEMMA BandNext ==
  ASSUME BandTyped, ServerTyped, [Next]_vars
  PROVE  BandTyped'
<1> USE DEF bandVars
<1>1. CASE UNCHANGED bandVars
  BY <1>1 DEF BandTyped, RadioTyped, StoreTyped, LedsTyped, CountTyped, radio, store, leds, calls
<1>2. CASE Loop \/ Reboots
  BY <1>2, BandSteps
<1>3. CASE LinkLost
  BY <1>3, BandSteps DEF LinkLost
<1>4. ASSUME NEW t \in Tasks, Close(t) \/ ClosingEnds(t)
      PROVE  BandTyped'
  <2>1. CASE Controls /\ UNCHANGED <<store, leds, due, overlapped>>
    BY <2>1, BandSteps
  <2>2. CASE Disconnects /\ (Fault \/ UNCHANGED faults)
             /\ UNCHANGED <<store, leds, due, overlapped>>
    BY <2>2, BandSteps
  <2>3. CASE UNCHANGED <<radio, store, leds, due, overlapped, calls>> /\ (Fault \/ UNCHANGED faults)
    <3>1. faults' \in 0 .. MaxFaults
      BY <2>3, BandBounds DEF BandTyped, CountTyped, Fault
    <3> QED
      BY <2>3, <3>1 DEF BandTyped, RadioTyped, StoreTyped, LedsTyped, CountTyped, radio, store,
         leds,
         calls
  <2> QED
    BY <1>4, <2>1, <2>2, <2>3 DEF Close, ClosingEnds
<1>5. ASSUME NEW t \in Sessions, Wake(t)
      PROVE  BandTyped'
  <2>1. trigger' \in BOOLEAN
    BY <1>5 DEF Wake, BandTyped, RadioTyped
  <2>2. due' \in Int
    <3>1. due' \in {due, due + 1}
      BY <1>5 DEF Wake
    <3> QED
      BY <3>1 DEF BandTyped, CountTyped
  <2>3. RadioTyped'
    BY <1>5, <2>1 DEF Wake, BandTyped, RadioTyped, calls
  <2>4. StoreTyped' /\ LedsTyped' /\ CountTyped'
    BY <1>5, <2>2 DEF Wake, BandTyped, StoreTyped, LedsTyped, CountTyped, store, leds, calls
  <2> QED
    BY <2>3, <2>4 DEF BandTyped
<1>6. ASSUME NEW t \in Sessions, Connected(t) \/ Led(t)
      PROVE  BandTyped'
  BY <1>6, BandSteps DEF Connected, Led
<1>7. ASSUME NEW t \in Sessions, WriteChunk(t) \/ ReadOffset(t)
      PROVE  BandTyped'
  <2>1. UNCHANGED <<radio, leds, faults, due, calls, overlapped>>
    BY <1>7 DEF WriteChunk, ReadOffset
  <2>2. StoreTyped'
    BY <1>7, StoreNext
  <2> QED
    BY <2>1, <2>2 DEF BandTyped, RadioTyped, LedsTyped, CountTyped, radio, leds, calls
<1>8. ASSUME NEW t \in Sessions, Procedure(t)
      PROVE  \/ UNCHANGED bandVars \/ Wake(t) \/ Connected(t) \/ Led(t)
             \/ WriteChunk(t) \/ ReadOffset(t)
  BY <1>8 DEF Procedure, Start, WakeVerified, ConnectMock, NotFound, ScanEnds, ConnectRaises,
     Use, ReadChunk, UseRaises, Picture, Forgotten
<1> QED
  BY <1>1, <1>2, <1>3, <1>4, <1>5, <1>6, <1>7, <1>8
  DEF Next, Band, Reset, Cancel, Toggle, AtRest, vars

LEMMA ServerNext ==
  ASSUME BandTyped, ServerTyped, [Next]_vars
  PROVE  ServerTyped'
<1> USE DEF ServerTyped
<1>1. JobTyped'
  BY JobNext
<1>2. \/ UNCHANGED backend
      \/ \E t \in Sessions : (\E a \in BOOLEAN : ScanEnds(t, a)) \/ Use(t)
      \/ \E m \in BOOLEAN : Toggle(m)
  <2>1. ASSUME NEW t \in Sessions, Procedure(t)
        PROVE  UNCHANGED backend \/ (\E a \in BOOLEAN : ScanEnds(t, a)) \/ Use(t)
    BY <2>1 DEF Procedure, Start, Wake, WakeVerified, ConnectMock, NotFound, Connected,
       ConnectRaises, WriteChunk, ReadOffset, ReadChunk, UseRaises, Picture, Forgotten, Led
  <2> QED
    BY <2>1 DEF Next, Band, Close, ClosingEnds, Reset, Cancel, LinkLost, AtRest, vars
<1>3. /\ is_mock' \in BOOLEAN /\ real' \in BOOLEAN
      /\ client' \in Sessions \cup {Nobody} /\ state' \in Values \cup {Blank}
  <2>1. CASE UNCHANGED backend
    BY <2>1 DEF backend
  <2>2. ASSUME NEW t \in Sessions, NEW a \in BOOLEAN, ScanEnds(t, a)
        PROVE  client' = t /\ UNCHANGED <<is_mock, real, state>>
    BY <2>2 DEF ScanEnds, NewClient
  <2>3. ASSUME NEW t \in Sessions, Use(t)
        PROVE  UNCHANGED <<is_mock, real, client>> /\ state' \in {state} \cup Issues
    BY <2>3 DEF Use
  <2>4. ASSUME NEW m \in BOOLEAN, Toggle(m)
        PROVE  is_mock' = m /\ UNCHANGED <<real, client, state>>
    BY <2>4 DEF Toggle, SetMock
  <2> QED
    BY <1>2, <2>1, <2>2, <2>3, <2>4, LinkNames
<1>4. \/ UNCHANGED session \/ Cancel
      \/ \E t \in Sessions : Start(t)
      \/ \E t \in Tasks : Reset(t)
      \/ \E m \in BOOLEAN : Toggle(m)
  <2>1. ASSUME NEW t \in Sessions, Procedure(t)
        PROVE  UNCHANGED session \/ Start(t)
    BY <2>1 DEF Procedure, Wake, WakeVerified, ConnectMock, NotFound, ScanEnds, Connected,
       ConnectRaises, Use, WriteChunk, ReadOffset, ReadChunk, UseRaises, Picture, Forgotten, Led
  <2> QED
    BY <2>1 DEF Next, Band, Close, ClosingEnds, LinkLost, AtRest, vars
<1>5. current' \in Sessions \cup {Nobody}
  BY <1>4 DEF session, Cancel, Start, Reset, Toggle
<1>6. cancels' \in 0 .. MaxCancels /\ toggles' \in 0 .. MaxToggles
  <2>1. cancels' = cancels \/ (cancels < MaxCancels /\ cancels' = cancels + 1)
    BY <1>4 DEF session, Cancel, Start, Reset, Toggle
  <2>2. toggles' = toggles \/ (toggles < MaxToggles /\ toggles' = toggles + 1)
    BY <1>4 DEF session, Cancel, Start, Reset, Toggle
  <2> QED
    BY <2>1, <2>2, LinkBounds
<1>7. left' \in BOOLEAN
  <2>1. \/ UNCHANGED left
        \/ \E t \in Tasks : ClosingEnds(t)
        \/ \E t \in Sessions : Forgotten(t)
        \/ \E m \in BOOLEAN : Toggle(m)
    <3>1. ASSUME NEW t \in Sessions, Procedure(t)
          PROVE  UNCHANGED left \/ Forgotten(t)
      BY <3>1 DEF Procedure, Start, Wake, WakeVerified, ConnectMock, NotFound, ScanEnds, Connected,
         ConnectRaises, Use, WriteChunk, ReadOffset, ReadChunk, UseRaises, Picture, Led
    <3> QED
      BY <3>1 DEF Next, Band, Close, Reset, Cancel, LinkLost, AtRest, vars
  <2>2. ASSUME NEW t \in Tasks, ClosingEnds(t)
        PROVE  left' \in BOOLEAN
    BY <2>2 DEF ClosingEnds
  <2>3. ASSUME NEW t \in Sessions, Forgotten(t)
        PROVE  left' \in BOOLEAN
    BY <2>3 DEF Forgotten
  <2>4. ASSUME NEW m \in BOOLEAN, Toggle(m)
        PROVE  left' \in BOOLEAN
    BY <2>4 DEF Toggle
  <2> QED
    BY <2>1, <2>2, <2>3, <2>4
<1>8. shared' \subseteq Sessions
  <2>1. UNCHANGED shared \/ (\E t \in Sessions : Use(t) \/ WriteChunk(t) \/ ReadChunk(t))
    <3>1. ASSUME NEW t \in Sessions, Procedure(t)
          PROVE  UNCHANGED shared \/ Use(t) \/ WriteChunk(t) \/ ReadChunk(t)
      BY <3>1 DEF Procedure, Start, Wake, WakeVerified, ConnectMock, NotFound, ScanEnds, Connected,
         ConnectRaises, ReadOffset, UseRaises, Picture, Forgotten, Led, uses
    <3> QED
      BY <3>1 DEF Next, Band, Close, ClosingEnds, Reset, Cancel, Toggle, LinkLost, AtRest, vars,
         uses
  <2>2. ASSUME NEW t \in Sessions, Use(t)
        PROVE  shared' \subseteq Sessions
    BY <2>2 DEF Use, Using
  <2>3. ASSUME NEW t \in Sessions, WriteChunk(t) \/ ReadChunk(t)
        PROVE  shared' \subseteq Sessions
    BY <2>3 DEF WriteChunk, ReadChunk, Strays
  <2> QED
    BY <2>1, <2>2, <2>3
<1>9. cut' \in BOOLEAN
  <2>1. UNCHANGED cut \/ (\E t \in Sessions : WriteChunk(t) \/ UseRaises(t))
    <3>1. ASSUME NEW t \in Sessions, Procedure(t)
          PROVE  UNCHANGED cut \/ WriteChunk(t) \/ UseRaises(t)
      BY <3>1 DEF Procedure, Start, Wake, WakeVerified, ConnectMock, NotFound, ScanEnds, Connected,
         ConnectRaises, Use, ReadOffset, ReadChunk, Picture, Forgotten, Led, uses
    <3> QED
      BY <3>1 DEF Next, Band, Close, ClosingEnds, Reset, Cancel, Toggle, LinkLost, AtRest, vars,
         uses
  <2>2. ASSUME NEW t \in Sessions, WriteChunk(t)
        PROVE  cut' \in BOOLEAN
    <3>1. cut' = (t \in shared') \/ cut' = cut
      BY <2>2 DEF WriteChunk
    <3>2. (t \in shared') \in BOOLEAN
      OBVIOUS
    <3> QED
      BY <3>1, <3>2
  <2>3. ASSUME NEW t \in Sessions, UseRaises(t)
        PROVE  cut' \in BOOLEAN
    <3>1. cut' = (cut \/ (t \in Issues /\ job[t].n > 1))
      BY <2>3 DEF UseRaises
    <3>2. CASE t \in Issues /\ job[t].n > 1
      BY <3>1, <3>2
    <3>3. CASE ~(t \in Issues /\ job[t].n > 1)
      BY <3>1, <3>3
    <3> QED
      BY <3>2, <3>3
  <2> QED
    BY <2>1, <2>2, <2>3
<1> QED
  BY <1>1, <1>2, <1>3, <1>4, <1>5, <1>6, <1>7, <1>8, <1>9

\* Every variable keeps its type.
THEOREM LinkTypeOK == Spec => []TypeOK
<1>1. TypeOK /\ [Next]_vars => TypeOK'
  <2> SUFFICES ASSUME TypeOK, [Next]_vars PROVE TypeOK'
    OBVIOUS
  <2>1. BandTyped' /\ ServerTyped'
    BY Halves, BandNext, ServerNext
  <2> QED
    BY <2>1 DEF TypeOK, BandTyped, RadioTyped, StoreTyped, LedsTyped, CountTyped, ServerTyped,
       JobTyped
<1> QED
  BY <1>1, TypeInit, PTL DEF Spec

-----------------------------------------------------------------------------
(* One switch to BLE per trigger *)

LEMMA DueNext ==
  ASSUME BandTyped, DueInv, [Next]_vars
  PROVE  DueInv'
<1> USE DEF DueInv, One
<1>0. due \in Int /\ trigger \in BOOLEAN /\ starting \in BOOLEAN
  BY DEF BandTyped, CountTyped, RadioTyped
<1>1. CASE UNCHANGED <<trigger, starting, due>>
  BY <1>1
<1>2. ASSUME NEW t \in Sessions, Wake(t)
      PROVE  DueInv'
  <2>1. starting' = starting
    BY <1>2 DEF Wake
  <2>2. CASE trigger' = TRUE /\ due' = due + 1
    BY <1>0, <2>1, <2>2
  <2>3. CASE UNCHANGED <<trigger, due>>
    BY <2>1, <2>3
  <2> QED
    BY <1>2, <2>2, <2>3 DEF Wake
<1>3. CASE WakeUp
  <2>1. trigger /\ ~starting /\ starting' = TRUE
    BY <1>3 DEF WakeUp, Looping
  <2>2. (trigger' = FALSE /\ due' = due) \/ (trigger' = trigger /\ due' = due + 1)
    BY <1>3 DEF WakeUp, Consume
  <2>3. One(trigger) = 1 /\ One(starting) = 0 /\ One(starting') = 1
    BY <2>1
  <2>4. \/ One(trigger') = 0 /\ due' = due
        \/ One(trigger') = 1 /\ due' = due + 1
    BY <2>1, <2>2
  <2>5. due >= 1
    BY <1>0, <2>3
  <2>6. due' >= One(trigger') + One(starting')
    <3> HIDE DEF One
    <3> QED
      BY <1>0, <2>3, <2>4, <2>5
  <2> QED
    BY <2>6
<1>4. CASE BleEntered
  BY <1>0, <1>4 DEF BleEntered
<1>5. CASE Reboots
  BY <1>0, <1>5 DEF Reboots
<1>6. \/ UNCHANGED <<trigger, starting, due>>
      \/ WakeUp \/ BleEntered \/ Reboots
      \/ \E t \in Sessions : Wake(t)
  <2>1. CASE UNCHANGED bandVars
    BY <2>1 DEF bandVars, radio
  <2>2. CASE UNCHANGED <<radio, due>>
    BY <2>2 DEF radio
  <2>3. ASSUME NEW t \in Tasks, Close(t) \/ ClosingEnds(t)
        PROVE  UNCHANGED <<trigger, starting, due>>
    BY <2>3 DEF Close, ClosingEnds, Controls, Disconnects, radio
  <2>4. ASSUME NEW t \in Sessions, Connected(t)
        PROVE  UNCHANGED <<trigger, starting, due>>
    BY <2>4 DEF Connected, Connects
  <2>5. CASE LinkLost
    BY <2>5 DEF LinkLost, Disconnects
  <2>6. CASE Band
    BY <2>6 DEF Band, Loop, SwitchBack, AdvertisingTimeout, Leave, EnterEspnow, Expire, Expired,
       radio
  <2>7. ASSUME NEW t \in Sessions, Procedure(t)
        PROVE  UNCHANGED bandVars \/ UNCHANGED <<radio, due>> \/ Wake(t) \/ Connected(t)
    BY <2>7 DEF Procedure, Start, WakeVerified, ConnectMock, NotFound, ScanEnds, ConnectRaises, Use,
        WriteChunk, ReadOffset, ReadChunk, UseRaises, Picture, Forgotten, Led
  <2> QED
    BY <2>1, <2>2, <2>3, <2>4, <2>5, <2>6, <2>7 DEF Next, Reset, Cancel, Toggle, AtRest, vars
<1> QED
  BY <1>1, <1>2, <1>3, <1>4, <1>5, <1>6

\* A wristband switches to BLE at most once per trigger that was written or that it could
\* not clear, whatever the interrupt, the poll, a reboot and the procedures do.
THEOREM LinkOneEntryPerWake == Spec => []OneEntryPerWake
<1>1. Init => DueInv
  BY DEF Init, BandInit, DueInv, One
<1>2. TypeOK /\ DueInv /\ [Next]_vars => DueInv'
  BY DueNext, Halves
<1>3. TypeOK /\ DueInv => OneEntryPerWake
  <2>1. ASSUME due \in Int, DueInv
        PROVE  due >= 0
    BY <2>1 DEF DueInv, One
  <2> QED
    BY <2>1 DEF TypeOK, OneEntryPerWake
<1> QED
  BY <1>1, <1>2, <1>3, LinkTypeOK, PTL DEF Spec

-----------------------------------------------------------------------------
(* A notification has its timer *)

LEMMA NotifyNext ==
  ASSUME NotifyInv, [Next]_vars
  PROVE  NotifyInv'
<1> USE DEF NotifyInv
<1>1. CASE UNCHANGED <<leds, overlapped>>
  BY <1>1 DEF leds
<1>2. CASE Expire \/ Reboots
  BY <1>2 DEF Expire, Reboots
<1>3. CASE Expired
  BY <1>3 DEF Expired
<1>4. CASE Notify
  BY <1>4 DEF Notify
<1>5. UNCHANGED <<leds, overlapped>> \/ Expire \/ Reboots \/ Expired \/ Notify
  <2>1. CASE UNCHANGED bandVars
    BY <2>1 DEF bandVars
  <2>2. CASE Band
    BY <2>2 DEF Band, Loop, WakeUp, BleEntered, SwitchBack, AdvertisingTimeout, Leave, EnterEspnow
  <2>3. ASSUME NEW t \in Sessions, Procedure(t)
        PROVE  UNCHANGED bandVars \/ UNCHANGED <<leds, overlapped>> \/ Notify
    BY <2>3
    DEF Procedure, Start, Wake, WakeVerified, ConnectMock, NotFound, ScanEnds, Connected,
        ConnectRaises, Use, WriteChunk, ReadOffset, ReadChunk, UseRaises, Picture, Forgotten, Led
  <2>4. ASSUME NEW t \in Tasks, Close(t) \/ ClosingEnds(t) \/ Reset(t)
        PROVE  UNCHANGED bandVars \/ UNCHANGED <<leds, overlapped>>
    BY <2>4 DEF Close, ClosingEnds, Reset
  <2> QED
    BY <2>1, <2>2, <2>3, <2>4 DEF Next, Cancel, Toggle, LinkLost, AtRest, vars
<1> QED
  BY <1>1, <1>2, <1>3, <1>4, <1>5

\* A notification that is shown has its timer running, or was written over one that ended.
THEOREM LinkNotifyIsTimed == Spec => []NotifyIsTimed
<1>1. Init => NotifyInv
  BY DEF Init, BandInit, NotifyInv
<1>2. NotifyInv => NotifyIsTimed
  BY DEF NotifyInv, NotifyIsTimed
<1> QED
  BY <1>1, <1>2, NotifyNext, PTL DEF Spec

-----------------------------------------------------------------------------
(* Nothing stays connected *)

\* Where a step takes its task, the jobs of the others untouched.
Steps(t, P) == job'[t].pc \in P /\ \A s \in Tasks \ {t} : job'[s] = job[s]

LEMMA PcSteps ==
  ASSUME JobTyped, NEW t \in Tasks
  PROVE  /\ \A p \in Points : Goto(t, p) => Steps(t, {p})
         /\ \A b \in BOOLEAN : Fails(t, b) => Steps(t, {"close"})
         /\ ConnectFails(t) => Steps(t, {"close"})
         /\ Closed(t) => Steps(t, {"close", "reset"})
<1> USE DEF JobTyped, Steps, Job
<1>1. ASSUME NEW j, job' = [job EXCEPT ![t] = j]
      PROVE  job'[t] = j /\ \A s \in Tasks \ {t} : job'[s] = job[s]
  BY <1>1
<1>2. ASSUME NEW p \in Points, Goto(t, p)
      PROVE  Steps(t, {p})
  BY <1>2 DEF Goto
<1>3. ASSUME NEW b \in BOOLEAN, Fails(t, b)
      PROVE  Steps(t, {"close"})
  <2>1. Ending(b).pc = "close"
    BY DEF Ending, NoJob
  <2> QED
    BY <1>1, <1>3, <2>1 DEF Fails
<1>4. ASSUME ConnectFails(t)
      PROVE  Steps(t, {"close"})
  <2>1. (t \in Issues) \in BOOLEAN
    OBVIOUS
  <2> QED
    BY <1>3, <1>4, <2>1 DEF ConnectFails
<1>5. ASSUME Closed(t)
      PROVE  Steps(t, {"close", "reset"})
  BY <1>5 DEF Closed
<1> QED
  BY <1>2, <1>3, <1>4, <1>5

LEMMA ProcedureSteps ==
  ASSUME JobTyped, NEW t \in Sessions
  PROVE  /\ Start(t) => Steps(t, {"wake"})
         /\ Wake(t) => Steps(t, {"verify", "close"})
         /\ WakeVerified(t) => Steps(t, {"scan", "close"})
         /\ ConnectMock(t) => Steps(t, {"use"})
         /\ NotFound(t) => Steps(t, {"close"})
         /\ \A a \in BOOLEAN : ScanEnds(t, a) => Steps(t, {"connecting"})
         /\ Connected(t) => Steps(t, {"use", "close"})
         /\ ConnectRaises(t) => Steps(t, {"rescan", "close"})
         /\ Use(t) => Steps(t, {"led", "face", "chunk", "offset"})
         /\ WriteChunk(t) => Steps(t, {"led", "chunk"})
         /\ ReadOffset(t) => Steps(t, {"chunk"})
         /\ ReadChunk(t) => Steps(t, {"offset", "led", "face"})
         /\ UseRaises(t) => Steps(t, {"close"})
         /\ Picture(t) => Steps(t, {"led"})
         /\ Forgotten(t) => Steps(t, {"done"})
         /\ Led(t) => Steps(t, {"close"})
         /\ Close(t) => Steps(t, {"closing", "close", "reset"})
         /\ ClosingEnds(t) => Steps(t, {"close", "reset"})
         /\ Reset(t) => Steps(t, {"done"})
<1>0. t \in Tasks
  BY DEF Tasks
<1>1. /\ Start(t) => Steps(t, {"wake"})
      /\ Wake(t) => Steps(t, {"verify", "close"})
      /\ WakeVerified(t) => Steps(t, {"scan", "close"})
      /\ ConnectMock(t) => Steps(t, {"use"})
      /\ NotFound(t) => Steps(t, {"close"})
  BY <1>0, PcSteps DEF Start, Wake, WakeVerified, ConnectMock, NotFound, Points, Steps
<1>2. /\ Connected(t) => Steps(t, {"use", "close"})
      /\ ConnectRaises(t) => Steps(t, {"rescan", "close"})
      /\ ReadOffset(t) => Steps(t, {"chunk"})
      /\ UseRaises(t) => Steps(t, {"close"})
      /\ Picture(t) => Steps(t, {"led"})
  BY <1>0, PcSteps DEF Connected, ConnectRaises, ReadOffset, UseRaises, Picture, Points, Steps
<1>3. /\ Close(t) => Steps(t, {"closing", "close", "reset"})
      /\ ClosingEnds(t) => Steps(t, {"close", "reset"})
  BY <1>0, PcSteps DEF Close, ClosingEnds, Points, Steps
<1>4. \A a \in BOOLEAN : ScanEnds(t, a) => Steps(t, {"connecting"})
  BY <1>0 DEF ScanEnds, Steps, JobTyped, Job
<1>5. Use(t) => Steps(t, {"led", "face", "chunk", "offset"})
  BY <1>0 DEF Use, Goto, Steps, JobTyped, Job
<1>6. WriteChunk(t) => Steps(t, {"led", "chunk"})
  BY <1>0 DEF WriteChunk, At, Goto, Steps, JobTyped, Job
<1>7. ReadChunk(t) => Steps(t, {"offset", "led", "face"})
  <2> SUFFICES ASSUME ReadChunk(t) PROVE Steps(t, {"offset", "led", "face"})
    OBVIOUS
  <2> DEFINE got == [job[t].buf EXCEPT ![job[t].n] = Got]
             blank == \A n \in Pieces : got[n].of = Blank
             m == IF job[t].n = Chunks THEN job[t].n ELSE job[t].n + 1
             p == IF job[t].n < Chunks THEN "offset" ELSE IF blank THEN "led" ELSE "face"
             a == job[t].n = Chunks /\ blank
  <2>1. p \in {"offset", "led", "face"}
    OBVIOUS
  <2>2. job' = [job EXCEPT ![t] = [job[t] EXCEPT !.buf = got, !.n = m, !.pc = p, !.again = a]]
    BY DEF ReadChunk
  <2> HIDE DEF got, blank, m, p, a
  <2> QED
    BY <1>0, <2>1, <2>2 DEF Steps, JobTyped, Job
<1>8. Forgotten(t) => Steps(t, {"done"})
  BY <1>0 DEF Forgotten, NoJob, Steps, JobTyped, Job
<1>9. Led(t) => Steps(t, {"close"})
  BY <1>0 DEF Led, Ending, NoJob, Steps, JobTyped, Job
<1>10. Reset(t) => Steps(t, {"done"})
  <2>1. t # Console
    BY LinkNames DEF Sessions
  <2> QED
    BY <1>0, <2>1 DEF Reset, NoJob, Steps, JobTyped, Job
<1> QED
  BY <1>1, <1>2, <1>3, <1>4, <1>5, <1>6, <1>7, <1>8, <1>9, <1>10

\* A step of t that leaves the connection as it is.
LEMMA LinkKept ==
  ASSUME TypeOK, LinkInv, NEW t \in Sessions, NEW P,
         Steps(t, P), UNCHANGED <<link, client, chosen>>, left' \in BOOLEAN, left => left',
         P \cap Early \subseteq {"use"} \/ link # t,
         P \subseteq Holding \/ ~(link = t /\ client = t),
         ~left' /\ P \cap {"rescan", "connecting"} # {} => chosen = "real"
  PROVE  LinkInv'
<1> SUFFICES ASSUME NEW s \in Sessions PROVE LinkAt(s)'
  BY DEF LinkInv
<1>1. LinkAt(s)
  BY DEF LinkInv
<1>2. CASE s = t
  BY <1>1, <1>2 DEF LinkAt, Steps
<1>3. CASE s # t
  <2>1. job'[s] = job[s]
    BY <1>3 DEF Steps, Tasks
  <2> QED
    BY <1>1, <2>1 DEF LinkAt
<1> QED
  BY <1>2, <1>3

LEMMA LinkProcedure ==
  ASSUME TypeOK, LinkInv, NEW t \in Sessions, Procedure(t)
  PROVE  LinkInv'
<1> USE DEF Early, Holding, At
<1>0. JobTyped /\ LinkAt(t) /\ left \in BOOLEAN /\ t # Nobody /\ t \in Tasks
  BY LinkNames DEF TypeOK, JobTyped, LinkInv, Sessions, Tasks
<1>1. UNCHANGED backend => UNCHANGED <<client, chosen>>
  BY DEF backend, chosen
<1>2. CASE Start(t) \/ Wake(t) \/ WakeVerified(t) \/ ConnectMock(t)
  <2>1. link # t /\ UNCHANGED <<link, backend, left>>
    BY <1>0, <1>2 DEF LinkAt, Start, Wake, WakeVerified, ConnectMock, bandVars, radio
  <2>2. PICK P : Steps(t, P) /\ P \cap {"rescan", "connecting"} = {}
    BY <1>0, <1>2, ProcedureSteps
  <2> QED
    BY <1>0, <1>1, <2>1, <2>2, LinkKept
<1>3. CASE NotFound(t) \/ ConnectRaises(t)
  <2>1. link # t /\ UNCHANGED <<link, backend, left>>
    BY <1>0, <1>3 DEF LinkAt, NotFound, Scanning, ConnectRaises, bandVars, radio
  <2>2. Steps(t, {"rescan", "close"})
    BY <1>0, <1>3, ProcedureSteps DEF Steps
  <2>3. NotFound(t) => Steps(t, {"close"})
    BY <1>0, ProcedureSteps
  <2>4. CASE NotFound(t)
    BY <1>0, <1>1, <2>1, <2>3, <2>4, LinkKept
  <2>5. CASE ConnectRaises(t)
    <3>1. ~left => chosen = "real"
      BY <1>0, <2>5 DEF LinkAt, ConnectRaises
    <3> QED
      BY <1>0, <1>1, <2>1, <2>2, <3>1, LinkKept
  <2> QED
    BY <1>3, <2>4, <2>5
<1>4. ASSUME NEW a \in BOOLEAN, ScanEnds(t, a)
      PROVE  LinkInv'
  <2>1. link # t /\ UNCHANGED <<link, left>> /\ client' = t
    BY <1>0, <1>4 DEF LinkAt, ScanEnds, Scanning, NewClient, bandVars, radio
  <2>2. chosen' = chosen
    BY <1>4 DEF ScanEnds, NewClient, chosen
  <2>3. Steps(t, {"connecting"})
    BY <1>0, <1>4, ProcedureSteps
  <2>4. ~left => chosen = "real"
    BY <1>0, <1>4 DEF LinkAt, ScanEnds, Scanning
  <2> SUFFICES ASSUME NEW s \in Sessions PROVE LinkAt(s)'
    BY DEF LinkInv
  <2>5. CASE s = t
    BY <2>1, <2>2, <2>3, <2>4, <2>5 DEF LinkAt, Steps
  <2>6. CASE s # t
    <3>1. job'[s] = job[s] /\ LinkAt(s)
      BY <2>3, <2>6 DEF Steps, LinkInv, Tasks
    <3> QED
      BY <2>1, <2>2, <2>6, <3>1 DEF LinkAt
  <2> QED
    BY <2>5, <2>6
<1>5. CASE Connected(t)
  <2>1. link' = t /\ UNCHANGED <<left, client, chosen>>
    BY <1>1, <1>5 DEF Connected, Connects, backend
  <2>2. Steps(t, {"use", "close"})
    BY <1>0, <1>5, ProcedureSteps
  <2>3. client = t => job'[t].pc = "use"
    BY <1>0, <1>5 DEF Connected, Goto, JobTyped, Job
  <2>4. ~left => chosen = "real"
    BY <1>0, <1>5 DEF LinkAt, Connected
  <2> SUFFICES ASSUME NEW s \in Sessions PROVE LinkAt(s)'
    BY DEF LinkInv
  <2>5. CASE s = t
    BY <2>1, <2>2, <2>3, <2>4, <2>5 DEF LinkAt, Steps
  <2>6. CASE s # t
    <3>1. job'[s] = job[s] /\ LinkAt(s)
      BY <2>2, <2>6 DEF Steps, LinkInv, Tasks
    <3> QED
      BY <2>1, <2>6, <3>1 DEF LinkAt
  <2> QED
    BY <2>5, <2>6
<1>6. CASE Use(t) \/ WriteChunk(t) \/ ReadOffset(t) \/ ReadChunk(t) \/ UseRaises(t) \/ Picture(t)
           \/ Led(t)
  <2>1. UNCHANGED <<link, left, client, is_mock, real>>
    BY <1>6 DEF Use, WriteChunk, ReadOffset, ReadChunk, UseRaises, Picture, Led, bandVars, radio,
       backend
  <2>2. chosen' = chosen
    BY <2>1 DEF chosen
  <2>3. Steps(t, {"led", "face", "chunk", "offset", "close"})
    BY <1>0, <1>6, ProcedureSteps DEF Steps
  <2> QED
    BY <1>0, <2>1, <2>2, <2>3, LinkKept
<1>7. CASE Forgotten(t)
  <2>1. UNCHANGED <<link, client, chosen>> /\ left' = (left \/ link # Nobody)
    BY <1>1, <1>7 DEF Forgotten, bandVars, radio
  <2>2. Steps(t, {"done"})
    BY <1>0, <1>7, ProcedureSteps
  <2> SUFFICES ASSUME NEW s \in Sessions PROVE LinkAt(s)'
    BY DEF LinkInv
  <2>3. CASE link = Nobody
    BY <2>1, <2>2, <2>3, LinkNames DEF LinkAt, LinkInv, Steps, Tasks, Sessions
  <2>4. CASE link # Nobody
    <3>1. left'
      BY <2>1, <2>4
    <3> QED
      BY <2>1, <2>2, <3>1 DEF LinkAt, LinkInv, Steps, Tasks
  <2> QED
    BY <2>3, <2>4
<1> QED
  BY <1>2, <1>3, <1>4, <1>5, <1>6, <1>7 DEF Procedure

LEMMA LinkClosing ==
  ASSUME TypeOK, LinkInv, NEW t \in Tasks, Close(t) \/ ClosingEnds(t) \/ Reset(t)
  PROVE  LinkInv'
<1> USE DEF Early, Holding, At
<1>0. /\ JobTyped /\ left \in BOOLEAN
      /\ \A s \in Sessions : s # Nobody /\ s \in Tasks /\ s # Console /\ LinkAt(s)
  BY LinkNames DEF TypeOK, JobTyped, LinkInv, Sessions, Tasks
<1>1. UNCHANGED backend /\ UNCHANGED <<client, chosen>>
  BY DEF Close, ClosingEnds, Reset, backend, chosen
<1>2. link' \in {link, Nobody} /\ (left => left')
  BY DEF Close, ClosingEnds, Reset, Controls, Disconnects, bandVars, radio
<1>3. CASE t = Console
  <2>1. \A s \in Sessions : job'[s] = job[s]
    <3>1. CASE Close(t) \/ ClosingEnds(t)
      <4>1. PICK P : Steps(t, P)
        BY <1>0, <3>1, PcSteps DEF Close, ClosingEnds, Points
      <4> QED
        BY <1>0, <1>3, <4>1 DEF Steps
    <3>2. CASE Reset(t)
      BY <1>0, <1>3, <3>2 DEF Reset, JobTyped
    <3> QED
      BY <3>1, <3>2
  <2> QED
    BY <1>0, <1>1, <1>2, <2>1 DEF LinkInv, LinkAt
<1>4. CASE t # Console /\ link' = Nobody
  <2>1. t \in Sessions
    BY <1>4 DEF Tasks
  <2>2. PICK P : Steps(t, P) /\ P \cap {"rescan", "connecting"} = {}
    BY <2>1, <1>0, ProcedureSteps
  <2> SUFFICES ASSUME NEW s \in Sessions PROVE LinkAt(s)'
    BY DEF LinkInv
  <2> QED
    BY <1>0, <1>1, <1>2, <1>4, <2>2 DEF LinkAt, Steps
<1>5. CASE t # Console /\ link' = link
  <2>1. t \in Sessions
    BY <1>5 DEF Tasks
  <2>2. CASE Close(t)
    <3>1. Steps(t, {"closing", "close", "reset"}) /\ left' = left
      BY <2>1, <2>2, <1>0, ProcedureSteps DEF Close
    <3>2. CASE chosen = "real" /\ is_connected
      <4>1. Steps(t, {"closing"})
        BY <1>0, <2>2, <3>2, PcSteps DEF Close, Points
      <4> QED
        BY <1>0, <1>1, <1>5, <2>1, <3>1, <4>1, LinkKept
    <3>3. CASE ~(chosen = "real" /\ is_connected)
      <4>1. ~left => ~(link = t /\ client = t)
        BY <1>0, <2>1, <3>3 DEF LinkAt, is_connected
      <4> QED
        BY <1>0, <1>1, <1>5, <2>1, <3>1, <4>1 DEF LinkInv, LinkAt, Steps
    <3> QED
      BY <3>2, <3>3
  <2>3. CASE ClosingEnds(t)
    <3>1. Steps(t, {"close", "reset"})
      BY <2>1, <2>3, <1>0, ProcedureSteps
    <3>2. CASE left' = TRUE
      BY <1>0, <1>1, <1>5, <2>1, <3>1, <3>2 DEF LinkInv, LinkAt, Steps
    <3>3. CASE left' = left /\ ~(link = t /\ client = t)
      BY <1>0, <1>1, <1>5, <2>1, <3>1, <3>3, LinkKept
    <3>4. left' = TRUE \/ (left' = left /\ ~(link = t /\ client = t))
      BY <1>0, <1>5, <2>1, <2>3 DEF ClosingEnds, Disconnects, is_connected
    <3> QED
      BY <3>2, <3>3, <3>4
  <2>4. CASE Reset(t)
    <3>1. Steps(t, {"done"}) /\ left' = left
      BY <1>0, <2>1, <2>4, ProcedureSteps DEF Reset
    <3>2. ~left => ~(link = t /\ client = t)
      BY <1>0, <2>1, <2>4 DEF LinkAt, Reset
    <3> QED
      BY <1>0, <1>1, <1>5, <2>1, <3>1, <3>2 DEF LinkInv, LinkAt, Steps
  <2> QED
    BY <2>2, <2>3, <2>4
<1> QED
  BY <1>2, <1>3, <1>4, <1>5

LEMMA LinkNext ==
  ASSUME TypeOK, LinkInv, [Next]_vars
  PROVE  LinkInv'
<1> USE DEF Early, Holding, At
<1>0. /\ JobTyped /\ left \in BOOLEAN
      /\ \A s \in Sessions : s # Nobody /\ s \in Tasks /\ s # Console /\ LinkAt(s)
  BY LinkNames DEF TypeOK, JobTyped, LinkInv, Sessions, Tasks
<1>1. CASE Band \/ LinkLost
  <2>1. link' \in {link, Nobody} /\ UNCHANGED <<client, is_mock, real, job, left>>
    BY <1>1 DEF Band, LinkLost, Loop, WakeUp, BleEntered, SwitchBack, AdvertisingTimeout, Leave,
       EnterEspnow,
       Expire, Expired, Reboots, Disconnects, radio, backend
  <2>2. chosen' = chosen
    BY <2>1 DEF chosen
  <2> QED
    BY <1>0, <2>1, <2>2 DEF LinkInv, LinkAt
<1>2. CASE Cancel
  <2>1. UNCHANGED <<link, client, is_mock, real, left>> /\ \A s \in Sessions : job'[s] = job[s]
    BY <1>0, <1>2, PcSteps DEF Cancel, bandVars, radio, backend, Steps, Points, Tasks
  <2>2. chosen' = chosen
    BY <2>1 DEF chosen
  <2> QED
    BY <1>0, <2>1, <2>2 DEF LinkInv, LinkAt
<1>3. ASSUME NEW m \in BOOLEAN, Toggle(m)
      PROVE  LinkInv'
  <2>1. UNCHANGED <<link, client, job>> /\ current = Nobody
    BY <1>3 DEF Toggle, MayToggle, bandVars, radio
  <2>2. left' = (left \/ (current = Nobody /\ AtWork # {}))
    BY <1>3 DEF Toggle
  <2>3. CASE AtWork = {}
    <3>1. left' = left
      BY <1>0, <2>2, <2>3
    <3>2. \A s \in Sessions : job[s].pc \in {"idle", "done"}
      BY <2>3 DEF AtWork
    <3>3. \A s \in Sessions : left \/ ~(link = s /\ client = s)
      BY <1>0, <3>2 DEF LinkAt
    <3> SUFFICES ASSUME NEW s \in Sessions PROVE LinkAt(s)'
      BY DEF LinkInv
    <3> QED
      BY <1>0, <2>1, <3>1, <3>2, <3>3 DEF LinkAt
  <2>4. CASE AtWork # {}
    <3>1. left'
      BY <2>1, <2>2, <2>4
    <3> QED
      BY <1>0, <2>1, <3>1 DEF LinkInv, LinkAt
  <2> QED
    BY <2>3, <2>4
<1>4. CASE UNCHANGED vars
  <2>1. UNCHANGED <<link, client, is_mock, real, job, left>>
    BY <1>4 DEF vars, bandVars, radio, backend
  <2>2. chosen' = chosen
    BY <2>1 DEF chosen
  <2> QED
    BY <1>0, <2>1, <2>2 DEF LinkInv, LinkAt
<1> QED
  BY <1>1, <1>2, <1>3, <1>4, LinkProcedure, LinkClosing DEF Next, AtRest

\* When no procedure and no cancel is at work no wristband stays connected, but for what
\* left records and for a client that was replaced.
THEOREM LinkQuietIsClosed == Spec => []QuietIsClosed
<1>1. Init => LinkInv
  <2> SUFFICES ASSUME Init, NEW s \in Sessions PROVE LinkAt(s)
    BY DEF LinkInv
  <2> QED
    BY LinkNames DEF Init, BandInit, LinkAt, Tasks, Sessions, NoJob, Early
<1>2. TypeOK /\ LinkInv => QuietIsClosed
  <2> SUFFICES ASSUME TypeOK, LinkInv, AtWork = {}, link # Nobody, ~left, link = client
               PROVE  FALSE
    BY DEF QuietIsClosed
  <2>1. link \in Sessions
    BY DEF TypeOK
  <2> QED
    BY <2>1 DEF LinkInv, LinkAt, Holding, AtWork
<1> QED
  BY <1>1, <1>2, LinkNext, LinkTypeOK, PTL DEF Spec

-----------------------------------------------------------------------------
(* Nobody is thrown out *)

LEMMA TellNext ==
  ASSUME TypeOK, TellInv, [Next]_vars
  PROVE  TellInv'
<1> USE DEF TellInv
<1>0. visits \in Nat
  BY DEF TypeOK
<1>1. CASE UNCHANGED <<radio, calls>>
  BY <1>1 DEF radio, calls
<1>2. CASE Loop
  <2>1. CASE WakeUp
    BY <2>1 DEF WakeUp, calls
  <2>2. CASE BleEntered
    BY <2>2 DEF BleEntered, Cleared, calls
  <2>3. CASE EnterEspnow
    BY <2>3 DEF EnterEspnow
  <2>4. CASE Expire \/ Expired
    BY <1>1, <2>4 DEF Expire, Expired
  <2>5. CASE Leave
    BY <2>5 DEF Leave, calls
  <2> QED
    BY <1>2, <2>1, <2>2, <2>3, <2>4, <2>5 DEF Loop, SwitchBack, AdvertisingTimeout
<1>3. CASE Reboots
  BY <1>3 DEF Reboots
<1>4. CASE Disconnects /\ link # Nobody
  BY <1>4 DEF Disconnects
<1>5. CASE Controls /\ is_connected
  <2>1. visits >= 1
    BY <1>5 DEF is_connected
  <2>2. CASE switch' = TRUE /\ told' = TRUE /\ UNCHANGED <<mode, link, visits>>
    BY <2>1, <2>2
  <2>3. CASE UNCHANGED <<radio, calls>>
    BY <1>1, <2>3
  <2> QED
    BY <1>5, <2>2, <2>3 DEF Controls
<1>6. ASSUME NEW c, Connects(c)
      PROVE  TellInv'
  <2>1. visits' = visits + 1 /\ UNCHANGED <<mode, switch>>
    BY <1>6 DEF Connects
  <2>2. visits' >= 1 /\ (mode = "BLE" /\ switch => visits' >= 2)
    BY <1>0, <2>1
  <2>3. mode = "BLE" /\ switch => visits' # 1
    BY <1>0, <2>1, <2>2
  <2> QED
    BY <2>1, <2>2, <2>3
<1>7. CASE \E t \in Sessions : Procedure(t)
  <2>1. PICK t \in Sessions : Procedure(t)
    BY <1>7
  <2>2. CASE Wake(t)
    BY <2>2 DEF Wake, calls
  <2> QED
    BY <1>1, <1>6, <2>1, <2>2
    DEF Procedure, Start, WakeVerified, ConnectMock, NotFound, ScanEnds, Connected, ConnectRaises,
        Use, WriteChunk, ReadOffset, ReadChunk, UseRaises, Picture, Forgotten, Led, bandVars
<1>8. CASE \E t \in Tasks : Close(t) \/ ClosingEnds(t) \/ Reset(t)
  BY <1>1, <1>4, <1>5, <1>8 DEF Close, ClosingEnds, Reset, is_connected, bandVars
<1>9. CASE LinkLost
  BY <1>4, <1>9 DEF LinkLost
<1>10. UNCHANGED bandVars => UNCHANGED <<radio, calls>>
  BY DEF bandVars
<1> QED
  BY <1>1, <1>2, <1>3, <1>7, <1>8, <1>9, <1>10 DEF Next, Band, Cancel, Toggle, AtRest, vars

\* While the first client of a BLE period is connected, the loop decides to go back only
\* after that client's CTRL.
THEOREM LinkNotThrownOut == Spec => NotThrownOut
<1> DEFINE Fair == ~ending /\ ending' /\ link # Nobody /\ visits = 1 => told
<1>1. Init => TellInv
  BY DEF Init, BandInit, TellInv
<1>2. TypeOK /\ TellInv /\ [Next]_vars => TellInv'
  BY TellNext
<1>3. TypeOK /\ TellInv /\ [Next]_vars => [Fair]_vars
  <2> SUFFICES ASSUME TypeOK, TellInv, [Next]_vars, ~ending, ending', link # Nobody, visits = 1
               PROVE  told
    OBVIOUS
  <2>1. ending' # ending
    OBVIOUS
  <2>2. CASE Loop
    <3>1. SwitchBack
      BY <2>1, <2>2 DEF Loop, WakeUp, BleEntered, AdvertisingTimeout, Unused, EnterEspnow, Expire,
         Expired, radio
    <3> QED
      BY <3>1 DEF SwitchBack, TellInv
  <2>3. ~Reboots
    BY DEF Reboots
  <2>4. \A t \in Sessions : ~Procedure(t)
    <3> SUFFICES ASSUME NEW t \in Sessions, Procedure(t)
                 PROVE  ending' = ending
      BY <2>1
    <3>1. UNCHANGED bandVars => ending' = ending
      BY DEF bandVars, radio
    <3>2. Connects(t) => ending' = ending
      BY DEF Connects
    <3>3. Wake(t) => ending' = ending
      BY DEF Wake, radio
    <3>4. Connected(t) \/ ConnectRaises(t) => ending' = ending
      BY <3>1, <3>2 DEF Connected, ConnectRaises
    <3>5. WriteChunk(t) \/ UseRaises(t) \/ ReadOffset(t) \/ ReadChunk(t) \/ Led(t)
          => ending' = ending
      BY <3>1 DEF WriteChunk, UseRaises, ReadOffset, ReadChunk, Led, radio
    <3> QED
      BY <3>1, <3>3, <3>4, <3>5
      DEF Procedure, Start, WakeVerified, ConnectMock, NotFound, ScanEnds, Use, Picture, Forgotten
  <2>5. \A t \in Tasks : ~(Close(t) \/ ClosingEnds(t) \/ Reset(t))
    BY <2>1 DEF Close, ClosingEnds, Reset, Controls, Disconnects, bandVars, radio
  <2>6. ~Cancel /\ ~LinkLost /\ ~AtRest /\ \A m \in BOOLEAN : ~Toggle(m)
    BY <2>1 DEF Cancel, LinkLost, Disconnects, AtRest, Toggle, vars, bandVars, radio
  <2> QED
    BY <2>1, <2>2, <2>3, <2>4, <2>5, <2>6 DEF Next, Band, vars, bandVars, radio
<1> QED
  BY <1>1, <1>2, <1>3, LinkTypeOK, PTL DEF Spec, NotThrownOut

-----------------------------------------------------------------------------
(* What is read is whole *)

\* One task's job changes, and what it holds then.
Puts(t, P, n, b) ==
  /\ job'[t].pc \in P /\ job'[t].n = n /\ job'[t].buf = b
  /\ \A s \in Sessions \ {t} : job'[s] = job[s]

LEMMA GotoPuts ==
  ASSUME JobTyped, NEW t \in Sessions, NEW p, Goto(t, p)
  PROVE  Puts(t, {p}, job[t].n, job[t].buf)
BY DEF JobTyped, Goto, Puts, Tasks, Job

LEMMA FailsPuts ==
  ASSUME JobTyped, NEW t \in Sessions, NEW b, Fails(t, b)
  PROVE  Puts(t, {"close"}, 1, NoPieces)
<1>1. Ending(b).pc = "close" /\ Ending(b).n = 1 /\ Ending(b).buf = NoPieces
  BY DEF Ending, NoJob
<1>2. job'[t] = Ending(b) /\ \A s \in Sessions \ {t} : job'[s] = job[s]
  BY DEF JobTyped, Fails, Tasks
<1> QED
  BY <1>1, <1>2 DEF Puts

LEMMA ConnectFailsPuts ==
  ASSUME JobTyped, NEW t \in Sessions, ConnectFails(t)
  PROVE  Puts(t, {"close"}, 1, NoPieces)
BY FailsPuts DEF ConnectFails

\* A step of a task that neither uses the wristband nor goes on to.
LEMMA UseKept ==
  ASSUME ReadInv, NEW t \in Sessions, NEW P, NEW n, NEW b, Puts(t, P, n, b),
         job[t].pc \notin {"offset", "chunk"}, P \cap {"offset", "chunk"} = {},
         P \cap Early # {} => n = 1,
         "face" \in P => \E v \in Values \cup {Blank} : b = Whole(v),
         link' \in {link, Nobody, t}, UNCHANGED <<emb, off, shared, cut>>
  PROVE  ReadInv'
<1>1. Using' = Using /\ t \notin Using
  BY DEF Using, Puts
<1>2. Writers' = Writers
  <2>1. \A s \in Issues : s \in Using => job'[s] = job[s]
    BY <1>1 DEF Puts, Sessions
  <2> QED
    BY <1>1, <2>1 DEF Writers
<1>3. StoreInv'
  BY <1>2 DEF ReadInv, StoreInv
<1> SUFFICES ASSUME NEW s \in Sessions PROVE UseAt(s)' /\ ReadAt(s)'
  BY <1>3 DEF ReadInv
<1>4. CASE s = t
  <2>1. UseAt(t)'
    BY <1>1 DEF UseAt, Puts
  <2>2. ReadAt(t)'
    BY DEF ReadAt, Puts, At, Whole
  <2> QED
    BY <1>4, <2>1, <2>2
<1>5. CASE s # t
  <2>1. job'[s] = job[s] /\ (link' = s => link = s \/ s = Nobody)
    BY <1>5 DEF Puts
  <2>2. s # Nobody
    BY LinkNames DEF Sessions
  <2>3. UseAt(s)'
    BY <1>1, <2>1, <2>2 DEF ReadInv, UseAt, Held
  <2>4. ReadAt(s)'
    BY <2>1 DEF ReadInv, ReadAt, At, Whole
  <2> QED
    BY <2>3, <2>4
<1> QED
  BY <1>4, <1>5

\* A step of no procedure: at most the connection ends.
LEMMA UseAlone ==
  ASSUME ReadInv, \A s \in Sessions : job'[s] = job[s], link' \in {link, Nobody},
         UNCHANGED <<emb, off, shared, cut>>
  PROVE  ReadInv'
<1>1. Using' = Using /\ Writers' = Writers
  BY DEF Using, Writers, Sessions
<1>2. StoreInv'
  BY <1>1 DEF ReadInv, StoreInv
<1> SUFFICES ASSUME NEW s \in Sessions PROVE UseAt(s)' /\ ReadAt(s)'
  BY <1>2 DEF ReadInv
<1>3. link' = s => link = s
  BY LinkNames DEF Sessions
<1>4. UseAt(s)'
  BY <1>1, <1>3 DEF ReadInv, UseAt, Held
<1>5. ReadAt(s)'
  BY DEF ReadInv, ReadAt, At, Whole
<1> QED
  BY <1>4, <1>5

LEMMA ReadReboots ==
  ASSUME ReadInv, Reboots, UNCHANGED <<job, shared, cut>>
  PROVE  ReadInv'
<1>1. link' = Nobody /\ \A n \in Pieces : emb'[n] = Blank
  BY DEF Reboots, BlankBand
<1>2. Using' = Using
  BY DEF Using
<1>3. StoreInv'
  BY <1>1 DEF StoreInv
<1> SUFFICES ASSUME NEW s \in Sessions PROVE UseAt(s)' /\ ReadAt(s)'
  BY <1>3 DEF ReadInv
<1>4. s # Nobody
  BY LinkNames DEF Sessions
<1>5. UseAt(s)'
  BY <1>1, <1>2, <1>4 DEF ReadInv, UseAt
<1>6. ReadAt(s)'
  BY DEF ReadInv, ReadAt, At, Whole
<1> QED
  BY <1>5, <1>6

\* While one task uses the wristband, every other that does shares it.
LEMMA OthersShare ==
  ASSUME ReadInv, NEW t \in Sessions, t \in Using, NEW P, NEW n, NEW b, Puts(t, P, n, b),
         shared \subseteq shared', NEW s \in Sessions, s # t
  PROVE  UseAt(s)' /\ ReadAt(s)'
<1>1. job'[s] = job[s] /\ (s \in Using' <=> s \in Using)
  BY DEF Puts, Using
<1>2. UseAt(s) /\ ReadAt(s)
  BY DEF ReadInv
<1>3. s \in Using => s \in shared
  BY <1>2 DEF UseAt
<1>4. UseAt(s)'
  BY <1>1, <1>2, <1>3 DEF UseAt
<1>5. ReadAt(s)'
  BY <1>1, <1>2 DEF ReadAt, At, Whole
<1> QED
  BY <1>4, <1>5

LEMMA ReadWriteChunk ==
  ASSUME TypeOK, ReadInv, NEW t \in Sessions, WriteChunk(t)
  PROVE  ReadInv'
<1>0. /\ JobTyped /\ t \in Tasks /\ job[t] \in Job /\ t \in Issues /\ t \in Values
      /\ job[t].n \in Pieces /\ job[t].n \in Nat /\ Chunks \in Nat
  BY LinkNames, BandBounds DEF TypeOK, JobTyped, Tasks, Sessions, WriteChunk, Job, Pieces
<1>1. /\ emb' = [emb EXCEPT ![job[t].n] = t] /\ emb \in [Pieces -> Values \cup {Blank}]
      /\ off' = off /\ link' = link /\ t \in Using
      /\ shared' = IF client = t THEN shared ELSE shared \cup {t}
  BY DEF WriteChunk, Put, Strays, TypeOK, radio, Using, At
<1>2. t \notin shared' => t \notin shared /\ link = t
  BY <1>1 DEF WriteChunk, is_connected
\* Then it has written all the pieces up to this one.
<1>3. t \notin shared' => \A k \in 1 .. job[t].n : emb'[k] = t
  <2> SUFFICES ASSUME t \notin shared', NEW k \in 1 .. job[t].n PROVE emb'[k] = t
    OBVIOUS
  <2>1. Held(t)
    BY <1>1, <1>2 DEF ReadInv, UseAt
  <2>2. CASE k = job[t].n
    BY <1>0, <1>1, <2>2
  <2>3. CASE k # job[t].n
    <3>1. k \in 1 .. job[t].n - 1
      BY <1>0, <2>3
    <3>2. emb[k] = t
      BY <1>0, <2>1, <3>1 DEF Held
    <3> QED
      BY <1>1, <2>3, <3>2
  <2> QED
    BY <2>2, <2>3
<1>4. CASE job[t].n = Chunks
  <2>1. Puts(t, {"led"}, job[t].n, job[t].buf) /\ cut' = (t \in shared')
    <3>1. Goto(t, "led") /\ cut' = (t \in shared')
      BY <1>4 DEF WriteChunk
    <3> QED
      BY <1>0, <3>1, GotoPuts
  <2>2. StoreInv'
    <3>1. CASE t \in shared'
      BY <2>1, <3>1 DEF StoreInv
    <3>2. CASE t \notin shared'
      <4>1. \A k \in Pieces : emb'[k] = t
        BY <1>3, <1>4, <3>2 DEF Pieces
      <4> QED
        BY <1>0, <4>1 DEF StoreInv
    <3> QED
      BY <3>1, <3>2
  <2>3. UseAt(t)' /\ ReadAt(t)'
    BY <2>1 DEF Puts, UseAt, ReadAt, Using, Early, At
  <2>4. \A s \in Sessions : UseAt(s)' /\ ReadAt(s)'
    BY <1>1, <2>1, <2>3, OthersShare
  <2> QED
    BY <2>2, <2>4 DEF ReadInv
<1>5. CASE job[t].n # Chunks
  <2>1. Puts(t, {"chunk"}, job[t].n + 1, job[t].buf) /\ cut' = cut
    <3>1. job' = [job EXCEPT ![t].n = @ + 1] /\ cut' = cut /\ job[t].pc = "chunk"
      BY <1>5 DEF WriteChunk, At
    <3> QED
      BY <1>0, <3>1 DEF Puts, JobTyped, Tasks, Job
  <2>2. t \in Using' /\ job'[t].n > 1
    <3>1. job[t].n >= 1
      BY <1>0 DEF Pieces
    <3> QED
      BY <1>0, <2>1, <3>1 DEF Puts, Using
  <2>3. StoreInv'
    BY <1>0, <2>2 DEF StoreInv, Writers
  <2>4. UseAt(t)'
    <3>1. t \notin shared' => Using = {t}
      BY <1>1, <1>2 DEF ReadInv, UseAt
    <3>2. t \notin shared' => Using' = {t}
      BY <2>1, <2>2, <3>1 DEF Puts, Using
    <3>3. t \notin shared' => Held(t)'
      <4> SUFFICES ASSUME t \notin shared', NEW k \in 1 .. job'[t].n - 1 PROVE emb'[k] = t
        BY <1>0 DEF Held
      <4>1. k \in 1 .. job[t].n
        BY <1>0, <2>1 DEF Puts
      <4> QED
        BY <1>3, <4>1
    <3>4. job'[t].pc = "chunk"
      BY <2>1 DEF Puts
    <3> QED
      BY <3>2, <3>3, <3>4 DEF UseAt, Early
  <2>5. ReadAt(t)'
    BY <2>1 DEF Puts, ReadAt, At
  <2>6. \A s \in Sessions : UseAt(s)' /\ ReadAt(s)'
    BY <1>1, <2>1, <2>4, <2>5, OthersShare
  <2> QED
    BY <2>3, <2>6 DEF ReadInv
<1> QED
  BY <1>4, <1>5

LEMMA ReadReadOffset ==
  ASSUME TypeOK, ReadInv, NEW t \in Sessions, ReadOffset(t)
  PROVE  ReadInv'
<1>0. JobTyped /\ t \in Using /\ job[t].pc = "offset"
  BY DEF TypeOK, JobTyped, ReadOffset, Using, At
<1>1. UNCHANGED <<emb, link, shared, cut>> /\ off' = job[t].n
  BY DEF ReadOffset, Offset, radio, uses
<1>2. Puts(t, {"chunk"}, job[t].n, job[t].buf)
  BY <1>0, GotoPuts DEF ReadOffset
<1>3. Using' = Using /\ Writers' = Writers
  BY <1>0, <1>2 DEF Using, Writers, Puts, Sessions
<1>4. StoreInv'
  BY <1>1, <1>3 DEF ReadInv, StoreInv
<1>5. UseAt(t)'
  <2>1. UseAt(t) /\ job'[t].n = job[t].n /\ job'[t].buf = job[t].buf /\ job'[t].pc = "chunk"
    BY <1>2 DEF ReadInv, Puts
  <2>2. Held(t) => Held(t)'
    BY <1>1, <2>1 DEF Held
  <2> QED
    BY <1>1, <1>3, <2>1, <2>2 DEF UseAt, Early
<1>6. ReadAt(t)'
  BY <1>2 DEF Puts, ReadAt, At
<1>7. \A s \in Sessions : UseAt(s)' /\ ReadAt(s)'
  BY <1>0, <1>1, <1>2, <1>5, <1>6, OthersShare
<1> QED
  BY <1>4, <1>7 DEF ReadInv

LEMMA ReadReadChunk ==
  ASSUME TypeOK, ReadInv, NEW t \in Sessions, ReadChunk(t)
  PROVE  ReadInv'
<1> DEFINE m == job[t].n
           got == [job[t].buf EXCEPT ![m] = Got]
           blank == \A n \in Pieces : got[n].of = Blank
           p == IF m < Chunks THEN "offset" ELSE IF blank THEN "led" ELSE "face"
           next == IF m = Chunks THEN m ELSE m + 1
<1>0. /\ JobTyped /\ t \in Tasks /\ job[t] \in Job /\ t \notin Issues /\ t \in Using
      /\ job[t].pc = "chunk" /\ m \in Pieces /\ m \in Nat /\ Chunks \in Nat /\ m <= Chunks
      /\ job[t].buf \in [Pieces -> Piece]
  <2>1. JobTyped /\ t \in Tasks /\ job[t] \in Job /\ job[t].pc = "chunk" /\ t \in Using
    BY DEF TypeOK, JobTyped, Tasks, ReadChunk, Using, At
  <2>2. t \notin Issues
    BY LinkNames DEF ReadChunk
  <2>3. job[t].n \in Pieces /\ job[t].buf \in [Pieces -> Piece]
    BY <2>1 DEF Job
  <2>4. m \in Nat /\ Chunks \in Nat /\ m <= Chunks
    BY <2>3, BandBounds DEF Pieces
  <2> QED
    BY <2>1, <2>2, <2>3, <2>4
<1>1. /\ UNCHANGED <<emb, off, link, cut>>
      /\ shared' = IF client = t THEN shared ELSE shared \cup {t}
  BY DEF ReadChunk, Strays, bandVars, radio, store
<1>2. t \notin shared' => t \notin shared /\ link = t
  BY <1>1 DEF ReadChunk, is_connected
<1>3. Puts(t, {p}, next, got)
  <2>1. job' = [job EXCEPT ![t] = [job[t] EXCEPT !.buf = got, !.n = next, !.pc = p,
                                       !.again = m = Chunks /\ blank]]
    BY DEF ReadChunk
  <2> HIDE DEF m, got, blank, p, next
  <2> QED
    BY <1>0, <2>1 DEF Puts, JobTyped, Tasks, Sessions, Job
\* The pieces up to this one are of the embedding that is there.
<1>4. t \notin shared' =>
        \E v \in Values \cup {Blank} :
          /\ \A n \in Pieces : emb[n] = v
          /\ \A k \in 1 .. m : got[k] = [at |-> k, of |-> v]
  <2> SUFFICES ASSUME t \notin shared'
               PROVE  \E v \in Values \cup {Blank} :
                        /\ \A n \in Pieces : emb[n] = v
                        /\ \A k \in 1 .. m : got[k] = [at |-> k, of |-> v]
    OBVIOUS
  <2>1. Held(t)
    BY <1>0, <1>1, <1>2 DEF ReadInv, UseAt
  <2>2. off = m
    BY <1>0, <2>1 DEF Held
  <2>3. PICK v \in Values \cup {Blank} :
          /\ \A n \in Pieces : emb[n] = v
          /\ \A k \in 1 .. m - 1 : job[t].buf[k] = [at |-> k, of |-> v]
    BY <1>0, <2>1 DEF Held
  <2>4. Got = [at |-> m, of |-> v]
    BY <1>0, <2>2, <2>3 DEF Got
  <2>5. ASSUME NEW k \in 1 .. m
        PROVE  got[k] = [at |-> k, of |-> v]
    <3>1. CASE k = m
      BY <1>0, <2>4, <3>1
    <3>2. CASE k # m
      <4>1. k \in 1 .. m - 1 /\ k \in Pieces
        BY <1>0, <3>2 DEF Pieces
      <4> QED
        BY <1>0, <2>3, <3>2, <4>1
    <3> QED
      BY <3>1, <3>2
  <2> QED
    BY <2>3, <2>5
<1>5. p \in {"offset", "led", "face"} /\ (p = "offset" => m < Chunks)
      /\ (p # "offset" => m = Chunks)
  BY <1>0
<1> HIDE DEF got, blank, p
<1>6. Using' \subseteq Using /\ (t \in Using' => p = "offset")
  BY <1>0, <1>3, <1>5 DEF Using, Puts
<1>7. Writers' = Writers
  BY <1>0, <1>3, <1>6 DEF Writers, Using, Puts, Sessions
<1>8. StoreInv'
  BY <1>1, <1>7 DEF ReadInv, StoreInv
<1>9. UseAt(t)'
  <2>1. t \in Using' \ shared' => Using' = {t}
    BY <1>0, <1>2, <1>6 DEF ReadInv, UseAt
  <2>2. t \in Using' \ shared' => Held(t)'
    <3> SUFFICES ASSUME t \in Using', t \notin shared' PROVE Held(t)'
      OBVIOUS
    <3>1. p = "offset" /\ m < Chunks
      BY <1>5, <1>6
    <3>2. job'[t].pc = "offset" /\ job'[t].n = m + 1 /\ job'[t].buf = got
      BY <1>0, <1>3, <3>1 DEF Puts
    <3>3. 1 .. job'[t].n - 1 = 1 .. m
      BY <1>0, <3>2
    <3> HIDE DEF m
    <3> QED
      BY <1>0, <1>1, <1>4, <3>2, <3>3 DEF Held
  <2>3. job'[t].pc \notin Early
    BY <1>3, <1>5 DEF Puts, Early
  <2> QED
    BY <2>1, <2>2, <2>3 DEF UseAt
<1>10. ReadAt(t)'
  <2> SUFFICES ASSUME job'[t].pc = "face", t \notin shared'
               PROVE  \E v \in Values \cup {Blank} : job'[t].buf = Whole(v)'
    BY DEF ReadAt, At
  <2>1. m = Chunks /\ job'[t].buf = got
    BY <1>3, <1>5 DEF Puts
  <2>2. PICK v \in Values \cup {Blank} : \A k \in 1 .. m : got[k] = [at |-> k, of |-> v]
    BY <1>4
  <2>3. got = [n \in Pieces |-> [at |-> n, of |-> v]]
    <3>1. got \in [Pieces -> Piece \cup {Got}]
      BY <1>0 DEF got
    <3>2. Pieces = 1 .. m
      BY <2>1 DEF Pieces
    <3> QED
      BY <2>2, <3>1, <3>2
  <2> QED
    BY <2>1, <2>3 DEF Whole
<1>11. \A s \in Sessions : UseAt(s)' /\ ReadAt(s)'
  BY <1>0, <1>1, <1>3, <1>9, <1>10, OthersShare
<1> QED
  BY <1>8, <1>11 DEF ReadInv

LEMMA ReadUseRaises ==
  ASSUME TypeOK, ReadInv, NEW t \in Sessions, UseRaises(t)
  PROVE  ReadInv'
<1>0. JobTyped /\ t \in Using
  BY DEF TypeOK, JobTyped, UseRaises
<1>1. /\ UNCHANGED <<emb, shared>> /\ (cut => cut')
      /\ (t \in Issues /\ job[t].n > 1 => cut')
  BY DEF UseRaises, bandVars, store
<1>2. Puts(t, {"close"}, 1, NoPieces)
  BY <1>0, FailsPuts DEF UseRaises
<1>3. Writers \subseteq Writers' \cup {t}
  BY <1>2 DEF Writers, Using, Puts, Sessions
<1>4. StoreInv'
  <2>1. CASE cut'
    BY <2>1 DEF StoreInv
  <2>2. CASE ~cut'
    <3>1. t \notin Writers /\ ~cut
      BY <1>1, <2>2 DEF Writers
    <3> QED
      BY <1>1, <1>3, <3>1 DEF ReadInv, StoreInv
  <2> QED
    BY <2>1, <2>2
<1>5. UseAt(t)' /\ ReadAt(t)'
  BY <1>2 DEF Puts, UseAt, ReadAt, Using, Early, At
<1>6. \A s \in Sessions : UseAt(s)' /\ ReadAt(s)'
  BY <1>0, <1>1, <1>2, <1>5, OthersShare
<1> QED
  BY <1>4, <1>6 DEF ReadInv

LEMMA ReadUse ==
  ASSUME TypeOK, ReadInv, NEW t \in Sessions, Use(t), chosen = "real"
  PROVE  ReadInv'
<1> DEFINE p == IF t \in Issues THEN "chunk" ELSE "offset"
<1>0. JobTyped /\ job[t].pc = "use" /\ t \notin Using
  BY DEF TypeOK, JobTyped, Use, Using, At
<1>1. /\ UNCHANGED <<emb, off, link, cut>> /\ Goto(t, p)
      /\ shared' = IF Using # {} THEN shared \cup Using \cup {t}
                   ELSE IF cut THEN shared \cup {t} ELSE shared
  BY DEF Use, bandVars, radio, store
<1>2. Puts(t, {p}, job[t].n, job[t].buf)
  BY <1>0, <1>1, GotoPuts
<1>3. job'[t].n = 1
  BY <1>0, <1>2 DEF ReadInv, UseAt, Puts, Early
<1>4. Using' = Using \cup {t}
  BY <1>2 DEF Using, Puts
<1>5. Writers' = Writers
  <2>1. t \notin Writers /\ t \notin Writers'
    BY <1>0, <1>3 DEF Writers
  <2> QED
    BY <1>2, <1>4, <2>1 DEF Writers, Puts, Sessions
<1>6. StoreInv'
  BY <1>1, <1>5 DEF ReadInv, StoreInv
<1>7. \A s \in Sessions : s \in Using' /\ s \notin shared' => s = t /\ Using = {} /\ ~cut
  BY <1>1, <1>4
<1>8. UseAt(t)'
  <2>1. t \in Using' \ shared' => Using' = {t}
    BY <1>4, <1>7
  <2>2. t \in Using' \ shared' => Held(t)'
    <3> SUFFICES ASSUME Using = {}, ~cut PROVE Held(t)'
      BY <1>7
    <3>1. PICK v \in Values \cup {Blank} : \A n \in Pieces : emb[n] = v
      BY DEF ReadInv, StoreInv, Writers
    <3>2. 1 .. job'[t].n - 1 = {}
      BY <1>3
    <3>3. t \notin Issues => job'[t].pc = "offset"
      BY <1>2 DEF Puts
    <3> QED
      BY <1>1, <3>1, <3>2, <3>3 DEF Held
  <2>3. job'[t].pc \notin Early
    BY <1>2 DEF Puts, Early
  <2> QED
    BY <2>1, <2>2, <2>3 DEF UseAt
<1>9. ReadAt(t)'
  BY <1>2 DEF Puts, ReadAt, At
<1>10. ASSUME NEW s \in Sessions, s # t
       PROVE  UseAt(s)' /\ ReadAt(s)'
  <2>1. job'[s] = job[s] /\ UseAt(s) /\ ReadAt(s) /\ (s \notin shared' => s \notin shared)
    BY <1>1, <1>2, <1>10 DEF Puts, ReadInv
  <2>2. UseAt(s)'
    BY <1>7, <1>10, <2>1 DEF UseAt
  <2>3. ReadAt(s)'
    BY <2>1 DEF ReadAt, At, Whole
  <2> QED
    BY <2>2, <2>3
<1> QED
  BY <1>6, <1>8, <1>9, <1>10 DEF ReadInv

LEMMA ReadUseMock ==
  ASSUME TypeOK, ReadInv, NEW t \in Sessions, Use(t), chosen = "mock"
  PROVE  ReadInv'
<1>0. JobTyped /\ job[t].pc = "use" /\ UNCHANGED <<emb, off, link, cut, shared>>
  BY DEF TypeOK, JobTyped, Use, At, bandVars, radio, store
<1>1. CASE Goto(t, "led")
  <2>1. Puts(t, {"led"}, job[t].n, job[t].buf)
    BY <1>0, <1>1, GotoPuts
  <2> QED
    BY <1>0, <2>1, UseKept DEF Early
<1>2. CASE job' = [job EXCEPT ![t].pc = "face",
                              ![t].buf = [n \in Pieces |-> [at |-> n, of |-> state]]]
  <2>1. Puts(t, {"face"}, job[t].n, Whole(state))
    BY <1>0, <1>2 DEF Puts, Whole, JobTyped, Tasks, Job
  <2>2. state \in Values \cup {Blank}
    BY DEF TypeOK
  <2> QED
    BY <1>0, <2>1, <2>2, UseKept DEF Early
<1> QED
  BY <1>1, <1>2 DEF Use

LEMMA ReadProcedure ==
  ASSUME TypeOK, ReadInv, NEW t \in Sessions, Procedure(t)
  PROVE  ReadInv'
<1> USE DEF Early, At
<1>0. JobTyped /\ UseAt(t)
  BY DEF TypeOK, JobTyped, ReadInv
<1>1. CASE \/ Start(t) \/ Wake(t) \/ WakeVerified(t) \/ ConnectMock(t) \/ NotFound(t)
           \/ Connected(t) \/ ConnectRaises(t)
  <2>1. UNCHANGED <<emb, off, shared, cut>> /\ link' \in {link, t}
    BY <1>1 DEF Start, Wake, WakeVerified, ConnectMock, NotFound, Connected, Connects,
       ConnectRaises,
       bandVars, radio, store, uses
  <2>2. job[t].pc \in Early /\ job[t].n = 1
    BY <1>0, <1>1 DEF Start, Wake, WakeVerified, ConnectMock, NotFound, Scanning, Connected,
       ConnectRaises, UseAt
  <2>3. PICK p \in {"wake", "verify", "scan", "use", "rescan", "close"} : \E b : Puts(t, {p}, 1, b)
    BY <1>0, <1>1, <2>2, GotoPuts, FailsPuts, ConnectFailsPuts
    DEF Start, Wake, WakeVerified, ConnectMock, NotFound, Connected, ConnectRaises
  <2> QED
    BY <2>1, <2>2, <2>3, UseKept
<1>2. ASSUME NEW a \in BOOLEAN, ScanEnds(t, a)
      PROVE  ReadInv'
  <2>1. UNCHANGED <<emb, off, shared, cut, link>>
    BY <1>2 DEF ScanEnds, bandVars, radio, store, uses
  <2>2. job[t].pc \in Early /\ job[t].n = 1 /\ job[t].pc \notin {"offset", "chunk"}
    BY <1>0, <1>2 DEF ScanEnds, Scanning, UseAt
  <2>3. Puts(t, {"connecting"}, 1, job[t].buf)
    BY <1>0, <1>2, <2>2 DEF ScanEnds, Puts, JobTyped, Tasks, Job
  <2> QED
    BY <2>1, <2>2, <2>3, UseKept
<1>3. CASE Picture(t)
  <2>1. Puts(t, {"led"}, job[t].n, job[t].buf)
    BY <1>0, <1>3, GotoPuts DEF Picture
  <2> QED
    BY <1>3, <2>1, UseKept DEF Picture, bandVars, radio, store, uses
<1>4. CASE Forgotten(t)
  <2>1. Puts(t, {"done"}, 1, NoPieces)
    BY <1>0, <1>4 DEF Forgotten, Puts, NoJob, JobTyped, Tasks
  <2> QED
    BY <1>4, <2>1, UseKept DEF Forgotten, bandVars, radio, store, uses
<1>5. CASE Led(t)
  <2>1. Puts(t, {"close"}, 1, NoPieces)
    BY <1>0, <1>5 DEF Led, Ending, Puts, NoJob, JobTyped, Tasks
  <2> QED
    BY <1>5, <2>1, UseKept DEF Led, radio, store, uses
<1>6. chosen \in {"mock", "real"}
  BY DEF chosen
<1> QED
  BY <1>1, <1>2, <1>3, <1>4, <1>5, <1>6, ReadUse, ReadUseMock, ReadWriteChunk, ReadReadOffset,
     ReadReadChunk, ReadUseRaises
  DEF Procedure

LEMMA ReadNext ==
  ASSUME TypeOK, ReadInv, [Next]_vars
  PROVE  ReadInv'
<1>0. JobTyped /\ \A s \in Sessions : s \in Tasks /\ s # Console
  BY LinkNames DEF TypeOK, JobTyped, Sessions, Tasks
<1>1. CASE UNCHANGED vars \/ Cancel \/ (\E m \in BOOLEAN : Toggle(m)) \/ LinkLost
  <2>1. \A s \in Sessions : job'[s] = job[s]
    BY <1>0, <1>1 DEF vars, Cancel, Goto, Toggle, LinkLost, JobTyped
  <2> QED
    BY <1>1, <2>1, UseAlone
    DEF vars, Cancel, Toggle, LinkLost, Disconnects, bandVars, radio, store, uses
<1>2. CASE Band
  <2>1. CASE Loop
    BY <1>2, <2>1, UseAlone
    DEF Band, Loop, WakeUp, BleEntered, SwitchBack, AdvertisingTimeout, Leave, EnterEspnow,
        Expire, Expired,
        radio, store, uses
  <2>2. CASE Reboots
    BY <1>2, <2>2, ReadReboots DEF Band, uses
  <2> QED
    BY <1>2, <2>1, <2>2 DEF Band
<1>3. ASSUME NEW t \in Tasks, Close(t) \/ ClosingEnds(t) \/ Reset(t)
      PROVE  ReadInv'
  <2>1. UNCHANGED <<emb, off, shared, cut>> /\ link' \in {link, Nobody}
    BY <1>3 DEF Close, ClosingEnds, Reset, Controls, Disconnects, bandVars, radio, store, uses
  <2>2. CASE t = Console
    <3>1. \A s \in Sessions : job'[s] = job[s]
      BY <1>0, <1>3, <2>2 DEF Close, ClosingEnds, Reset, Goto, Closed, JobTyped
    <3> QED
      BY <2>1, <3>1, UseAlone
  <2>3. CASE t \in Sessions
    <3>1. job[t].pc \in {"close", "closing", "reset"}
      BY <1>3 DEF Close, ClosingEnds, Reset, At
    <3>2. PICK p \in {"close", "closing", "reset", "done"} : \E n, b : Puts(t, {p}, n, b)
      <4>1. CASE Goto(t, "closing")
        BY <1>0, <2>3, <4>1, GotoPuts
      <4>2. CASE Closed(t)
        BY <1>0, <2>3, <4>2 DEF Closed, Puts, JobTyped, Job
      <4>3. CASE Reset(t)
        BY <1>0, <2>3, <4>3 DEF Reset, Puts, NoJob, JobTyped
      <4> QED
        BY <1>3, <4>1, <4>2, <4>3 DEF Close, ClosingEnds
    <3> QED
      BY <2>1, <2>3, <3>1, <3>2, UseKept DEF Early
  <2> QED
    BY <2>2, <2>3 DEF Tasks
<1> QED
  BY <1>1, <1>2, <1>3, ReadProcedure DEF Next, AtRest

\* An entry compares with a whole embedding that some issue has written, unless the client
\* was shared or a write was cut off.
THEOREM LinkReadWhole == Spec => []ReadWhole
<1>1. Init => ReadInv
  <2> SUFFICES ASSUME Init PROVE ReadInv
    OBVIOUS
  <2>1. \A s \in Sessions : job[s].pc = "idle" /\ job[s].n = 1
    BY DEF Init, NoJob, Tasks
  <2>2. StoreInv
    BY DEF Init, BandInit, BlankBand, StoreInv
  <2> QED
    BY <2>1, <2>2 DEF ReadInv, UseAt, ReadAt, Using, At, Early
<1>2. ReadInv => ReadWhole
  BY DEF ReadInv, ReadAt, ReadWhole, Whole
<1>3. TypeOK /\ ReadInv /\ [Next]_vars => ReadInv'
  BY ReadNext
<1> QED
  BY <1>1, <1>2, <1>3, LinkTypeOK, PTL DEF Spec

=============================================================================
