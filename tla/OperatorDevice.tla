---------------------------- MODULE OperatorDevice ----------------------------
(***************************************************************************)
(* adapters/devices/operator.py: OperatorDevice over its serial line, as   *)
(* the tasks of the server use it: procedures that wake a wristband and    *)
(* signal a result, consoles that connect and disconnect the board, and    *)
(* the LED player, the one task the server cancels.                        *)
(***************************************************************************)
EXTENDS SerialLine

CONSTANTS
  Callers,           \* procedure and console tasks
  Players,           \* LED pattern players
  HandshakeAttempts  \* PINGs of a connect

ASSUME TasksAre == Tasks = Callers \cup Players /\ Callers \cap Players = {}
ASSUME AttemptsAre == HandshakeAttempts \in Nat \ {0}

VARIABLES
  op,         \* per task: the await of OperatorDevice it is suspended at
  pings,      \* per task: PINGs of its handshake so far
  last_addr,  \* self._last_addr: the WAKE whose answer carried it, 0 for None
  \* history, read by no guard:
  since,      \* per task: sends before its wake began
  alone       \* tasks whose wake no other wake has overlapped

opVars == <<op, pings, last_addr, since, alone>>
vars == <<lineVars, opVars>>

Ops == {"idle", "connect", "ping", "pingpause", "wake", "wakepause", "woken",
        "signal", "frame"}

Init ==
  /\ LineInit
  /\ op = [t \in Tasks |-> "idle"] /\ pings = [t \in Tasks |-> 0]
  /\ last_addr = 0
  /\ since = [t \in Tasks |-> 0] /\ alone = {}

-----------------------------------------------------------------------------
(* Pieces the steps share *)

Goto(t, o) == op' = [op EXCEPT ![t] = o]

\* A call that sends, and its return.
Sends(t, w) ==
  Submit(t, w) /\ UNCHANGED <<handle, link, holder, board, history>>
Returns(t) ==
  /\ Ended(t) /\ Resume(t)
  /\ job' = [job EXCEPT ![t] = NoJob] /\ awaited' = awaited \ {t}
  /\ abandoned' = IF job[t].stage \in {"lost", "raised"}
                  THEN abandoned \cup {job[t].msg.id} ELSE abandoned
  /\ UNCHANGED <<link, count, board, ran>>

\* An exception of send counts as an answer that is no answer.
Heard(t) == IF job[t].stage \in {"sim", "back"} THEN job[t].line ELSE Empty

\* No send is left within the bound: a loop that would send again gives up instead.
AtBound == sent = MaxSends

\* (history) The wake of t is over as soon as t waits for nothing.
WakeOver(t) ==
  IF op'[t] = "idle"
  THEN since' = [since EXCEPT ![t] = 0] /\ alone' = alone \ {t}
  ELSE UNCHANGED <<since, alone>>

Waking == {t \in Tasks : op[t] \in {"wake", "wakepause", "woken"}}

-----------------------------------------------------------------------------
(* connect and disconnect *)

Connect(t, p) ==
  /\ op[t] = "idle" /\ Goto(t, "connect")
  /\ ConnectBegin(t, p)
  /\ UNCHANGED <<job, awaited, holder, sent, board, history, pings, last_addr, since, alone>>

Refused(t) ==
  /\ op[t] = "connect" /\ link[t] = "false"
  /\ link' = [link EXCEPT ![t] = "none"] /\ Goto(t, "idle")
  /\ UNCHANGED <<handle, job, awaited, holder, count, board, history, pings, last_addr,
                 since, alone>>

\* The handshake: PING until the board answers.
Ping(t) ==
  /\ \/ op[t] = "connect" /\ link[t] = "true" /\ pings' = [pings EXCEPT ![t] = 1]
     \/ /\ op[t] = "pingpause" /\ pings[t] < HandshakeAttempts
        /\ pings' = [pings EXCEPT ![t] = @ + 1]
  /\ Submit(t, "PING") /\ Goto(t, "ping")
  /\ link' = [link EXCEPT ![t] = "none"]
  /\ UNCHANGED <<handle, holder, board, history, last_addr, since, alone>>

PingReturns(t) ==
  /\ op[t] = "ping" /\ Returns(t)
  /\ IF Accepts(Heard(t)) THEN Goto(t, "idle") /\ pings' = [pings EXCEPT ![t] = 0]
                          ELSE Goto(t, "pingpause") /\ UNCHANGED pings
  /\ UNCHANGED <<last_addr, since, alone>>

\* A board that never answers stays connected: firmware without PING.
HandshakeEnds(t) ==
  /\ \/ op[t] = "pingpause" /\ pings[t] = HandshakeAttempts
     \/ op[t] \in {"connect", "pingpause"} /\ link[t] \in {"true", "none"} /\ AtBound
  /\ Goto(t, "idle") /\ link' = [link EXCEPT ![t] = "none"]
  /\ pings' = [pings EXCEPT ![t] = 0]
  /\ UNCHANGED <<handle, job, awaited, holder, count, board, history, last_addr, since, alone>>

-----------------------------------------------------------------------------
(* wake_wristband_wait, and the address a flow reads afterwards *)

\* Mutant: the address of the last wake is kept.
WakeKeeping(t) ==
  /\ op[t] = "idle" /\ Goto(t, "wake")
  /\ Sends(t, "WAKE")
  /\ since' = [since EXCEPT ![t] = sent]
  /\ alone' = IF Waking = {} THEN alone \cup {t} ELSE alone \ (Waking \cup {t})
  /\ UNCHANGED <<pings, last_addr>>
Wake(t) ==
  /\ op[t] = "idle" /\ Goto(t, "wake")
  /\ last_addr' = 0
  /\ Sends(t, "WAKE")
  /\ since' = [since EXCEPT ![t] = sent]
  /\ alone' = IF Waking = {} THEN alone \cup {t} ELSE alone \ (Waking \cup {t})
  /\ UNCHANGED pings

\* The address in an answer, here the number of the WAKE it answers.
Address(t) == IF Heard(t).word = "ADDR" THEN Heard(t).to ELSE last_addr

\* OK ends the wait, and hands over the address if there is one; NO_TAG is asked again
\* until the deadline; anything else fails at once.
WakeReturns(t) ==
  /\ op[t] = "wake" /\ Returns(t)
  /\ last_addr' = Address(t)
  /\ \/ Accepts(Heard(t)) /\ Goto(t, "woken")
     \/ Heard(t).word = "NO_TAG" /\ Goto(t, "wakepause")
     \/ ~Accepts(Heard(t)) /\ Goto(t, "idle")
  /\ WakeOver(t)
  /\ UNCHANGED pings

WakeAgain(t) ==
  /\ op[t] = "wakepause" /\ Goto(t, "wake")
  /\ Sends(t, "WAKE")
  /\ UNCHANGED <<pings, last_addr, since, alone>>

WakeDeadline(t) ==
  /\ op[t] = "wakepause" /\ AtBound /\ Goto(t, "idle")
  /\ WakeOver(t)
  /\ UNCHANGED <<lineVars, pings, last_addr>>

\* on_tag sounds the tablets and then reads last_wristband_addr for the connection.
UseAddress(t) ==
  /\ op[t] = "woken" /\ Goto(t, "idle")
  /\ WakeOver(t)
  /\ UNCHANGED <<lineVars, pings, last_addr>>

-----------------------------------------------------------------------------
(* signal_pass, signal_deny, clear_wristband; set_led *)

Signal(t) ==
  /\ op[t] = "idle" /\ Goto(t, "signal")
  /\ Sends(t, "SIGNAL")
  /\ UNCHANGED <<pings, last_addr, since, alone>>

Frame(t) ==
  /\ op[t] = "idle" /\ Goto(t, "frame")
  /\ Sends(t, "RGB")
  /\ UNCHANGED <<pings, last_addr, since, alone>>

SendOkReturns(t) ==
  /\ op[t] \in {"signal", "frame"} /\ Returns(t)
  /\ Goto(t, "idle")
  /\ UNCHANGED <<pings, last_addr, since, alone>>

CancelFrame(t) ==
  /\ op[t] = "frame" /\ Goto(t, "idle")
  /\ CancelSend(t)
  /\ UNCHANGED <<pings, last_addr, since, alone>>

-----------------------------------------------------------------------------
Call(t) ==
  \/ \E p \in {"COM", "SIM"} : Connect(t, p)
  \/ Wake(t) \/ Signal(t)

Continue(t) ==
  \/ Refused(t) \/ Ping(t) \/ PingReturns(t) \/ HandshakeEnds(t)
  \/ WakeReturns(t) \/ WakeAgain(t) \/ WakeDeadline(t) \/ UseAddress(t)
  \/ SendOkReturns(t)

Transport(t) == (SendStep(t) \/ ConnectStep(t)) /\ UNCHANGED opVars

\* A task has one thing under way at a time.
Advance(t) ==
  \/ op[t] # "idle" /\ Continue(t)
  \/ (job[t].stage # "none" \/ link[t] # "none") /\ Transport(t)

Around ==
  /\ \/ Disconnect \/ BoardResets \/ BoardBoots
     \/ \E w \in {"OK", "ADDR", "NO_TAG", "ERR"} : Execute(w)
  /\ UNCHANGED opVars

\* The bounds are used up and nothing is under way: the server waits for ever.
AtRest ==
  /\ AtBound /\ \A t \in Tasks : op[t] = "idle" /\ job[t] = NoJob
  /\ UNCHANGED vars

Next ==
  \/ \E t \in Callers : Call(t)
  \/ \E t \in Players : Frame(t) \/ CancelFrame(t)
  \/ \E t \in Tasks : Advance(t)
  \/ Around \/ AtRest

Spec == Init /\ [][Next]_vars

\* The loop and the executor go on, and every deadline passes.  Nothing is assumed of the
\* board, of users or of the cable.
Fairness == \A t \in Tasks : WF_vars(Advance(t))
FairSpec == Spec /\ Fairness

-----------------------------------------------------------------------------
(* Properties *)

TypeOK ==
  /\ ser \in Handles /\ sim \in BOOLEAN /\ port \in Ports
  /\ link \in [Tasks -> Links] /\ job \in [Tasks -> Jobs]
  /\ awaited \in SUBSET Tasks /\ holder \in Tasks \cup {Nobody}
  /\ sent \in Numbers /\ changes \in 0 .. MaxChanges
  /\ rx \in Seq(Message) /\ tx \in Seq(Line)
  /\ up \in BOOLEAN /\ resets \in 0 .. MaxResets
  /\ abandoned \in SUBSET Numbers /\ ran \in [1 .. MaxSends -> Nat]
  /\ op \in [Tasks -> Ops] /\ pings \in [Tasks -> 0 .. HandshakeAttempts]
  /\ last_addr \in Numbers
  /\ since \in [Tasks -> Numbers] /\ alone \in SUBSET Tasks

\* The sends whose thread may touch the port.
AtWork(t) == t \in awaited /\ job[t].stage \in {"write", "read", "reopen", "opening"}

\* The lock keeps awaited sends apart across the write, the reopen and the second write:
\* two threads share the port only when the caller of one of them was cancelled.
OneWorker == \A t, u \in Tasks : AtWork(t) /\ AtWork(u) => t = u

\* The lock is never left locked: whoever holds it waits for a thread that is at work, or
\* resumes next.  A holder that failed, was cancelled or has gone would stop the board for
\* every later procedure.
LockIsServed ==
  holder # Nobody => AtWork(holder) \/ (Ended(holder) /\ job[holder].stage # "sim")

\* The answer a send returns is its own, or one that nobody waited for to the end: its
\* deadline had passed, its caller was cancelled, an I/O error made it go out twice; or
\* text a board printed while it booted.  The answers of sends that went well never mix.
OwnAnswer ==
  \A t \in Tasks : t \in awaited /\ job[t].stage = "back" =>
    job[t].line.to \in {0, job[t].msg.id} \cup abandoned

\* The one retry of send: whatever fails, a board executes a command at most twice (a gate
\* opens, a wristband is woken), and twice only if its first answer went unheard.  (That this
\* was an I/O error, and neither a passed deadline nor a cancel, abandoned does not tell.)
AtMostTwice ==
  \A n \in 1 .. MaxSends : ran[n] <= 2 /\ (ran[n] = 2 => n \in abandoned)

\* The address a procedure connects to was read by its own wake, not left by an earlier
\* one, even if the board answers OK without an address; unless another wake ran at the
\* same time or the answer was one that nobody had waited for.
AddressIsOwn ==
  \A t \in alone : op[t] = "woken" =>
    last_addr = 0 \/ last_addr > since[t] \/ last_addr \in abandoned

\* Every send ends, with an answer, an empty answer or an exception, whatever the board and
\* the cable do: once the last of the MaxSends sends is out, a time comes when none is
\* under way, not even a thread that was left behind.
SendsEnd == <>[](\A t \in Tasks : job[t].stage = "none")

\* serial_io.py:187: dropping the old input makes one clean answer per request.  (With no
\* send cancelled.)
CleanAnswer ==
  \A t \in Tasks : t \in awaited /\ job[t].stage = "back" =>
    job[t].line = Empty \/ job[t].line.to = job[t].msg.id
=============================================================================
