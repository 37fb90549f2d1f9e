----------------------------- MODULE ServicePanel -----------------------------
(***************************************************************************)
(* What a console drives besides the procedures: the boards and the LED    *)
(* patterns (application/device_service.py over adapters/devices/split.py) *)
(* with the sockets every handler reports to (adapters/web/ws_admin.py,    *)
(* ws_tablet.py, presenter.py).                                            *)
(*                                                                         *)
(* One task per socket handles one message at a time; a pattern is played  *)
(* by a task of its own.  pc(s) names the await at which the task of s is  *)
(* suspended, hand[s].then what follows it.  A procedure is reduced to     *)
(* what the panel sees of it: whose task it is in, what it reports to whom *)
(* and when the session is reset (TicketFlow has the rest).  Reports to    *)
(* one endpoint that follow each other are one broadcast.                  *)
(***************************************************************************)
EXTENDS ClientPool

CONSTANTS
  MaxPlayers,                 \* bound: pattern tasks alive at once
  Patterns,                   \* LED_PATTERNS
  NoPattern,
  MaxCommands, MaxDrops       \* bounds: commands and images, lost connections

ASSUME Nulls == NoPattern \notin Patterns
ASSUME PanelBounds ==
  MaxCommands \in Nat /\ MaxDrops \in Nat /\ MaxPlayers \in Nat \ {0}

Players == 1 .. MaxPlayers      \* a pattern task is known by a number
NoPlayer == 0

VARIABLES
  conn,       \* per role: is_connected of its OperatorDevice
  flow,       \* session.flow
  name,       \* self._pattern_name
  task,       \* self._pattern_task
  player,     \* per pattern task: where it is, and whether it has been cancelled
  hand,       \* per socket: its handler
  commands, drops,
  \* history, read by no guard:
  owner,      \* the sockets whose tasks serve the session
  asked,      \* one of them has asked the tablets for a face, and none was passed on since
  broken,     \* a report failed in one of them and ended it, or lost the face
  crossed,    \* a pattern was cancelled while another command awaited a cancelled one
  early       \* sockets whose command began before the session did

led == <<name, task, player>>
counters == <<commands, drops>>
history == <<owner, asked, broken, crossed, early>>
vars == <<sockets, iter, conn, flow, led, hand, counters, history>>

Roles == {"nfc", "gate"}
Points == {"gone", "ready", "emit", "waiting", "connecting", "sending", "work"}
Flows == {"issue", "entry", "return"}
NoFlow == "none"
busy == flow # NoFlow

\* What follows a report of a procedure that is not over, and which of these reports
\* a try of the procedure surrounds.
Starting == {"ask", "ask_logged", "asked", "tag"}
Duties == Starting \cup {"prompt", "done", "reset"}
Follow == {"ready", "gone", "play", "disconnect", "solid", "snapshot", "face"} \cup Duties

\* The await a handler is suspended at, what follows it, the pattern task whose end it awaits;
\* what it is about: a role, a pattern or a procedure; and had: a pattern was playing when
\* its stop began, the port has been opened, or its start has failed.
About == Roles \cup Patterns \cup Flows \cup {NoPattern}
Handler == [pc : Points, then : Follow, awaits : Players \cup {NoPlayer}, had : BOOLEAN,
            about : About]
Ready == [pc |-> "ready", then |-> "ready", awaits |-> NoPlayer, had |-> FALSE,
          about |-> NoPattern]
Gone == [Ready EXCEPT !.pc = "gone"]
NoTask == [at |-> "none", plays |-> NoPattern, cancelled |-> FALSE]

Init ==
  /\ PoolInit
  /\ conn = [r \in Roles |-> FALSE] /\ flow = NoFlow
  /\ name = NoPattern /\ task = NoPlayer /\ player = [k \in Players |-> NoTask]
  /\ hand = [s \in Sockets |-> Gone]
  /\ commands = 0 /\ drops = 0
  /\ owner = {} /\ asked = FALSE /\ broken = FALSE /\ crossed = FALSE /\ early = {}

-----------------------------------------------------------------------------
(* Pieces the handlers share *)

pc(s) == hand[s].pc
Await(s, h) ==
  hand' = [hand EXCEPT ![s] = h] /\ iter' = [iter EXCEPT ![s] = NoIteration]

\* A task that has ended keeps its name until the handler that cancelled it has seen it.
Alive(k) == k # NoPlayer /\ player[k].at \notin {"none", "ended"}

\* A broadcast to one endpoint begins, and what comes after it.
Emit(s, e, next) ==
  /\ hand' = [hand EXCEPT ![s] = [Ready EXCEPT !.pc = "emit", !.then = next]]
  /\ iter' = [iter EXCEPT ![s] = Before(e)]

\* The same in a procedure, whose task goes on.
Tell(s, e, next) ==
  /\ hand' = [hand EXCEPT ![s].pc = "emit", ![s].then = next]
  /\ iter' = [iter EXCEPT ![s] = Before(e)]
Begin(s, f, failed, next) ==
  /\ hand' = [hand EXCEPT ![s] = [Ready EXCEPT !.pc = "emit", !.then = next, !.about = f,
                                              !.had = failed]]
  /\ iter' = [iter EXCEPT ![s] = Before("admin")]

Receives(s) ==
  /\ pc(s) = "ready" /\ s \in open /\ commands < MaxCommands
  /\ commands' = commands + 1 /\ UNCHANGED drops

\* The end of _start_pattern, in a player table that may have lost a task just before.
Play(s, p, players) ==
  \E k \in Players :
    /\ players[k].at = "none" /\ \A j \in 1 .. k - 1 : players[j].at # "none"
    /\ player' = [players EXCEPT ![k] = [at |-> "new", plays |-> p, cancelled |-> FALSE]]
    /\ task' = k /\ name' = p
    /\ Emit(s, "admin", "ready")
    /\ UNCHANGED conn

\* What a pattern was stopped for: the port is closed, or a colour is sent.
Proceed(s, what) ==
  \/ /\ what = "disconnect"
     /\ conn' = [conn EXCEPT !["nfc"] = FALSE] /\ Emit(s, "admin", "ready")
  \/ what = "solid" /\ Await(s, [Ready EXCEPT !.pc = "sending"]) /\ UNCHANGED conn

\* The end of _stop_pattern_task: if a pattern played when it began, the name is cleared
\* and the flags are sent first.
\* Mutant: the task is cleared in place of the name.
StoppedWrongly(s, what, h, players) ==
  /\ \/ h /\ task' = NoPattern /\ Emit(s, "admin", what) /\ UNCHANGED <<conn, name>>
     \/ ~h /\ Proceed(s, what) /\ UNCHANGED <<task, name>>
  /\ player' = players
Stopped(s, what, h, players) ==
  /\ \/ h /\ name' = NoPattern /\ Emit(s, "admin", what) /\ UNCHANGED conn
     \/ ~h /\ Proceed(s, what) /\ UNCHANGED name
  /\ player' = players /\ UNCHANGED task

AfterCancel(s, what, p, h, players) ==
  \/ what = "play" /\ Play(s, p, players)
  \/ what # "play" /\ Stopped(s, what, h, players)

\* _cancel_pattern_task takes the task and awaits its end; with none alive the handler goes
\* straight on.  Mutant: the old task is not cancelled.
ReplacePatternOnly(s, what, p) ==
  /\ AfterCancel(s, what, p, name # NoPattern, player)
  /\ UNCHANGED crossed
ReplacePattern(s, what, p) ==
  /\ \/ /\ Alive(task)
        /\ player' = [player EXCEPT ![task].cancelled = TRUE]
        /\ task' = NoPlayer
        /\ Await(s, [pc |-> "waiting", then |-> what, awaits |-> task,
                    had |-> name # NoPattern, about |-> p])
        /\ UNCHANGED <<name, conn>>
     \/ ~Alive(task) /\ AfterCancel(s, what, p, name # NoPattern, player)
  /\ crossed' = (crossed \/ \E u \in Sockets : pc(u) = "waiting")

-----------------------------------------------------------------------------
(* Sockets come and go *)

\* accept, add, hello (to itself only); a tablet then sends the flags to the consoles.
Join(s) ==
  /\ pc(s) = "gone" /\ s \notin open
  /\ pool' = pool \cup {s} /\ open' = open \cup {s}
  /\ \/ s \in Consoles /\ Await(s, Ready)
     \/ s \in Tablets /\ Emit(s, "admin", "ready")
  /\ UNCHANGED <<conn, flow, led, counters, history>>

Drop(s) ==
  /\ s \in open /\ drops < MaxDrops
  /\ open' = open \ {s} /\ drops' = drops + 1
  /\ UNCHANGED <<pool, iter, conn, flow, led, hand, commands, history>>

\* The finally of __call__.  Mutant: an exception leaves the socket in the pool.
EndedKeeping(s) == pool' = IF pc(s) = "ready" THEN pool \ {s} ELSE pool
Ended(s) == pool' = pool \ {s}

\* The server closes the connection of a handler that has ended.
Leave(s) ==
  /\ Ended(s) /\ open' = open \ {s}
  /\ \/ s \in Consoles /\ Await(s, Gone)
     \/ s \in Tablets /\ Emit(s, "admin", "gone")

\* receive_json finds the connection closed.
Closed(s) ==
  /\ pc(s) = "ready" /\ s \notin open
  /\ Leave(s)
  /\ UNCHANGED <<conn, flow, led, counters, history>>

-----------------------------------------------------------------------------
(* Boards: DeviceService.connect and disconnect *)

\* list_active, io_refresh_ports, an unknown message, and every command that is refused:
\* only a report.
Report(s) ==
  /\ Receives(s) /\ Emit(s, "admin", "ready")
  /\ UNCHANGED <<sockets, conn, flow, led, history>>

\* connect and disconnect are refused while a procedure runs.  Mutant: they are not.
MayChangeAlways == TRUE
MayChange == ~busy

Connect(s, r) ==
  /\ Receives(s) /\ MayChange /\ ~conn[r]
  /\ Await(s, [Ready EXCEPT !.pc = "connecting", !.about = r])
  /\ UNCHANGED <<sockets, conn, flow, led, history>>

\* SerialTransport.connect has the port, or not; then it also clears what another connect has
\* set.
PortOpens(s) ==
  /\ pc(s) = "connecting" /\ ~hand[s].had
  /\ conn' = [conn EXCEPT ![hand[s].about] = TRUE]
  /\ hand' = [hand EXCEPT ![s].had = TRUE]
  /\ UNCHANGED <<sockets, iter, flow, led, counters, history>>
OpenFails(s) ==
  /\ pc(s) = "connecting" /\ ~hand[s].had
  /\ conn' = [conn EXCEPT ![hand[s].about] = FALSE]
  /\ Emit(s, "admin", "ready")
  /\ UNCHANGED <<sockets, flow, led, counters, history>>

\* The board has settled and answered PING, or not: the connection is kept.
ConnectReturns(s) ==
  /\ pc(s) = "connecting" /\ hand[s].had
  /\ Emit(s, "admin", "ready")
  /\ UNCHANGED <<sockets, conn, flow, led, counters, history>>

\* The gate is disconnected at once; the reader only after its pattern has stopped.
Disconnect(s, r) ==
  /\ Receives(s) /\ MayChange /\ conn[r]
  /\ \/ /\ r = "gate" /\ conn' = [conn EXCEPT ![r] = FALSE] /\ Emit(s, "admin", "ready")
        /\ UNCHANGED <<led, crossed>>
     \/ r = "nfc" /\ ReplacePattern(s, "disconnect", "nfc")
  /\ UNCHANGED <<sockets, flow, owner, asked, broken, early>>

\* A board that does not come back after an I/O error (SerialTransport.send), under whatever
\* command is on its line.
PortLost(r) ==
  /\ conn[r]
  /\ \/ \E s \in Sockets : \/ pc(s) \in {"sending", "work"}
                           \/ pc(s) = "connecting" /\ hand[s].had /\ hand[s].about = r
     \/ r = "nfc" /\ \E k \in Players : player[k].at = "line"
  /\ conn' = [conn EXCEPT ![r] = FALSE]
  /\ UNCHANGED <<sockets, iter, flow, led, hand, counters, history>>

-----------------------------------------------------------------------------
(* LEDs: set_led, stop_led and the pattern player *)

\* A pattern replaces the pattern that plays; a colour, or OFF, stops it first.
SetLed(s, what, p) ==
  /\ Receives(s) /\ conn["nfc"]
  /\ ReplacePattern(s, what, p)
  /\ UNCHANGED <<sockets, flow, owner, asked, broken, early>>

\* The awaited task has ended.
PatternEnded(s) ==
  /\ pc(s) = "waiting" /\ player[hand[s].awaits].at = "ended"
  /\ AfterCancel(s, hand[s].then, hand[s].about, hand[s].had,
                 [player EXCEPT ![hand[s].awaits] = NoTask])
  /\ UNCHANGED <<sockets, flow, counters, history>>

SolidReturns(s) ==
  /\ pc(s) = "sending" /\ Emit(s, "admin", "ready")
  /\ UNCHANGED <<sockets, conn, flow, led, counters, history>>

\* _run_pattern between two awaits: a frame is put on the line only if no procedure runs and
\* the reader is connected; then it is held for a while.
Frame(k) ==
  /\ player[k].at \in {"new", "hold"} /\ ~player[k].cancelled
  /\ player' = [player EXCEPT ![k].at = IF ~busy /\ conn["nfc"] THEN "line" ELSE "hold"]
  /\ UNCHANGED <<sockets, iter, conn, flow, name, task, hand, counters, history>>

FrameReturns(k) ==
  /\ player[k].at = "line" /\ ~player[k].cancelled
  /\ player' = [player EXCEPT ![k].at = "hold"]
  /\ UNCHANGED <<sockets, iter, conn, flow, name, task, hand, counters, history>>

\* CancelledError reaches it at whatever it awaits.  Mutant: an except clause around the hold
\* swallows it.
PlayerEndsOnLine(k) ==
  /\ player[k].cancelled /\ player[k].at = "line"
  /\ player' = [player EXCEPT ![k] = [NoTask EXCEPT !.at = "ended", !.cancelled = TRUE]]
  /\ UNCHANGED <<sockets, iter, conn, flow, name, task, hand, counters, history>>
PlayerEnds(k) ==
  /\ player[k].cancelled /\ player[k].at # "ended"
  /\ player' = [player EXCEPT ![k] = [NoTask EXCEPT !.at = "ended", !.cancelled = TRUE]]
  /\ UNCHANGED <<sockets, iter, conn, flow, name, task, hand, counters, history>>

-----------------------------------------------------------------------------
(* A procedure, as far as the panel sees it *)

\* _guard_idle, require_device and session.start; then the state is shown.  An issue asks the
\* tablets next, entry and return go on to the wristband.
Follows(f) == IF f = "issue" THEN "ask" ELSE "tag"
Start(s, f) ==
  /\ Receives(s) /\ ~busy /\ conn["nfc"]
  /\ flow' = f /\ owner' = {s} /\ asked' = FALSE /\ broken' = FALSE
  /\ early' = {u \in Sockets \ {s} : pc(u) \notin {"ready", "gone"}}
  /\ Begin(s, f, FALSE, Follows(f))
  /\ UNCHANGED <<sockets, conn, led, crossed>>

\* Without the reader the start is aborted: the reason is logged and the session is reset,
\* whosever it is by then.
StartRefused(s, f) ==
  /\ Receives(s) /\ ~busy /\ ~conn["nfc"]
  /\ Begin(s, f, f # "issue", "reset")
  /\ UNCHANGED <<sockets, conn, flow, led, history>>

Cancel(s) ==
  /\ Receives(s) /\ Emit(s, "admin", "reset")
  /\ UNCHANGED <<sockets, conn, flow, led, history>>

\* An image: the tablets and the consoles are shown its result.
Picture(t) ==
  /\ Receives(t) /\ Emit(t, "tablet", "snapshot")
  /\ UNCHANGED <<sockets, conn, flow, led, history>>

\* The tasks that serve the session, without one that has asked the tablets and returns.
Asks(s) ==
  /\ owner' = owner \ {s}
  /\ asked' = (asked \/ owner = {s})
  /\ Await(s, Ready)

\* face_captured: the face goes to whatever procedure runs.  An issue shows the next state
\* and goes on to the wristband, an entry compares.
Face(t) ==
  \/ /\ flow = "issue" /\ owner' = owner \cup {t} /\ asked' = FALSE
     /\ Begin(t, flow, FALSE, "tag")
  \/ /\ flow = "entry" /\ owner' = owner \cup {t} /\ asked' = FALSE
     /\ Await(t, [Ready EXCEPT !.pc = "work", !.about = flow])
  \/ /\ flow \notin {"issue", "entry"} /\ Await(t, Ready)
     /\ UNCHANGED <<owner, asked>>

\* issue_tag, entry_tag, return_tag: nothing if by now another procedure runs, or none.
Tag(s) ==
  Await(s, IF flow = hand[s].about THEN [Ready EXCEPT !.pc = "work", !.about = flow] ELSE Ready)

\* on_tag and on_face_captured return.  A failure is logged and the session reset; an outcome
\* is sent to the tablets, then DONE is shown and the session reset; an entry whose
\* wristband is read asks for the face.
Comparing(s) == hand[s].about = "entry" /\ s \in Tablets
Reading(s) == hand[s].about = "entry" /\ s \in Consoles
WorkEnds(s) ==
  /\ pc(s) = "work"
  /\ \/ ~Comparing(s) /\ Tell(s, "admin", "reset")
     \/ ~Reading(s) /\ Tell(s, "tablet", "done")
     \/ Reading(s) /\ Tell(s, "admin", "prompt")
  /\ UNCHANGED <<sockets, conn, flow, led, counters, history>>

-----------------------------------------------------------------------------
(* How a broadcast ends *)

\* What a procedure does next, up to its next await.
Goes(s) ==
  \/ /\ hand[s].then = "ask" /\ Tell(s, "tablet", "ask_logged")
     /\ UNCHANGED <<flow, owner, asked, broken, early>>
  \/ /\ hand[s].then = "ask_logged" /\ Tell(s, "admin", "asked")
     /\ UNCHANGED <<flow, owner, asked, broken, early>>
  \/ /\ hand[s].then = "prompt" /\ Tell(s, "tablet", "asked")
     /\ UNCHANGED <<flow, owner, asked, broken, early>>
  \/ hand[s].then = "asked" /\ Asks(s) /\ UNCHANGED <<flow, broken, early>>
  \/ hand[s].then = "tag" /\ Tag(s) /\ UNCHANGED <<flow, owner, asked, broken, early>>
  \/ /\ hand[s].then = "done" /\ Tell(s, "admin", "reset")
     /\ UNCHANGED <<flow, owner, asked, broken, early>>
  \/ /\ hand[s].then = "reset"
     /\ Tell(s, "admin", IF hand[s].had THEN "tag" ELSE "ready")
     /\ flow' = NoFlow /\ owner' = {} /\ asked' = FALSE /\ broken' = FALSE /\ early' = {}

Proceeds(s) ==
  \/ /\ hand[s].then \in {"ready", "gone"} /\ Await(s, [Ready EXCEPT !.pc = hand[s].then])
     /\ UNCHANGED <<conn, flow, owner, asked, broken, early>>
  \/ /\ hand[s].then \in {"disconnect", "solid"} /\ Proceed(s, hand[s].then)
     /\ UNCHANGED <<flow, owner, asked, broken, early>>
  \/ /\ hand[s].then = "snapshot" /\ \E next \in {"face", "ready"} : Emit(s, "admin", next)
     /\ UNCHANGED <<conn, flow, owner, asked, broken, early>>
  \/ hand[s].then = "face" /\ Face(s) /\ UNCHANGED <<conn, flow, broken, early>>
  \/ Goes(s) /\ UNCHANGED conn

Reported(s) ==
  /\ pc(s) = "emit" /\ ~Changed(s)
  /\ pool' = pool \ Dead(s)
  /\ Proceeds(s)
  /\ UNCHANGED <<open, led, counters, crossed>>

\* RuntimeError: inside start, on_face_captured and on_tag it is caught and the procedure
\* aborted, elsewhere it ends the handler.  Mutant: start is not wrapped in _safe.
CaughtNever(s) == FALSE
Caught(s) == hand[s].then \in Starting \cup {"prompt"} /\ ~hand[s].had

\* After an abort of a start, issue_tag, entry_tag or return_tag is called all the same.
Aborts(s) ==
  /\ hand' = [hand EXCEPT ![s].then = "reset", ![s].had = hand[s].then = "tag"]
  /\ iter' = [iter EXCEPT ![s] = Before("admin")]

\* (history) It was a report outside every try: of the outcome, DONE or the reason of an
\* abort, or of the face.
Lost(s) ==
  \/ s \in owner /\ hand[s].then \in {"done", "reset"}
  \/ hand[s].then \in {"snapshot", "face"}

Raises(s) ==
  /\ pc(s) = "emit" /\ Changed(s)
  /\ \/ Caught(s) /\ Aborts(s) /\ UNCHANGED <<sockets, owner, broken>>
     \/ /\ ~Caught(s) /\ hand[s].then # "gone" /\ Leave(s)
        /\ owner' = owner \ {s}
        /\ broken' = (broken \/ Lost(s))
     \/ hand[s].then = "gone" /\ Await(s, Gone) /\ UNCHANGED <<sockets, owner, broken>>
  /\ UNCHANGED <<conn, flow, led, counters, asked, crossed, early>>

-----------------------------------------------------------------------------
Message(s) ==
  \/ Report(s) \/ Cancel(s)
  \/ \E f \in Flows : Start(s, f) \/ StartRefused(s, f)
  \/ \E r \in Roles : Connect(s, r) \/ Disconnect(s, r)
  \/ \E p \in Patterns : SetLed(s, "play", p)
  \/ SetLed(s, "solid", NoPattern)

\* What the server does without anybody's help.
Continue(s) ==
  \/ Closed(s) \/ PortOpens(s) \/ OpenFails(s) \/ ConnectReturns(s)
  \/ PatternEnded(s) \/ SolidReturns(s)
  \/ Reported(s) \/ Raises(s)

\* Nobody has anything more to say: the bound.
AtRest == commands = MaxCommands /\ UNCHANGED vars

Next ==
  \/ \E s \in Sockets : Join(s) \/ Drop(s) \/ Continue(s) \/ WorkEnds(s)
  \/ \E s \in Consoles : Message(s)
  \/ \E s \in Tablets : Picture(s)
  \/ \E k \in Players : Frame(k) \/ FrameReturns(k) \/ PlayerEnds(k)
  \/ \E r \in Roles : PortLost(r)
  \/ AtRest

Spec == Init /\ [][Next]_vars

\* The loop resumes what can go on, and the work of a procedure ends by itself (every wait
\* in on_tag has a timeout; TicketFlow: CapturedIsServed).  Nothing is assumed of people or
\* of connections.
Fairness ==
  /\ \A s \in Sockets : WF_vars(Continue(s) \/ WorkEnds(s))
  /\ \A k \in Players : WF_vars(PlayerEnds(k))
FairSpec == Spec /\ Fairness

-----------------------------------------------------------------------------
(* Properties *)

TypeOK ==
  /\ pool \subseteq Sockets /\ open \subseteq Sockets /\ iter \in [Sockets -> Iteration]
  /\ conn \in [Roles -> BOOLEAN] /\ flow \in Flows \cup {NoFlow}
  /\ name \in Patterns \cup {NoPattern} /\ task \in Players \cup {NoPlayer}
  /\ player \in [Players -> [at : {"none", "new", "line", "hold", "ended"},
                             plays : Patterns \cup {NoPattern}, cancelled : BOOLEAN]]
  /\ hand \in [Sockets -> Handler]
  /\ commands \in 0 .. MaxCommands /\ drops \in 0 .. MaxDrops
  /\ owner \subseteq Sockets /\ asked \in BOOLEAN /\ broken \in BOOLEAN
  /\ crossed \in BOOLEAN /\ early \subseteq Sockets

\* Unless two commands replaced or stopped a pattern at the same time, no pattern plays that
\* nobody can stop: every live player is the recorded one or has been cancelled, and the
\* name the consoles are shown is what plays.
OnePlayer ==
  ~crossed =>
    /\ \A k \in Players : Alive(k) /\ ~player[k].cancelled => k = task
    /\ Alive(task) => name = player[task].plays

\* A busy session has a task that goes on with it, or waits for a face that the tablets have
\* been asked for; unless a broadcast that is not in a try raised in such a task or lost the
\* face: then every start is refused until somebody cancels.
Serves(s) == pc(s) = "work" \/ (pc(s) = "emit" /\ hand[s].then \in Duties)
BusyIsServed == busy => broken \/ asked \/ \E s \in owner : Serves(s)

\* A procedure loses the reader to an I/O error, or to a connect or disconnect that was
\* accepted before it began; never to a later command.
PortKept ==
  [][\A s \in Sockets :
       busy /\ busy' /\ conn["nfc"] /\ ~conn'["nfc"] /\ hand'[s] # hand[s] => s \in early]_vars

\* A socket whose connection broke leaves the pool, whether its task finds out, a broadcast
\* does, or its handler ends with an exception: else every broadcast would go on sending to
\* it and the consoles would be shown a tablet that is not there.  (Stated for the time after
\* the last of the MaxDrops lost connections.)
ClosedLeaves == <>[](pool \subseteq open)

\* No handler waits for ever for a pattern to stop or for a colour to be sent, so that a
\* console never stops reacting.  (After the last of the MaxCommands commands.)
CommandsEnd == <>[](\A s \in Sockets : pc(s) \notin {"waiting", "sending"})
=============================================================================
