----------------------------- MODULE WristbandLink -----------------------------
(***************************************************************************)
(* Procedures that wake a wristband, connect to it and write or read its   *)
(* embedding through the BLE central, while a console cancels them and     *)
(* switches the backend (application/toggle_service.py).  A procedure that *)
(* was cancelled goes on to its end: its task is not told.  TicketFlow has *)
(* the procedures in full; here an issue writes, an entry reads and then   *)
(* waits for a picture.                                                    *)
(***************************************************************************)
EXTENDS BleCentral

CONSTANTS
  Issues, Entries,  \* procedures, each started once
  Console,          \* the task that cancels
  MaxCancels, MaxToggles

ASSUME LinkNames ==
  /\ Console \notin Issues \cup Entries /\ Nobody \notin Issues \cup Entries
  /\ Issues \cap Entries = {} /\ Values = Issues
ASSUME LinkBounds == MaxCancels \in Nat /\ MaxToggles \in Nat

VARIABLES
  current,      \* the session that is busy, Nobody for none
  job,          \* per task
  cancels, toggles,
  \* history, read by no guard:
  left,         \* a connection may stay open: the backend was switched while a cancelled
                \* procedure went on, a cancelled entry returned, or disconnect() failed
  shared,       \* procedures that used the client of another, or their own with another
  cut           \* the last write did not end, or was shared

session == <<current, cancels, toggles>>
uses == <<shared, cut>>
vars == <<bandVars, backend, session, job, left, uses>>

Sessions == Issues \cup Entries
Tasks == Sessions \cup {Console}
Points == {"idle", "wake", "verify", "scan", "rescan", "connecting", "use", "offset",
           "chunk", "face", "led", "close", "closing", "reset", "done"}
Piece == [at : Pieces, of : Values \cup {Blank}]
NoPieces == [n \in Pieces |-> [at |-> n, of |-> Blank]]

\* Where a task is; whether its client was made from an address; the chunk it is at;
\* what it has read; whether disconnect will be called once more.
Job == [pc : Points, addressed : BOOLEAN,
        n : Pieces, buf : [Pieces -> Piece], again : BOOLEAN]
NoJob == [pc |-> "idle", addressed |-> FALSE,
          n |-> 1, buf |-> NoPieces, again |-> FALSE]

Init ==
  /\ BandInit /\ BackendInit
  /\ current = Nobody /\ job = [t \in Tasks |-> NoJob] /\ cancels = 0 /\ toggles = 0
  /\ left = FALSE /\ shared = {} /\ cut = FALSE

-----------------------------------------------------------------------------
(* Pieces the steps share *)

At(t, p) == job[t].pc = p
Goto(t, p) == job' = [job EXCEPT ![t].pc = p]
AtWork == {t \in Sessions : job[t].pc \notin {"idle", "done"}}
Using == {t \in Sessions : job[t].pc \in {"offset", "chunk"}}

\* A call to disconnect, and another one after it.
Ending(twice) == [NoJob EXCEPT !.pc = "close", !.again = twice]

\* A failed step: _abort disconnects, and before it, for twice, a finally clause does.
Fails(t, twice) == job' = [job EXCEPT ![t] = Ending(twice)]
ConnectFails(t) == Fails(t, t \in Issues)

\* disconnect has returned.
Closed(t) ==
  job' = [job EXCEPT ![t].pc = IF job[t].again THEN "close" ELSE "reset", ![t].again = FALSE]

-----------------------------------------------------------------------------
(* Start, cancel, toggle *)

Start(t) ==
  /\ At(t, "idle") /\ current = Nobody
  /\ current' = t
  /\ Goto(t, "wake")
  /\ UNCHANGED <<bandVars, backend, cancels, toggles, left, uses>>

\* _abort_no_log of a console: disconnect, then reset; idle or not.
Cancel ==
  /\ At(Console, "idle") /\ cancels < MaxCancels /\ cancels' = cancels + 1
  /\ Goto(Console, "close")
  /\ UNCHANGED <<bandVars, backend, current, toggles, left, uses>>

\* toggle is refused while the session is busy.  Mutant: it is not.
MayToggleAlways == TRUE
MayToggle == current = Nobody

Toggle(m) ==
  /\ toggles < MaxToggles /\ toggles' = toggles + 1
  /\ MayToggle /\ m # is_mock /\ SetMock(m)
  /\ left' = (left \/ (current = Nobody /\ AtWork # {}))
  /\ UNCHANGED <<bandVars, real, client, state, current, cancels, job, uses>>

-----------------------------------------------------------------------------
(* Wake: the NFC reader writes the trigger and reads it back *)

Wake(t) ==
  /\ At(t, "wake")
  /\ \/ trigger' = TRUE /\ due' = due + 1 /\ Goto(t, "verify")
     \/ UNCHANGED <<trigger, due>> /\ Fails(t, FALSE)
  /\ UNCHANGED <<mode, starting, ending, adv, link, switch, store, leds, faults, calls, overlapped,
                 backend, session, left, uses>>

\* A wristband that was faster has cleared it: the wake counts as failed.
WakeVerified(t) ==
  /\ At(t, "verify")
  /\ \/ trigger /\ Goto(t, "scan")
     \/ Fails(t, FALSE)
  /\ UNCHANGED <<bandVars, backend, session, left, uses>>

-----------------------------------------------------------------------------
(* connect_wristband *)

ConnectMock(t) ==
  /\ At(t, "scan") /\ chosen = "mock" /\ Goto(t, "use")
  /\ UNCHANGED <<bandVars, backend, session, left, uses>>

\* A client is made for an address, found or not, or for a name that is advertised.
Scanning(t) == (At(t, "scan") /\ chosen = "real") \/ At(t, "rescan")
ScanEnds(t, addressed) ==
  /\ Scanning(t) /\ (addressed => At(t, "scan")) /\ (addressed \/ adv)
  /\ NewClient(t)
  /\ job' = [job EXCEPT ![t].pc = "connecting", ![t].addressed = addressed]
  /\ UNCHANGED <<bandVars, session, left, uses>>

NotFound(t) ==
  /\ Scanning(t) /\ ConnectFails(t)
  /\ UNCHANGED <<bandVars, backend, session, left, uses>>

\* self.client may be another task's by now: then the new connection is nobody's.
Connected(t) ==
  /\ At(t, "connecting") /\ Connects(t)
  /\ IF client = t THEN Goto(t, "use") ELSE ConnectFails(t)
  /\ UNCHANGED <<store, leds, faults, due, overlapped, backend, session, left, uses>>

\* After an address the name is tried.
ConnectRaises(t) ==
  /\ At(t, "connecting")
  /\ IF job[t].addressed THEN Goto(t, "rescan") ELSE ConnectFails(t)
  /\ UNCHANGED <<bandVars, backend, session, left, uses>>

-----------------------------------------------------------------------------
(* write_embedding, read_embedding *)

\* The call goes to the backend of the moment, and stays with it.
Use(t) ==
  /\ At(t, "use")
  /\ \/ /\ chosen = "mock" /\ t \in Issues
        /\ state' = t /\ Goto(t, "led") /\ UNCHANGED shared
     \/ /\ chosen = "mock" /\ t \in Entries /\ UNCHANGED <<state, shared>>
        /\ job' = [job EXCEPT ![t].pc = "face",
                              ![t].buf = [n \in Pieces |-> [at |-> n, of |-> state]]]
     \/ /\ chosen = "real" /\ UNCHANGED state
        /\ Goto(t, IF t \in Issues THEN "chunk" ELSE "offset")
        /\ shared' = IF Using # {} THEN shared \cup Using \cup {t}
                     ELSE IF cut THEN shared \cup {t} ELSE shared
  /\ UNCHANGED <<bandVars, is_mock, real, client, session, left, cut>>

\* (history) The client of the moment is another task's.
Strays(t) == shared' = IF client = t THEN shared ELSE shared \cup {t}

WriteChunk(t) ==
  /\ At(t, "chunk") /\ t \in Issues /\ is_connected
  /\ Put(job[t].n, t)
  /\ Strays(t)
  /\ IF job[t].n = Chunks THEN Goto(t, "led") /\ cut' = (t \in shared')
     ELSE job' = [job EXCEPT ![t].n = @ + 1] /\ UNCHANGED cut
  /\ UNCHANGED <<radio, leds, faults, due, calls, overlapped, backend, session, left>>

ReadOffset(t) ==
  /\ At(t, "offset") /\ is_connected
  /\ Offset(job[t].n) /\ Goto(t, "chunk")
  /\ UNCHANGED <<radio, emb, leds, faults, due, calls, overlapped, backend, session, left, uses>>

\* A wristband without an embedding is refused with a colour.
ReadChunk(t) ==
  /\ At(t, "chunk") /\ t \in Entries /\ is_connected
  /\ LET got == [job[t].buf EXCEPT ![job[t].n] = Got] IN
     /\ Strays(t)
     /\ job' = [job EXCEPT ![t].buf = got,
                  ![t].n = IF @ = Chunks THEN @ ELSE @ + 1,
                  ![t].pc = IF job[t].n < Chunks THEN "offset"
                            ELSE IF \A n \in Pieces : got[n].of = Blank THEN "led" ELSE "face",
                  ![t].again = job[t].n = Chunks /\ \A n \in Pieces : got[n].of = Blank]
  /\ UNCHANGED <<bandVars, backend, session, left, cut>>

\* The client of the moment is not connected: the call raises, and what was written stays.
UseRaises(t) ==
  /\ t \in Using /\ ~is_connected
  /\ Fails(t, TRUE)
  /\ cut' = (cut \/ (t \in Issues /\ job[t].n > 1))
  /\ UNCHANGED <<bandVars, backend, session, left, shared>>

-----------------------------------------------------------------------------
(* The end of a procedure *)

Picture(t) ==
  /\ At(t, "face") /\ current = t
  /\ Goto(t, "led")
  /\ UNCHANGED <<bandVars, backend, session, left, uses>>

\* on_tag of an entry returns without disconnecting; after a cancel nobody will.
Forgotten(t) ==
  /\ At(t, "face") /\ current # t
  /\ job' = [job EXCEPT ![t] = [NoJob EXCEPT !.pc = "done"]]
  /\ left' = (left \/ link # Nobody)
  /\ UNCHANGED <<bandVars, backend, session, uses>>

Led(t) ==
  /\ At(t, "led") /\ job' = [job EXCEPT ![t] = Ending(job[t].again)]
  /\ \/ chosen = "real" /\ is_connected /\ Notify
     \/ ~(chosen = "real" /\ is_connected) /\ UNCHANGED <<leds, overlapped>>
  /\ UNCHANGED <<radio, store, faults, due, calls, backend, session, left, uses>>

\* disconnect: CTRL is written, then the connection is closed.
Close(t) ==
  /\ At(t, "close")
  /\ \/ chosen = "real" /\ is_connected /\ Controls /\ Goto(t, "closing")
     \/ /\ ~(chosen = "real" /\ is_connected) /\ Closed(t)
        /\ UNCHANGED <<radio, calls, faults>>
  /\ UNCHANGED <<store, leds, due, overlapped, backend, session, left, uses>>

\* An error is only logged.
ClosingEnds(t) ==
  /\ At(t, "closing") /\ Closed(t)
  /\ \/ is_connected /\ Disconnects /\ UNCHANGED <<faults, left>>
     \/ is_connected /\ Fault /\ left' = TRUE /\ UNCHANGED <<radio, calls>>
     \/ ~is_connected /\ UNCHANGED <<radio, calls, faults, left>>
  /\ UNCHANGED <<store, leds, due, overlapped, backend, session, uses>>

\* session.reset, whosever session it is by now.
Reset(t) ==
  /\ At(t, "reset")
  /\ current' = Nobody
  /\ job' = [job EXCEPT ![t] = [NoJob EXCEPT !.pc = IF t = Console THEN "idle" ELSE "done"]]
  /\ UNCHANGED <<bandVars, backend, cancels, toggles, left, uses>>

\* The wristband goes out of reach.
LinkLost ==
  /\ link # Nobody /\ Fault /\ Disconnects
  /\ UNCHANGED <<store, leds, due, overlapped, backend, session, job, left, uses>>

AtRest == AtWork = {} /\ At(Console, "idle") /\ UNCHANGED vars

-----------------------------------------------------------------------------
Procedure(t) ==
  \/ Start(t) \/ Wake(t) \/ WakeVerified(t)
  \/ ConnectMock(t) \/ NotFound(t) \/ (\E addressed \in BOOLEAN : ScanEnds(t, addressed))
  \/ Connected(t) \/ ConnectRaises(t)
  \/ Use(t) \/ WriteChunk(t) \/ ReadOffset(t) \/ ReadChunk(t) \/ UseRaises(t)
  \/ Picture(t) \/ Forgotten(t) \/ Led(t)

Band == (Loop \/ Reboots) /\ UNCHANGED <<backend, session, job, left, uses>>

Next ==
  \/ \E t \in Sessions : Procedure(t)
  \/ \E t \in Tasks : Close(t) \/ ClosingEnds(t) \/ Reset(t)
  \/ Cancel \/ \E m \in BOOLEAN : Toggle(m)
  \/ Band \/ LinkLost \/ AtRest

Spec == Init /\ [][Next]_vars

\* loop() runs for ever, and its timers expire.  Nothing is assumed of the server.
FairSpec == Spec /\ WF_vars(Loop /\ UNCHANGED <<backend, session, job, left, uses>>)

-----------------------------------------------------------------------------
(* Properties *)

TypeOK ==
  /\ mode \in {"ESPNOW", "BLE"} /\ starting \in BOOLEAN /\ ending \in BOOLEAN
  /\ adv \in BOOLEAN
  /\ link \in Sessions \cup {Nobody} /\ switch \in BOOLEAN /\ trigger \in BOOLEAN
  /\ emb \in [Pieces -> Values \cup {Blank}] /\ off \in Pieces
  /\ lit \in BOOLEAN /\ timer \in BOOLEAN /\ expiring \in BOOLEAN
  /\ faults \in 0 .. MaxFaults
  /\ due \in Int /\ visits \in Nat
  /\ told \in BOOLEAN /\ overlapped \in BOOLEAN
  /\ is_mock \in BOOLEAN /\ real \in BOOLEAN /\ client \in Sessions \cup {Nobody}
  /\ state \in Values \cup {Blank}
  /\ current \in Sessions \cup {Nobody} /\ job \in [Tasks -> Job]
  /\ cancels \in 0 .. MaxCancels /\ toggles \in 0 .. MaxToggles
  /\ left \in BOOLEAN /\ shared \subseteq Sessions /\ cut \in BOOLEAN

\* A wristband switches to BLE once per trigger that was written, however often the
\* interrupt fires and the poll looks; more often only if the block could not be cleared.
OneEntryPerWake == due >= 0

\* The embedding an entry has read is one that was written, whole and in order; unless a
\* cancelled procedure used the client at the same time, or the last write was cut off.
ReadWhole ==
  \A t \in Sessions : At(t, "face") /\ t \notin shared =>
    \E v \in Values \cup {Blank} : job[t].buf = [n \in Pieces |-> [at |-> n, of |-> v]]

\* When no procedure and no cancel is at work no wristband is left connected, for it could
\* not be woken again; except by the four left: a switch of the backend under a
\* cancelled procedure, a cancelled entry, an error of disconnect, a replaced client.
QuietIsClosed ==
  AtWork = {} /\ At(Console, "idle") =>
    link = Nobody \/ left \/ link # client

\* A notification that is shown has its timer running, so that it goes off after three
\* seconds; unless it was written while the loop was ending the one before.
NotifyIsTimed == lit => timer \/ overlapped

\* While a client is connected, the loop decides to go back to ESP-NOW only after a CTRL over
\* that very connection: a flag left from the last visit does not throw out a procedure.  (A
\* second client in one BLE period may be thrown out: the stack may advertise until the
\* loop has seen that the first has gone.  So may a client that connects between the
\* decision, for the time-out say, and bleEnd.)
NotThrownOut ==
  [][~ending /\ ending' /\ link # Nobody /\ visits = 1 => told]_vars

\* Whatever becomes of the procedure that woke it, a wristband returns to ESP-NOW, where it
\* can be woken, unless it is left connected; and no trigger is left unread.
BandReturns == <>[](link # Nobody \/ (mode = "ESPNOW" /\ ~trigger))
=============================================================================
