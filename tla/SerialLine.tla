------------------------------ MODULE SerialLine ------------------------------
(***************************************************************************)
(* adapters/devices/serial_io.py: SerialTransport, one request and one     *)
(* answer at a time over a USB serial port, with one reopen after an I/O   *)
(* error; and the board at the other end of the cable.                     *)
(*                                                                         *)
(* Three kinds of process meet here.  The loop runs connect, disconnect    *)
(* and send up to their next await.  Blocking calls (_io, _reopen_sync)    *)
(* run in executor threads, which read and write self._ser while the loop  *)
(* goes on, and which a cancelled caller leaves behind.  The board takes   *)
(* whole lines out of rx and puts whole lines into tx.                     *)
(***************************************************************************)
EXTENDS Integers, Sequences

CONSTANTS
  Tasks,          \* tasks of the server that may have a send under way
  Nobody,         \* the lock is free
  MaxSends,       \* bound: sends in a behaviour; a send is known by its number
  MaxChanges,     \* bound: connects and disconnects in a behaviour
  MaxResets       \* bound: resets of the board

ASSUME NobodyIsNoTask == Nobody \notin Tasks
ASSUME LineBounds == MaxSends \in Nat /\ MaxChanges \in Nat /\ MaxResets \in Nat

VARIABLES
  ser,            \* self._ser: no handle, a good one, or one that fails every call
  sim, port,      \* self._sim, self._port
  link,           \* per task: where its transport.connect is
  job,            \* per task: its send
  awaited,        \* tasks whose send is still awaited; other jobs are orphan threads
  holder,         \* who holds self._lock
  sent, changes,  \* sends, connects and disconnects so far
  rx, tx,         \* lines on their way to the board, and to the server
  up,             \* the board runs (it is not booting)
  resets,
  \* history, read by no guard:
  abandoned,      \* sends whose answer may turn up though nobody waits for it
  ran             \* per send: how often the board executed it

count == <<sent, changes>>
handle == <<ser, sim, port>>
board == <<rx, tx, up, resets>>
history == <<abandoned, ran>>
lineVars == <<handle, link, job, awaited, holder, count, board, history>>

Handles == {"none", "good", "stale"}
Ports == {"none", "COM", "SIM"}
Links == {"none", "opening", "settling", "true", "false"}
Words == {"WAKE", "SIGNAL", "RGB", "PING"}
Stages == {"none", "sim", "queued", "write", "read", "back", "reopen", "opening",
           "lost", "raised"}
Numbers == 0 .. MaxSends
Message == [id : Numbers, word : Words]

\* Answers: "OK", "ADDR" for OK ADDR=..., "NO_TAG" for ERR NFC_NO_TAG, "ERR" for every
\* other failure, "" when the deadline passed, "READY" for what a board prints at boot.
Answers == {"OK", "ADDR", "NO_TAG", "ERR", "", "READY"}
Line == [to : Numbers, word : Answers]

Empty == [to |-> 0, word |-> ""]
Banner == [to |-> 0, word |-> "READY"]
NoJob == [stage |-> "none", msg |-> [id |-> 0, word |-> "PING"], try |-> 1,
          via |-> "none", line |-> Empty]
Jobs == [stage : Stages, msg : Message, try : {1, 2}, via : Ports, line : Line]

LineInit ==
  /\ ser = "none" /\ sim = FALSE /\ port = "none"
  /\ link = [t \in Tasks |-> "none"]
  /\ job = [t \in Tasks |-> NoJob] /\ awaited = {} /\ holder = Nobody
  /\ sent = 0 /\ changes = 0 /\ rx = <<>> /\ tx = <<>> /\ up = TRUE /\ resets = 0
  /\ abandoned = {} /\ ran = [n \in 1 .. MaxSends |-> 0]

-----------------------------------------------------------------------------
(* Pieces the steps share *)

is_connected == ser # "none" \/ sim

Change == changes < MaxChanges /\ changes' = changes + 1

Stage(t, s) == job' = [job EXCEPT ![t].stage = s]

\* The thread or the loop has what the caller of send waits for.
Ended(t) == t \in awaited /\ job[t].stage \in {"sim", "back", "lost", "raised"}

\* async with self._lock is left, by a result, an exception or a cancellation.
\* Mutant: only a result releases the lock.
ReleasedByResult(t) ==
  holder' = IF holder = t /\ job[t].stage = "back" THEN Nobody ELSE holder
Released(t) == holder' = IF holder = t THEN Nobody ELSE holder

\* The answer send_ok accepts: a first token OK that no failure word follows.
Accepts(line) == line.word \in {"OK", "ADDR"}

\* What the board puts on the cable reaches the server only while the port is open.
Emitted(line) == IF ser = "good" THEN Append(tx, line) ELSE tx

Resets ==
  resets < MaxResets /\ resets' = resets + 1 /\ rx' = <<>> /\ up' = FALSE

\* Opening the port discards what was buffered, and resets a board that is wired to DTR.
OpenedPort ==
  /\ ser' = "good" /\ tx' = <<>>
  /\ UNCHANGED <<rx, up, resets>> \/ Resets

-----------------------------------------------------------------------------
(* connect and disconnect *)

\* Up to the first await; an open port and SIM answer at once.
ConnectBegin(t, p) ==
  /\ link[t] = "none" /\ Change
  /\ \/ is_connected /\ link' = [link EXCEPT ![t] = "true"] /\ UNCHANGED handle
     \/ /\ ~is_connected /\ p = "SIM"
        /\ sim' = TRUE /\ port' = "SIM" /\ UNCHANGED ser
        /\ link' = [link EXCEPT ![t] = "true"]
     \/ /\ ~is_connected /\ p = "COM"
        /\ link' = [link EXCEPT ![t] = "opening"] /\ UNCHANGED handle

ConnectOpened(t) ==
  /\ link[t] = "opening"
  /\ OpenedPort /\ port' = "COM"
  /\ link' = [link EXCEPT ![t] = "settling"]
  /\ UNCHANGED <<sim, job, awaited, holder, count, history>>

\* The handler of a failed open forgets the handle and the port, whoever set them.
ConnectFails(t) ==
  /\ link[t] = "opening"
  /\ ser' = "none" /\ port' = "none"
  /\ link' = [link EXCEPT ![t] = "false"]
  /\ UNCHANGED <<sim, job, awaited, holder, count, board, history>>

\* After OPEN_SETTLE_S the boot text so far is discarded; errors there are ignored.
ConnectSettled(t) ==
  /\ link[t] = "settling"
  /\ tx' = IF ser = "good" THEN <<>> ELSE tx
  /\ link' = [link EXCEPT ![t] = "true"]
  /\ UNCHANGED <<handle, job, awaited, holder, count, rx, up, resets, history>>

\* Without a handle the port is kept: a reopen under way is not told.
Disconnect ==
  /\ is_connected /\ Change
  /\ sim' = FALSE
  /\ ser' = IF sim THEN ser ELSE "none"
  /\ port' = "none"
  /\ tx' = IF sim THEN tx ELSE <<>>
  /\ UNCHANGED <<link, job, awaited, holder, sent, rx, up, resets, history>>

-----------------------------------------------------------------------------
(* send *)

\* Up to the lock: SIM only sleeps, and without a handle send raises at once.
Submit(t, w) ==
  /\ job[t].stage = "none" /\ sent < MaxSends
  /\ sent' = sent + 1 /\ UNCHANGED changes /\ awaited' = awaited \cup {t}
  /\ job' = [job EXCEPT ![t] =
       [NoJob EXCEPT
          !.msg = [id |-> sent + 1, word |-> w],
          !.stage = IF sim THEN "sim" ELSE IF ser = "none" THEN "raised" ELSE "queued",
          !.line = IF sim THEN [to |-> sent + 1, word |-> "OK"] ELSE Empty]]

\* asyncio.Lock is first come, first served.  Mutant: send takes no lock.
AcquireUnlocked(t) ==
  /\ t \in awaited /\ job[t].stage = "queued"
  /\ Stage(t, "write")
  /\ UNCHANGED <<handle, link, awaited, holder, count, board, history>>
Acquire(t) ==
  /\ t \in awaited /\ job[t].stage = "queued" /\ holder = Nobody
  /\ \A u \in awaited : job[u].stage = "queued" => job[t].msg.id <= job[u].msg.id
  /\ holder' = t /\ Stage(t, "write")
  /\ UNCHANGED <<handle, link, awaited, count, board, history>>

\* An exception in _io: a first one makes the loop start _reopen_sync, a second one leaves
\* send; an orphan thread just ends.  Mutant: every exception is retried.
RaisedRetrying(t) ==
  job' = [job EXCEPT ![t] =
            IF t \notin awaited THEN NoJob ELSE [@ EXCEPT !.stage = "reopen"]]
Raised(t) ==
  job' = [job EXCEPT ![t] = IF t \notin awaited THEN NoJob
                            ELSE [@ EXCEPT !.stage =
                                    IF job[t].try = 1 THEN "reopen" ELSE "raised"]]

\* _io in its thread: the old input is discarded and the line written (an answer that
\* arrives between the two is as late as one that arrives after both).
Write(t) ==
  /\ job[t].stage = "write" /\ ser = "good"
  /\ tx' = <<>>
  /\ rx' = IF up THEN Append(rx, job[t].msg) ELSE rx
  /\ Stage(t, "read")
  /\ UNCHANGED <<handle, link, awaited, holder, count, up, resets, history>>

WriteFails(t) ==
  /\ job[t].stage = "write" /\ ser # "good"
  /\ Raised(t)
  /\ UNCHANGED <<handle, link, awaited, holder, count, board, history>>

\* The thread has a line: whichever line comes first.
Read(t) ==
  /\ job[t].stage = "read" /\ ser = "good" /\ tx # <<>>
  /\ tx' = Tail(tx)
  /\ job' = [job EXCEPT ![t] = IF t \notin awaited THEN NoJob
                               ELSE [@ EXCEPT !.stage = "back", !.line = Head(tx)]]
  /\ abandoned' = IF Head(tx).to = job[t].msg.id THEN abandoned
                  ELSE abandoned \cup {job[t].msg.id}
  /\ UNCHANGED <<handle, link, awaited, holder, count, rx, up, resets, ran>>

\* The deadline passes first: send returns an empty answer.
Deadline(t) ==
  /\ job[t].stage = "read"
  /\ job' = [job EXCEPT ![t] = IF t \notin awaited THEN NoJob
                               ELSE [@ EXCEPT !.stage = "back", !.line = Empty]]
  /\ abandoned' = abandoned \cup {job[t].msg.id}
  /\ UNCHANGED <<handle, link, awaited, holder, count, board, ran>>

\* The handle is gone or stale: the read raises, and the line already written stays written.
ReadFails(t) ==
  /\ job[t].stage = "read" /\ ser # "good"
  /\ Raised(t)
  /\ abandoned' = abandoned \cup {job[t].msg.id}
  /\ UNCHANGED <<handle, link, awaited, holder, count, board, ran>>

-----------------------------------------------------------------------------
(* _reopen_sync *)

\* The port is read once, here; the handle is closed and forgotten.
\* Mutant: the handle is remembered in place of the port.
ReopenBeginHandle(t) ==
  /\ job[t].stage = "reopen" /\ port # "none"
  /\ ser' = "none" /\ tx' = <<>>
  /\ job' = [job EXCEPT ![t].stage = "opening", ![t].via = ser]
  /\ UNCHANGED <<sim, port, link, awaited, holder, count, rx, up, resets, history>>
ReopenBegin(t) ==
  /\ job[t].stage = "reopen" /\ port # "none"
  /\ ser' = "none" /\ tx' = <<>>
  /\ job' = [job EXCEPT ![t].stage = "opening", ![t].via = port]
  /\ UNCHANGED <<sim, port, link, awaited, holder, count, rx, up, resets, history>>

ReopenWithoutPort(t) ==
  /\ job[t].stage = "reopen" /\ port = "none"
  /\ job' = [job EXCEPT ![t] = IF t \notin awaited THEN NoJob
                               ELSE [@ EXCEPT !.stage = "lost"]]
  /\ UNCHANGED <<handle, link, awaited, holder, count, board, history>>

\* One of the five attempts succeeds: the handle is set whatever happened meanwhile, and
\* the caller, if it still waits, runs _io again.
Reopened(t) ==
  /\ job[t].stage = "opening" /\ job[t].via = "COM"
  /\ OpenedPort
  /\ job' = [job EXCEPT ![t] = IF t \notin awaited THEN NoJob
                               ELSE [@ EXCEPT !.stage = "write", !.try = 2, !.via = "none"]]
  /\ UNCHANGED <<sim, port, link, awaited, holder, count, history>>

\* The five attempts are used up.  Mutant: they are not counted.
ReopenFailsUncounted(t) ==
  /\ job[t].stage = "opening"
  /\ ser' = "none" /\ job' = [job EXCEPT ![t].stage = "reopen"]
  /\ UNCHANGED <<sim, port, link, awaited, holder, count, board, history>>
ReopenFails(t) ==
  /\ job[t].stage = "opening"
  /\ ser' = "none"
  /\ job' = [job EXCEPT ![t] = IF t \notin awaited THEN NoJob
                               ELSE [@ EXCEPT !.stage = "lost"]]
  /\ UNCHANGED <<sim, port, link, awaited, holder, count, board, history>>

-----------------------------------------------------------------------------
(* The end of a send: pieces for the callers *)

\* The caller resumes with a result or an exception.  A failed reopen clears the handle.
Resume(t) ==
  /\ Released(t)
  /\ ser' = IF job[t].stage = "lost" THEN "none" ELSE ser
  /\ UNCHANGED <<sim, port>>

\* The caller is cancelled: the lock is free, a thread that runs goes on without it, a job
\* that no thread has begun disappears.
CancelSend(t) ==
  /\ t \in awaited
  /\ Released(t)
  /\ awaited' = awaited \ {t}
  /\ abandoned' = abandoned \cup {job[t].msg.id}
  /\ \/ job[t].stage \in {"write", "read", "reopen", "opening"} /\ UNCHANGED job
     \/ job[t].stage \notin {"read", "opening"} /\ job' = [job EXCEPT ![t] = NoJob]
  /\ UNCHANGED <<handle, link, count, board, ran>>

-----------------------------------------------------------------------------
(* The board *)

\* It executes the next line and answers; a board answers WAKE after many RF timeouts, so
\* the answer may come after the server's deadline.  (ERR to another command is treated
\* as an answer that never came.)
Execute(w) ==
  /\ up /\ rx # <<>>
  /\ LET m == Head(rx) IN
       /\ w \in CASE m.word = "WAKE" -> {"OK", "ADDR", "NO_TAG", "ERR"}
                  [] OTHER -> {"OK"}
       /\ tx' = Emitted([to |-> m.id, word |-> w])
       /\ ran' = [ran EXCEPT ![m.id] = @ + 1]
  /\ rx' = Tail(rx)
  /\ UNCHANGED <<handle, link, job, awaited, holder, count, up, resets, abandoned>>

\* A brown-out or an RF fault: what was received is lost, and the handle may go stale.
\* (Without a handle nothing can tell it from the reset at the next opening.)
BoardResets ==
  /\ up /\ ser = "good" /\ Resets
  /\ \/ UNCHANGED <<ser, tx>>
     \/ ser' = "stale" /\ tx' = <<>>
  /\ UNCHANGED <<sim, port, link, job, awaited, holder, count, history>>

BoardBoots ==
  /\ ~up /\ up' = TRUE
  /\ tx' = Emitted(Banner)
  /\ UNCHANGED <<handle, link, job, awaited, holder, count, rx, resets, history>>

\* The steps a send takes by itself, on the loop and in its thread.
SendStep(t) ==
  \/ Acquire(t)
  \/ Write(t) \/ WriteFails(t) \/ Read(t) \/ Deadline(t) \/ ReadFails(t)
  \/ ReopenBegin(t) \/ ReopenWithoutPort(t) \/ Reopened(t) \/ ReopenFails(t)

ConnectStep(t) == ConnectOpened(t) \/ ConnectFails(t) \/ ConnectSettled(t)
=============================================================================
