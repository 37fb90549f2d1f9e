# inha-face-ticket: a TLA+ verification project

The repository is a face-ticket system. At a counter an operator **issues** a wristband: a
tablet takes a picture, a neural network turns it into an embedding, and the embedding and a
seat are written to the wristband over BLE. At **entry** the wristband is read again and a
live picture is compared with what it holds; a match opens a gate. At **return** the
wristband is blanked and its row in the issue table is closed. One Python server (asyncio)
drives it, with an NFC reader and a gate board on serial lines, browsers for the operator
and the visitor, and ESP32 firmware in the wristband.

Paths below are relative to `src/server/src/faceticket` unless they start with `src/`.

## 1. Inventory

| Component | State | Operations | Talks to |
|---|---|---|---|
| Issue table `adapters/persistence/sqlite_repo.py` | `issues` rows: wristband, seat, issued/returned | `record_issue` (refuses an active duplicate), `record_return`, `find_active_*` | flows (threads behind one lock) |
| Procedures `application/flow_runner.py`, `application/flows/` | the one `Session` (flow, seat, name, embedding) | `issue_start`, `entry_start`, `return_start`, `*_tag`, `face_captured`, `cancel`, `_mark_done`, `_abort` | all adapters |
| Admin and tablet sockets `adapters/web/ws_admin.py`, `ws_tablet.py` | one task per connection | dispatch of one message at a time | runner, device service, toggles |
| Presenter and client pool `presenter.py`, `client_pool.py` | set of sockets, last state | `emit_state`, `request_capture`, `broadcast` | browsers |
| BLE central `adapters/ble/bleak_central.py` | one `client` | connect, chunked embedding write and read, id, seat, flag, LED, disconnect | wristband |
| Operator device `adapters/devices/operator.py`, `split.py`, `serial_io.py` | port, lock, last wristband address | `wake_wristband_wait`, `signal_pass`, `signal_deny`, LED commands | NFC board, gate board |
| Device service `application/device_service.py` | pattern task and its name | connect, disconnect, `set_led`, pattern player | operator device |
| Toggle service and backend swap `application/toggle_service.py`, `adapters/ble/swap.py` | which BLE and NFC backends are in use | `toggle` | BLE central, device |
| Face pipeline `adapters/face/`, `domain/embedding.py`, `domain/frontality.py` | network weights | extract, cosine | tablet socket |
| Tablet page `web/static/tablet/hooks.jsx` | countdown timers, camera | capture after a countdown, retry | tablet socket |
| Admin page `web/static/admin/` | last state shown | buttons, enabled by state | admin socket |
| Wristband firmware `src/firmware/wristband` | radio mode, embedding, seat, notification timer, clasp switch | NFC wake, GATT callbacks, mode switch | BLE central, NFC board |
| NFC reader firmware `src/firmware/tools/esp32-pn5180-smoke` | none kept | wake write with verification, LED | serial line |
| Gate board firmware `src/firmware/arduino-gate` | none kept | PASS, DENY | serial line |
| Start-up and container `adapters/web/lifespan.py`, `infra/container.py` | wiring | start, stop | all |

**What is hard.** The server is single threaded but not atomic: a procedure is a chain of
awaits (up to 15 s for a wristband, then GATT round trips), there is one `Session` object and
one BLE client for everybody, and `cancel`, a second console, a second tablet or an old
countdown may act between any two awaits. Most flow code checks the session before the
awaits and uses it after them. Writes to the wristband are not transactions and most of
their results are ignored. The firmware polls flags that callbacks and interrupts set.

**What makes each part correct.**

- Issue table: no wristband and no seat out twice; nothing is deleted or reopened.
- Procedures: a reference comes from a wristband, not from the visitor's own picture; the gate
  opens on a justified comparison only; one procedure at a time; every session ends; what
  is recorded is what was captured; the consoles see the documented states; nothing is left
  connected.
- Client pool: a socket that joins or leaves does not make a procedure fail silently; one that
  is gone is dropped.
- BLE central and wristband: a read returns one whole embedding; one wake leads to one BLE
  period and back to ESP-NOW; nothing stays connected; a shown colour goes off.
- Operator device: an answer belongs to the command it answers; a command is not executed more
  often than it is retried; an address belongs to the wake it is used by; no caller waits for ever.
- Device service: at most one pattern plays, and it is the one shown; the reader is not closed
  under a procedure.
- Toggles: the backend is not switched under a procedure.

`PROJECT.json` lists the single hazards at their lines.

## 2. Plan

The order of the work, the most important behaviour first.

1. `IssueRegistry`, `IssueRepo`: the abstract promise and the table, with refinement.
2. `TicketFlow`: the three procedures over the shared session; composes `IssueRepo`, and
   implements `Desk`, the promise of `docs/flows.md`.
3. `SerialLine`, and `OperatorDevice` over it (EXTENDS): one board behind one serial port, with
   its lock, deadlines, reopen and retry, and the tasks that use it.
4. `ClientPool`, and `ServicePanel` over it: the sockets and broadcasts, the LED patterns, the
   boards' connections, and the commands of several consoles.
5. `Wristband`, `BleCentral` over it, and `WristbandLink` over both: the firmware, the BLE
   client with the mock/real swap, and the procedures that use them.
6. Proofs about 1 to 5, in one module for each composition. Three arguments have a module of
   their own: the count behind the serial retry (`OperatorRetryProofs`), what needs one
   console, or one undisturbed console and tablet (`TicketFlowAloneProofs`), and the
   implementation of `Desk` (`TicketFlowDeskProofs`).

`TicketFlow` leaves open what 3 and 5 do in detail: a wake may fail at any time, any wristband
may answer, any GATT operation may fail. The detailed modules leave open which
procedure runs. There is no module with all of it: the product of their states is beyond TLC, and the
properties of one level do not depend on the detail of the other.

All of it is done: every safety invariant and every action property of the passing runs is
proved. What is left is liveness, which stays with TLC (section 6), and the parts of section 7.

## 3. Modules

| Module | Models | Lines of code it stands for |
|---|---|---|
| `IssueRegistry` | the promise: who sits where | abstract |
| `Desk` | the promise: one procedure at a time, one look, one outcome | abstract |
| `IssueRepo` | the `issues` table and its two changing calls | `sqlite_repo.py:15-102` |
| `TicketFlow` | procedures, session, sockets' tasks, BLE client, wristbands' memory, countdowns, gate calls | `flow_runner.py`, `flows/*.py`, `session.py` and the parts of `bleak_central.py`, `operator.py`, `hooks.jsx` they wait for |
| `SerialLine` | the serial transport, its executor threads, the board | `serial_io.py`; external: the boards' command loops |
| `OperatorDevice` | connect and handshake, wake with retry, signals, LED frames, disconnect | `operator.py` |
| `ClientPool` | the live set of sockets and the iterator over it | `client_pool.py` |
| `ServicePanel` | admin and tablet sockets, device service, LED patterns | `device_service.py`, `ws_admin.py`, `ws_tablet.py`, `presenter.py`, `split.py` |
| `Wristband` | radio mode, trigger block, GATT callbacks, embedding store, notification timer | `src/firmware/wristband/src/main.cpp` |
| `BleCentral` | the swap, the one client, the mock | `swap.py`, `mock_central.py`, `bleak_central.py` |
| `WristbandLink` | wake, connect, chunked transfer, disconnect, cancel, toggle | `bleak_central.py`, `toggle_service.py` and the flows' use of them |
| `*MC` | values of the constants | |
| `*Proofs` | theorems | |

### IssueRepo

`rows` is the table in insertion order. Both calls hold a `threading.Lock` and commit before
they return, so each is one action. A refused `record_issue` changes nothing and is no
step. `SeatOf` reads the registry's state off the rows, and `ImplementsRegistry` is the
registry's specification under that mapping.

### TicketFlow

**Tasks and segments.** Every admin and tablet socket is one asyncio task that handles one
message after the other. Code between two awaits runs alone, so an action is one such
segment. `pc[t]` names the await at which `t` is suspended:

| `pc` | suspended at |
|---|---|
| `ready` | the socket (or an unscheduled task) |
| `announce` | the log and state broadcasts of `*Flow.start` |
| `tag` | between `start` (or the picture) and `*_tag` |
| `wake`, `connect`, `read` | `wake_wristband_wait`, `connect_wristband`, the first GATT read of `on_tag` |
| `write`, `seat`, `record`, `disc` | issue: the embedding, the seat, before `record_issue`, the `ble_session` exit |
| `clear`, `disc`, `record` | return: `clear_wristband`, the exit, before `record_return` |
| `flag`, `prompt`, `leave` | entry: `read_contact_flag`, the prompt to the tablets, the `finally` |
| `image`, `captured`, `verdict` | tablets: extraction, the issue's state broadcast, the result effect |
| `complete`, `done`, `linger` | `_mark_done` |
| `abort`, `aborted` | `_abort`: its log line and the BLE disconnect; after them, before the reset |

Consecutive awaits between which no shared state is read or written (log lines, sounds, LED
effects) share one value. Python exceptions are the failing alternatives (`IssueStepFails`,
`ConnectFails`, the abort alternative of `Wake`).

**Broadcasts that raise.** `ClientPool.broadcast` raises `RuntimeError` in whoever calls it
when a socket has joined or left while it awaited a send. `Raises(t)` and `ResetRaises(t)` say what
becomes of a task at each report, at most `MaxRaises` times. In `start` and
`IssueFlow.on_face_captured` `_safe` aborts (`StartRaises`, `CapturedRaises`; the countdown may be
running by then, and `*_tag` is still called). In `on_tag` it is an outcome that failed: before the prompt
of an entry (`PromptRaises`), or after the row was written, which stays (`OutcomeRaises`).
In `EntryFlow.on_face_captured` it is a failed attempt (`VerdictRaises`). No try surrounds
`emit_complete`, the DONE of `_mark_done`, the log line of `_abort` and of `cancel`, and the report
of a picture: the handler ends with its socket (`Dies`). For the first ones the session is then
not reset, by anybody, until somebody cancels: `broken` remembers the session in which this
happened (`ReportRaises`).

**The connection.** `link` is the wristband the one client is connected to. `Release` is
`BleakBleCentral.disconnect`: an error of the stack is logged and dropped
(`bleak_central.py:79-82`), and the wristband may stay connected with the server none the
wiser. `left` says that this has happened to the client of the moment; the next connect
replaces the client.

**What a task remembers** is in `proc` (whose `on_tag` it runs), `buf` (the embedding it
extracted or read), `wid` (the id `on_tag` read) and `res` (the `ok` or `passed` it carries).
Everything else is read from the shared `session`, `link` and `rows` at the time the code
reads it. That is what the interesting behaviours depend on.

**Data.** An embedding is the face it is of, or one of three others: `Zero` (blank), `NotNumber` (what
`np.asarray(None, float32)` leaves in the first four bytes) and `Torn` (a write that stopped
between chunks). `CanMatch` says when the cosine threshold can be reached. It may always fail, so
false rejections are included; a false acceptance of a different face is a property of the network and is
left out, except for `Torn`, of which nothing is assumed. The id a wristband reports is the wristband
itself. A name travels with its seat and is dropped.

**Surroundings.** `connect_wristband` falls back to any wristband that advertises, so `link`
may become any band. A GATT operation may fail at any time. `DeviceLost` is a serial reopen that fails or a
disconnect whose busy check has already passed. `WearChanges` moves the clasp switch. A
countdown (`armed`) may end in a picture, a rejected picture (every tablet then schedules a
retry) or nothing; no message withdraws it. `ServerRestart` keeps the table and the wristbands and forgets
everything else.

**History variables** `epoch`, `origin`, `during` and `basis` record which session this is,
where the session's embedding came from and in which session it was read, in which session a
task read the embedding it still holds, and what a verdict was computed from. `during` is set
when `on_tag` reads and goes into `origin` when it assigns, so that an `on_tag` that outlives
its session can be told from one that does not. No guard reads the last three; `epoch` only
bounds the number of starts.

**Desk.** The outcomes of `docs/flows.md` without sockets, tasks, awaits and failures, and without
its refusal on the contact flag and the blanking of a returned wristband: `Begin`, `Look`, one of
`HandOut`, `TakeBack`, `Decide`, then `End`, at any time. `ImplementsDesk` maps `doing`, `seat`
and `look` to the fields of the session, `seatOf` to the seat each wristband has in the table,
`passes` to the calls under way to the gate, and `settled` to the places of a task from which it
reports its outcome (`Outcome`). A cancel, a second console or a second tablet breaks it, as
the violated runs show for its parts. So does a log line that raises after `record_issue`
(`issuance.py:98`, `103`): the row stays and the outcome becomes a failure (`OutcomeRaises`).

### SerialLine and OperatorDevice

Blocking calls run in executor threads: they touch `self._ser` while the event loop goes
on, and a caller that is cancelled leaves its thread behind. So `job[t]` is the send of task `t`
and the thread that works for it, and `awaited` says who still waits; a job outside
`awaited` is an orphan thread.

| `job[t].stage` | where |
|---|---|
| `queued` | at `async with self._lock` |
| `write`, `read` | `_io` in its thread, before and after the line is written |
| `reopen`, `opening` | `_reopen_sync`, before and after the old handle is closed |
| `sim`, `back` | an answer is there (`sim`: the port is SIM) |
| `lost`, `raised` | an exception: the reopen failed, or the second `_io` |

`op[t]` is the await of `OperatorDevice` above it. `holder` is the lock. The board takes
whole lines from `rx` and puts whole lines into `tx`; it may reset at any time, which loses `rx`,
prints a boot line later and may leave the handle stale. Opening the port may reset it too.

*Data.* A send is known by its number and a line by the number it answers (0 for boot text),
which is what the code cannot see and the properties are about. Answers are reduced to
what the code tells apart: `OK`, `OK ADDR=`, `ERR NFC_NO_TAG`, other failures, the empty answer of a
passed deadline, boot text. `last_addr` is the number of the WAKE whose answer carried the
address. `abandoned` and `ran` are history: the sends nobody waited for to the end, and how
often the board executed each.

Only the LED player is ever cancelled by the server (`_cancel_pattern_task`), so only `Frame`
has a `CancelFrame`.

### ClientPool and ServicePanel

`broadcast` awaits one `send_json` after the other while it iterates over the live set. The
iterator remembers the size (`iter`), and a set of another size makes it raise
`RuntimeError` in whoever broadcasts. Inside a start it is caught and the procedure is aborted
(`flow_runner.py:157-161`), inside an `on_tag` it is a failed outcome; elsewhere it ends the handler and its socket leaves the pool.

`hand[s]` is the handler of socket `s`: `pc` the await it is at, `then` what follows.
Pattern tasks are known by numbers, so that a task that has been replaced is still there until it
ends. A procedure is reduced to what the panel sees: it sets `busy`, works, reports (broadcasts
that may raise, each to the consoles or to the tablets) and resets. The console's task of an
issue returns once the tablets have been asked for a face, and that of an entry once its
wristband is read (`Asks`); the session then has no task until a picture comes (`Picture`,
`Face`), and a tablet's task goes on with it. An outcome is sent to the tablets first, then DONE is
shown (`WorkEnds`, `Goes`). A connect sets the port before the board has settled and answered
PING, so a procedure may start in between (`PortOpens`, `ConnectReturns`).

History: `owner` (the sockets whose tasks serve the session), `asked` (the tablets have been
asked for a face and none has been passed on), `broken` (a report that no try surrounds raised in
such a task, or lost the face), `crossed` (two commands met at a pattern), `early` (handlers
that were at work when the session began).

### Wristband, BleCentral and WristbandLink

The firmware's `loop()` and the callbacks of the BLE stack share flags without a lock. The C3
has one core; a callback may preempt the loop anywhere, so the loop's operations are cut where
a callback can make a difference: `enterBleMode` after `bleBegin` (`starting`), the way back
between the decision of `loop()` (`main.cpp:743`, `745`) and `bleEnd` (`ending`: a client may
connect in between and is then dropped), the expiry of
a notification between the colour and the timer (`expiring`). A callback itself runs alone.
`Disconnects` lets the stack advertise again or not: the NimBLE version the build uses does so by
default, which the comment in `onDisconnect` does not expect.

The server has one client object that every connect replaces. A client is known by the task that made
it, so "the client of the moment is another's" is `client # t`. `BleSwap` picks the backend
anew for every call (`chosen`), so a procedure may connect over one and disconnect over the
other. An embedding has `Chunks` pieces, each `[at, of]`: which piece and whose. An offset
is written before each read.

Here an issue writes and an entry reads, and both start with a wake and end with `disconnect`;
the seat, the id, the contact flag and the table are in `TicketFlow`. History:
`due` (triggers not yet used up), `visits`, `told`, `overlapped`, `left`, `shared`, `cut`, each
explained where it is declared. The last three name the ways a promise is lost, so that
a property says exactly when it holds.

## 4. Runs

| Run | Instance | Question |
|---|---|---|
| `issue_table` | 2 wristbands, 2 seats, 4 rows | Is the table a ledger that implements the registry? |
| `flow` | 1 console, 1 tablet, 1 band, 2 faces, 2 sessions, 1 cancel, 1 broadcast that raises | What holds in spite of cancels, stale tasks, stale pictures and a report that raises, and do sessions end? |
| `consoles` | 2 consoles, 1 tablet, 1 band, 1 face, 2 sessions, 1 cancel | What can two command streams never do? |
| `undisturbed` | 1 console, 1 tablet, 2 bands, 2 faces, 2 seats, 3 sessions, no cancel, 1 restart | Without a cancel, and with nobody joining or leaving during a broadcast, do the documented order and the clean end hold under every I/O failure? |
| `two_tablets` | 1 console, 2 tablets | *violated*: one procedure at a time |
| `stale_record` | 1 console, 1 tablet, 1 cancel | *violated*: what is recorded is what was captured |
| `face_first` | 1 console, 1 tablet, 1 cancel | *violated*: face check after the tag |
| `return_blanks` | 1 console, 1 tablet | *violated*: a completed return that takes back an issued wristband has blanked it |
| `serial_line` | 2 callers, 1 LED player, 2 sends, 2 connects or disconnects, 1 reset, 2 handshake PINGs | Do answers, the lock, the retry and the address stay with their send, and does every send end? |
| `late_answer` | the same without a player | *violated*: a clean answer per request |
| `panel` | 2 consoles, 1 tablet, 1 pattern, 2 players, 3 commands or pictures, 1 lost connection | What survives broadcasts that raise and commands that overlap? |
| `radio` | 1 issue, 1 entry, 2 chunks, 1 fault, 1 cancel, 1 toggle | Does the wristband come back, and is what was read whole? |

**Bounds.** `MaxSessions` limits starts, `MaxCancels` cancels, `MaxRestarts` restarts and
`MaxRaises` broadcasts that raise. Three sessions (`undisturbed`) are one that leaves something
behind (a countdown, a task, a row), one that is disturbed by it and one after that. Two
suffice in `flow` and `consoles`, where a cancel, a raise or a second console already provides the
disturbance; for any number of sessions there are the theorems on the same properties
(section 6). One raise and one cancel may meet in one session. `MaxArmed = 1` countdown per tablet: a second would deliver the same picture later, and a picture
can be delivered at any time. `MaxRows = 4` exceeds the issues three sessions can record, so
it never blocks `IssueRecord`. `consoles` and the runs of `TicketFlow` without fairness
use the symmetry of sockets, bands, faces and seats; the other runs use none.

`serial_line`: two sends are the least that can get each other's answer; the reopen writes a third copy.
One reset is one error to recover from, also in the middle of a recovery. The proof
invariants were also checked with three sends. `panel`: three commands or pictures are two that
overlap at a pattern or a broadcast, and one after that (an issue with its picture and a console
that disturbs them); two players are the pattern that ends and the one that begins. `radio`: two procedures share the client; two chunks are one that is
torn from the other; `MaxFaults = 1` is one budget for the failed clear of the trigger, a
reboot, a lost link, a lost CTRL and a failing disconnect, each of which happens in some
behaviour, at every place. Two procedures are two wakes, so the second meets whatever the first left.

**Deadlock** is checked everywhere. In `TicketFlow` the clasp switch can always move, so a server
that is stuck would not show as a deadlock; `NoOrphanSession` and `CapturedIsServed` are the properties that
look for it. `OperatorDevice` and `WristbandLink` stop when their bounds are used up: `AtRest` lets them, but only
when no task is under way, so tasks that are stuck with nothing else to do are a deadlock. In
`ServicePanel` sockets and boards come and go; `CommandsEnd` looks for what is stuck there.

**Fairness.** In `TicketFlow`, `FairSpec` has weak fairness of `Continue(t)`, the segments the event loop runs
once an await ends. The waits are bounded in the code (15 s for wake and connect, serial
deadlines, GATT errors, `DONE_LINGER_SECONDS`), and the loop runs every ready task. A browser that
never reads its socket and so blocks a broadcast is excluded by this assumption. Operators,
visitors, cameras and cables have no fairness.

`serial_line`: weak fairness of `Advance(t)`, the steps of the loop and of the executor for task `t`,
deadlines included; the board may never answer, boot or reset. `panel`: weak fairness of
what a handler does next and of the end of a pattern task; nobody has to send a command. `radio`: weak
fairness of the firmware's `loop()` and nothing of the server, since the wristband must come
back whatever becomes of its procedure. `SendsEnd`, `ClosedLeaves` and `CommandsEnd` are stated
as `<>[]`: the commands and lost connections are bounded in the model, and the properties say what holds
after the last of them.

### What the passing runs show

- `GateJustified`, `EntryReferenceFromBand`: a PASS stands on a comparison with a wristband's
  reference although a picture carries no session and the session may change between the
  comparison and the PASS.
- `EntryReferenceIsCurrent` (one console): the reference was read in this very session. It
  holds because the console that could begin the next session is the one that is still in
  `on_tag`. With two consoles the code does not give it (one reads, the other cancels and
  starts an entry, the first assigns), which is why
  `consoles` does not claim it.
- `NoOrphanSession`, `CapturedIsServed`, `DoneGivesWay`: every abort and reset that must happen
  does, also when a broadcast raises inside a procedure's `try`. They except the sessions in
  which a report outside every `try` raised (`broken`): those stay busy until somebody
  cancels, and a DONE whose reset is lost that way stays shown.
- `NoPreemption`: a session is never overwritten, two simultaneous starts included.
- `undisturbed`: the documented order of states, of tag and face, of capture and record, and
  the released connection hold as long as nobody cancels, there is one tablet, and nobody joins or
  leaves during a broadcast. `QuietIsClean` excepts a disconnect the stack fails (`left`).
  `StatesInOrder` allows DONE to be followed by a new start, for which `flow_runner.py:150`
  provides and the document does not.
- `ImplementsDesk`: then the procedures have the outcomes of `docs/flows.md`, but for the refusal on
  the contact flag and the blanking. Beyond the properties above it says that no later picture replaces the one a procedure has, that each procedure has at
  most one outcome although two tasks take turns in it, and that a PASS compares with the
  embedding this entry read.
- `OneWorker`, `LockIsServed`, `SendsEnd`: the lock spans the reopen and the retry, is never left locked, and
  every send ends, even if an LED frame is cancelled between any two of its steps.
- `OwnAnswer`: the answers of sends that went well never mix. Exactly three kinds of line can be
  taken for another's: boot text, the answer of a send that was given up, and the second copy of one
  that was written twice.
- `AtMostTwice`: a reopen does not turn one PASS into three. A send that ran twice is one
  that was abandoned; whether by the I/O error of its retry, the property does not say.
- `AddressIsOwn`: a lone wake connects to the address of its own WAKE, although `_last_addr` is
  kept between wakes and read after an await.
- `OnePlayer`: as long as two commands do not meet at a pattern. When they do, the second finds no
  task to cancel (`device_service.py:149-150`) while the first still awaits the old one; both
  create one (129), and the one created first can no longer be stopped. The
  property excludes exactly this with `crossed`.
- `BusyIsServed`: a busy session has a task or waits for a picture. A `RuntimeError` out of a
  broadcast strands it only if it hits a report that no `try` surrounds (`broken`).
- `PortKept`: a command accepted after a procedure began does not take its reader. One that was
  under way by then may (`early`).
- `ClosedLeaves`, `CommandsEnd`: a dead socket leaves the pool, and no console waits for ever.
- `OneEntryPerWake`, `BandReturns`: the flag between interrupt and loop neither loses a
  trigger nor uses it twice, and the wristband ends in ESP-NOW whatever becomes of its visitor.
- `NotThrownOut`: a flag left from one visit does not end the next, because `enterBleMode`
  clears it after the stack is up. It is about what `loop()` decides: a client that
  connects after the decision, for the advertising time-out say, is dropped by `bleEnd` without a
  CTRL, and so may be the second client of one BLE period.
- `ReadWhole`: a procedure that is alone reads one embedding, in order. After a cancelled
  procedure has used the client at the same time, nothing is promised (`shared`).
- `QuietIsClosed`: what may stay connected, and by which of four ways (`left`).
- `NotifyIsTimed`: the colour's timer is set after the call that clears it.

### Findings

1. `two_tablets`: the session is documented as one procedure at a time, but every tablet's
   picture starts its own `issue_tag`.
2. `stale_record`: a cancel while the reader waits resets the session; `on_tag` continues,
   writes four NaN bytes to the wristband and records an active row with an empty seat.
3. `face_first`: the countdown of a cancelled procedure delivers its picture to the entry that
   follows and completes it as failed while its wristband is still being read.
4. `return_blanks`: the result of `clear_wristband` is ignored. A wristband that was issued is
   taken back and the return announced as complete while it still holds the face or the seat.
5. `late_answer`: a comment promises a clean answer per request after the flush
   (`serial_io.py:187`); a board that boots after the flush, or answers an earlier command late, is heard
   in place of the answer.

## 5. Mutants

Every property of a passing run has a mutant: a small operator next to the one it replaces
(`CanStartUnguarded` beside `CanStart`, and so on), with the bug a maintainer could make there. TLC finds the
property violated with it under the run's own configuration.

## 6. Proofs

All for every value of the constants, under the named assumptions of the modules:
`RepoConstants`; `Sockets`, `Distinct`, `Bounds` (`TicketFlow`); `NobodyIsNoTask`, `LineBounds`,
`TasksAre`, `AttemptsAre` (the serial line); `SocketKinds`, `FiniteKinds`, `Nulls`, `PanelBounds`
(the panel); `BlankIsNoValue`, `BandBounds`, `LinkNames`, `LinkBounds` (the wristband). They say
that sentinels differ from the values and from each other where the code tells them apart, that
the kinds of sockets and tasks are disjoint, and that the bounds are numbers. The
bounds are arbitrary, so the number of sessions, sends, resets, commands, chunks and faults is too.

The theorems of `TicketFlowAloneProofs` and `TicketFlowDeskProofs` have one more hypothesis, which the code does not
enforce and which the violated runs show to be needed. `OneConsole`: there is one admin socket.
`Alone`: one admin socket, one tablet socket, `MaxCancels = 0` and `MaxRaises = 0`. Wristbands, faces, seats,
sessions, restarts, lost readers and failing I/O stay unrestricted, and under `OneConsole` cancels
and broadcasts that raise too.

| Theorem | Says | Argument |
|---|---|---|
| `TableTypeOK`, `TableOneActiveIssue` | types; no double issue | inductive together (`Inv`): an appended row is the only active one of its band and seat |
| `TableLedgerKept` | nothing deleted or reopened | from `Inv` and the two lemmas on what the calls do to the rows |
| `TableImplementsRegistry` | refinement | `SeatOf` after an insert and after a return; needs that a taken band has exactly one active row |
| `FlowTypeOK` | types | a row takes its id from `wid`, so `IdRead` (an issue has read an id by the time it writes) is added |
| `FlowReferenceFromBand`, `FlowNoPreemption` | see above | `SessionSteps`: a step keeps, resets, begins a session, or gives it a band's or a camera's embedding |
| `FlowGateJustified` | see above | `GateInv`: between comparison and PASS the task itself holds the face (`FaceHeld`) and the basis (`BasisHeld`) |
| `FlowNoOrphanSession` | see above | `Owned`: a session that waits for no face has a task that serves it or is bound to reset it, unless it is `broken`; a task's step keeps that up (`OwnerGoesOn`, `OwnedRaises`) and disturbs no other task (`ContinueFrame`) |
| `FlowDrivesTable` | the flows implement `IssueRepo!Spec` | only two actions change `rows`; `IdRead`, and a return with an unreadable id finds no row |
| `FlowOneActiveIssue`, `FlowImplementsRegistry` | no double issue, and the registry's promise, in the whole system | `FlowDrivesTable` with `TableOneActiveIssue` and `TableImplementsRegistry` instantiated |
| `FlowReferenceIsCurrent` (`OneConsole`) | see above | `CurrentInv`: tablets run `on_tag` for issues only (`TabletsIssue`), and a task between its read and its verdict is still in the session it read for (`ReadNow`), since a start needs the one console at its socket |
| `AloneOneProcedure`, `AloneQuietIsClean`, `AloneFaceAfterTag`, `AloneRecordedAsCaptured`, `AloneStatesInOrder` (`Alone`) | the documented behaviour | `AloneInv`: the shop is in one of eight phases (`NoSession` to `Admitting`), each of which says where both tasks can be, who may hold the connection, what is shown, and in `Issuing` that the connected wristband is the one that was read and holds the captured face. `Follows` says what a task does next at each `pc`; one lemma per phase shows where its steps lead |
| `AloneImplementsDesk` (`Alone`) | refinement | `ContinueUnseen`: all but seven actions leave the desk as it is. For those, the phases say what the session holds (`PhaseAt`) and that no other task has an outcome (`NoOtherOutcome`); `BasisNow`: a verdict under way compares with the session's reference; the table's `Inv` makes the wristband and the seat of a hand-out free |
| `LineTypeOK` | types | one lemma per kind of step of a job and of the cable |
| `LineLockIsServed`, `LineOneWorker` | the lock | `LockInv`: every awaited thread between write and answer works for the holder (`WorkerHolds`). A step is one of begin, enter, work, leave (`LockSteps`) |
| `LineOwnAnswer` | answers do not mix | `AnswerInv`: a line on the cable is loose (boot text or abandoned) or belongs to the one send that reads (`OnCable`), and is there once (`Once`); orphan threads work for abandoned sends (`OrphansLoose`). The lock makes the reader unique |
| `LineAddressIsOwn` | the address | `WakeInv`: numbers grow, so what a lone wake hears is younger than its beginning or loose |
| `LineAtMostTwice` | the retry | `RetryInv`: `Times(n)` counts the executions of send `n` and its copies on the cable together; it is 0 before the first write, at most 1 before the second, and the second comes only after the send is abandoned. A cardinality argument over the queue |
| `PanelTypeOK` | types | a handler that waits has a follow-up and a pattern of the right kind (`HandTyped`) |
| `PanelBusyIsServed`, `PanelPortKept` | the session and the reader | `PanelInv`: whoever may yet close a port was at it when the session began (`EarlyInv`); a task that serves the session is at a report or at work, and cannot leave without a reset, a question to the tablets or a raise outside every `try` (`OwnerInv`) |
| `PanelOnePlayer` | one pattern | `PlayInv`: until two commands meet, at most one handler waits for a pattern to end, and then none plays |
| `LinkTypeOK` | types | the wristband's half and the server's half apart (`BandNext`, `ServerNext`) |
| `LinkOneEntryPerWake` | one switch per trigger | `DueInv`: a set block and a switch under way each have a trigger behind them |
| `LinkNotifyIsTimed` | the timer | `NotifyInv`: a colour shown while another expires was written over it |
| `LinkNotThrownOut` | no first connection makes the loop switch without its CTRL | `TellInv`: a switch that is asked for in the first visit was asked for by its CTRL |
| `LinkQuietIsClosed` | nothing stays connected | `LinkInv`: a connection the server knows of belongs to a task that is still to disconnect it, over the backend that made it |
| `LinkReadWhole` | no torn read | `ReadInv`: the store is whole or somebody writes; a task that shares with nobody is alone and has done the pieces before its own |

The strengthened invariants were model-checked on the instances of section 4 (`IdRead`,
`GateInv` and `Owned` on that of `consoles`, the phases and `BasisNow` on that of
`undisturbed`) before they
were proved.

**Only model-checked:** the liveness properties `CapturedIsServed`, `DoneGivesWay`, `SendsEnd`,
`ClosedLeaves`, `CommandsEnd`, `BandReturns`, because fairness and ENABLED are beyond the
prover.

## 7. Not modelled

- The network's numerics and frontality: real-valued functions; only acceptance and resemblance
  are kept. The face layer of the toggles only chooses who extracts. That an extractor switched between
  an issue and its entry gives another vector (`facenet.py:66`) is numerics too.
- Pages' layout, sounds, log lines (`attach_ws_log_handler` included): nothing depends on them. The
  admin page's button gating is used to read `QuietIsClean`: without IDLE the START buttons stay
  disabled.
- TLS material, configuration, the container's wiring: no state after start-up. A restart is in
  `TicketFlow`.
- The wristband's OLED, its serial console and manual colours over ESP-NOW; the servo and lamps of
  the gate; the RF protocol of the NFC reader: far ends of an interface that is modelled.
- Who wins a race of two wristbands' advertisements: `TicketFlow` lets any wristband answer;
  `WristbandLink` has one.
- Hazards without a property: the ignored result of `write_seat` (`issuance.py:92`: no later step
  of the server reads the seat back), a disconnect that a reopen under way undoes (`serial_io.py:150`: nothing promises that it
  lasts; both steps are in `SerialLine`).
- The contact flag. `docs/flows.md:44` and `docs/ble-protocol.md:55` describe a flag that latches once
  the wristband has been opened; the firmware returns the level of a switch at the moment of the
  read (`main.cpp:461`). The models follow the code, and no property is stated about the difference.
- What the code allows and the models show, but no document rules out. These hazards are listed
  in `PROJECT.json` without a property, and the properties around them name them as exceptions:
  a reset that hits another's session (`flow_runner.py:142`); a wristband written by a
  server that then stops (`issuance.py:90`); a torn embedding (`bleak_central.py:87`); a port
  closed by a command that began before the procedure (`device_service.py:86`,
  `serial_io.py:101`); two commands that meet at a pattern (`device_service.py:163`); a colour
  written while another expires (`main.cpp:697`); a client that connects while the wristband is
  leaving BLE (`main.cpp:745`).
