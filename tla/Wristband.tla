------------------------------- MODULE Wristband -------------------------------
(***************************************************************************)
(* firmware/wristband/src/main.cpp: one wristband.  Its loop switches the  *)
(* radio between ESP-NOW and BLE; the callbacks of the BLE stack run in a  *)
(* task of their own, on the one core, and may preempt the loop anywhere.  *)
(* A trigger block written by the NFC reader wakes it.                     *)
(***************************************************************************)
EXTENDS Integers

CONSTANTS
  Nobody,     \* no client
  Values,     \* embeddings a wristband may be given
  Blank,      \* zero bytes
  Chunks,     \* how many chunks carry an embedding
  MaxFaults   \* bound: I2C errors, reboots and lost connections

ASSUME BlankIsNoValue == Blank \notin Values
ASSUME BandBounds == Chunks \in Nat \ {0} /\ MaxFaults \in Nat

VARIABLES
  mode,       \* g_mode
  starting,   \* the loop is in enterBleMode, after bleBegin
  ending,     \* the loop is in enterEspnowMode, before bleEnd
  adv,        \* it advertises
  link,       \* the client it is connected to
  switch,     \* g_switchToEspnow
  trigger,    \* block 8 holds the wake payload
  emb, off,   \* g_embedding, chunk by chunk, and g_read_off
  lit, timer, \* a notification colour is on; g_notifyLedActive
  expiring,   \* the loop is in the second half of the expiry
  faults,
  \* history, read by no guard:
  due,        \* triggers written or not cleared, less switches to BLE
  visits,     \* connections since the last of them
  told,       \* the connected client has written to CTRL
  overlapped  \* the last notification was written while another expired

radio == <<mode, starting, ending, adv, link, switch, trigger>>
store == <<emb, off>>
leds == <<lit, timer, expiring>>
calls == <<visits, told>>
bandVars == <<radio, store, leds, faults, due, calls, overlapped>>

Pieces == 1 .. Chunks
BlankBand == [n \in Pieces |-> Blank]

BandInit ==
  /\ mode = "ESPNOW" /\ starting = FALSE /\ ending = FALSE /\ adv = FALSE /\ link = Nobody
  /\ switch = FALSE /\ trigger = FALSE
  /\ emb = BlankBand /\ off = 1
  /\ lit = FALSE /\ timer = FALSE /\ expiring = FALSE /\ faults = 0
  /\ due = 0 /\ visits = 0 /\ told = FALSE /\ overlapped = FALSE

-----------------------------------------------------------------------------
(* loop *)

Looping == ~starting /\ ~ending /\ ~expiring
Fault == faults < MaxFaults /\ faults' = faults + 1

\* checkNfcTrigger clears the block; that it could not is only logged.
\* Mutant: the block is not cleared.
ConsumeNever == UNCHANGED <<trigger, due, faults>>
Consume ==
  \/ trigger' = FALSE /\ UNCHANGED <<due, faults>>
  \/ Fault /\ due' = due + 1 /\ UNCHANGED trigger

\* The GPO interrupt or, if it was missed, the poll once a second finds a trigger, and
\* enterBleMode begins: ESP-NOW ends and bleBegin starts to advertise.
WakeUp ==
  /\ Looping /\ mode = "ESPNOW" /\ trigger
  /\ Consume
  /\ starting' = TRUE /\ adv' = TRUE
  /\ UNCHANGED <<mode, ending, link, switch, store, leds, calls, overlapped>>

\* The rest of enterBleMode: a flag set since bleBegin is lost.
\* Mutant: the flag is not cleared.
ClearedNever == UNCHANGED switch
Cleared == switch' = FALSE
BleEntered ==
  /\ starting /\ starting' = FALSE /\ mode' = "BLE"
  /\ Cleared
  /\ due' = due - 1
  /\ UNCHANGED <<ending, adv, link, trigger, store, leds, faults, calls, overlapped>>

\* The loop decides to go back to ESP-NOW, and calls enterEspnowMode.
Leave ==
  /\ ending' = TRUE
  /\ UNCHANGED <<mode, starting, adv, link, switch, trigger, store, leds, faults, due, calls,
                 overlapped>>

SwitchBack == Looping /\ mode = "BLE" /\ switch /\ Leave

\* Twenty seconds without a client.  Mutant: the time-out counts from the last visit.
UnusedSinceVisit == mode = "BLE" /\ ~switch /\ link = Nobody /\ visits > 0
Unused == mode = "BLE" /\ ~switch /\ link = Nobody
AdvertisingTimeout == Looping /\ Unused /\ Leave

\* bleEnd stops the advertising and drops whoever is connected, which may be a client that
\* came since the decision; onDisconnect sets the flag.
EnterEspnow ==
  /\ ending /\ ending' = FALSE
  /\ mode' = "ESPNOW" /\ adv' = FALSE /\ link' = Nobody
  /\ switch' = (switch \/ link # Nobody) /\ visits' = 0 /\ told' = FALSE
  /\ UNCHANGED <<starting, trigger, store, leds, faults, due, overlapped>>

\* Three seconds after a notification: applyRgbCommand turns the colour off first and
\* releases the timer last.
Expire ==
  /\ Looping /\ timer
  /\ lit' = FALSE /\ timer' = FALSE /\ expiring' = TRUE /\ overlapped' = FALSE
  /\ UNCHANGED <<radio, store, faults, due, calls>>
Expired ==
  /\ expiring /\ expiring' = FALSE /\ timer' = FALSE
  /\ UNCHANGED <<radio, store, lit, faults, due, calls, overlapped>>

Loop ==
  \/ WakeUp \/ BleEntered \/ SwitchBack \/ AdvertisingTimeout \/ EnterEspnow
  \/ Expire \/ Expired

-----------------------------------------------------------------------------
(* Callbacks, as the client or the reader causes them *)

\* onConnect; the stack advertises no more.
Connects(c) ==
  /\ adv /\ link = Nobody /\ link' = c /\ adv' = FALSE
  /\ visits' = visits + 1 /\ told' = FALSE
  /\ UNCHANGED <<mode, starting, ending, switch, trigger>>

\* onDisconnect; the stack may advertise again until the loop sees the flag.
Disconnects ==
  /\ link' = Nobody /\ switch' = TRUE /\ adv' \in BOOLEAN /\ told' = FALSE
  /\ UNCHANGED <<mode, starting, ending, trigger, visits>>

\* CtrlCB, if the write without a response arrives.
Controls ==
  \/ switch' = TRUE /\ told' = TRUE
     /\ UNCHANGED <<mode, starting, ending, adv, link, trigger, visits, faults>>
  \/ Fault /\ UNCHANGED <<radio, calls>>

\* LedCB shows the colour, which releases the timer, and then sets the timer.
\* Mutant: it sets the timer first.
NotifyArmedFirst ==
  /\ lit' = TRUE /\ timer' = FALSE /\ overlapped' = expiring /\ UNCHANGED expiring
Notify ==
  /\ lit' = TRUE /\ timer' = TRUE /\ overlapped' = expiring /\ UNCHANGED expiring

\* A reset: the embedding was in RAM, the trigger block was not.
Reboots ==
  /\ Fault
  /\ mode' = "ESPNOW" /\ starting' = FALSE /\ ending' = FALSE /\ adv' = FALSE
  /\ link' = Nobody /\ switch' = FALSE /\ UNCHANGED trigger
  /\ emb' = BlankBand /\ off' = 1
  /\ lit' = FALSE /\ timer' = FALSE /\ expiring' = FALSE
  /\ visits' = 0 /\ told' = FALSE /\ overlapped' = FALSE
  /\ UNCHANGED due
=============================================================================
