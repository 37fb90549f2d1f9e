------------------------------ MODULE BleCentral ------------------------------
(***************************************************************************)
(* adapters/ble: BleSwap, which forwards each call to the backend of the   *)
(* moment, over BleakBleCentral (one client object, replaced by every      *)
(* connect) and MockBleCentral (a wristband in memory).  A client is known *)
(* by the task that made it: a task makes a second one only after its      *)
(* first has failed to connect.                                            *)
(***************************************************************************)
EXTENDS Wristband

VARIABLES
  is_mock,    \* BleSwap._is_mock
  real,       \* real_available
  client,     \* BleakBleCentral.client
  state       \* the embedding in MockBleCentral._state

backend == <<is_mock, real, client, state>>

BackendInit ==
  /\ real \in BOOLEAN /\ is_mock \in {m \in BOOLEAN : m \/ real}
  /\ client = Nobody /\ state = Blank

\* BleSwap._current, read at the beginning of each call
chosen == IF is_mock \/ ~real THEN "mock" ELSE "real"

\* set_mock; without a real backend the mock is kept.
SetMock(m) == (m \/ real) /\ is_mock' = m

is_connected == client # Nobody /\ client = link

\* self.client = BleakClient(target)
NewClient(t) == client' = t /\ UNCHANGED <<is_mock, real, state>>

\* One piece of an embedding, over the client of the moment.
\* Mutants: the offset of the next piece is not written; it is one piece too far.
OffsetKept(n) == UNCHANGED off
OffsetPast(n) == off' = n + 1
Offset(n) == off' = n
Put(n, v) == emb' = [emb EXCEPT ![n] = v] /\ UNCHANGED off
Got == [at |-> off, of |-> emb[off]]
=============================================================================
