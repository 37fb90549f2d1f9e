------------------------------ MODULE ClientPool ------------------------------
(***************************************************************************)
(* adapters/web/client_pool.py: the sets of sockets of the two endpoints,  *)
(* and broadcast, which awaits one send after the other while it iterates  *)
(* over the live set.  A set that has grown or shrunk since the iteration  *)
(* began makes the iterator raise RuntimeError in whoever broadcasts.      *)
(***************************************************************************)
EXTENDS Integers, FiniteSets

CONSTANTS Consoles, Tablets     \* sockets of /ws/admin and /ws/tablet

Sockets == Consoles \cup Tablets
ASSUME SocketKinds == Consoles \cap Tablets = {}
ASSUME FiniteKinds == IsFiniteSet(Consoles) /\ IsFiniteSet(Tablets)

VARIABLES
  pool,       \* the sockets in admins._clients and tablets._clients
  open,       \* the sockets whose connection stands
  iter        \* per socket: what the broadcast of its task iterates over

sockets == <<pool, open>>

Endpoints == [admin |-> Consoles, tablet |-> Tablets]
Iteration == [over : DOMAIN Endpoints, size : 0 .. Cardinality(Sockets)]

Clients(e) == pool \cap Endpoints[e]
Before(e) == [over |-> e, size |-> Cardinality(Clients(e))]

NoIteration == [over |-> "admin", size |-> 0]

PoolInit == pool = {} /\ open = {} /\ iter = [s \in Sockets |-> NoIteration]

\* The iterator compares the sizes after each send; over an empty set there is none.
Changed(s) ==
  iter[s].size # 0 /\ iter[s].size # Cardinality(Clients(iter[s].over))

\* Sends to closed connections fail; those sockets are dropped when the loop is over.
Dead(s) == Clients(iter[s].over) \ open
=============================================================================
