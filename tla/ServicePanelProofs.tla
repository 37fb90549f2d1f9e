-------------------------- MODULE ServicePanelProofs --------------------------
(***************************************************************************)
(* Proofs about ServicePanel for any number of consoles, tablets, pattern  *)
(* tasks, commands and lost connections.                                   *)
(***************************************************************************)
EXTENDS ServicePanel, FiniteSetTheorems, TLAPS

-----------------------------------------------------------------------------
(* Types *)

Stops == {"play", "disconnect", "solid"}

Player == [at : {"none", "new", "line", "hold", "ended"},
           plays : Patterns \cup {NoPattern}, cancelled : BOOLEAN]

PoolTyped == pool \subseteq Sockets /\ open \subseteq Sockets
IterTyped == iter \in [Sockets -> Iteration]
LedTyped ==
  /\ name \in Patterns \cup {NoPattern} /\ task \in Players \cup {NoPlayer}
  /\ player \in [Players -> Player]
HandTyped ==
  /\ hand \in [Sockets -> Handler]
  /\ \A s \in Sockets : /\ pc(s) = "waiting" => hand[s].then \in Stops
                        /\ pc(s) = "waiting" /\ hand[s].then = "play" => hand[s].about \in Patterns
ConnTyped == conn \in [Roles -> BOOLEAN]
CountTyped == commands \in 0 .. MaxCommands /\ drops \in 0 .. MaxDrops
HistoryTyped ==
  /\ owner \subseteq Sockets /\ asked \in BOOLEAN /\ broken \in BOOLEAN
  /\ crossed \in BOOLEAN /\ early \subseteq Sockets
FlowTyped == flow \in Flows \cup {NoFlow}
PanelTyped ==
  /\ PoolTyped /\ IterTyped /\ LedTyped /\ HandTyped /\ ConnTyped /\ FlowTyped
  /\ CountTyped /\ HistoryTyped

LEMMA ReadyTyped ==
  /\ Ready \in Handler /\ Gone \in Handler /\ NoTask \in Player
  /\ \A p \in Points, n \in Follow, r \in About, h \in BOOLEAN :
       [Ready EXCEPT !.pc = p, !.then = n, !.about = r, !.had = h] \in Handler
  /\ \A p \in Points, r \in About : [Ready EXCEPT !.pc = p, !.about = r] \in Handler
  /\ \A p \in Points : [Ready EXCEPT !.pc = p] \in Handler
  /\ \A p \in Points, n \in Follow : [Ready EXCEPT !.pc = p, !.then = n] \in Handler
BY DEF Ready, Gone, NoTask, Handler, Player, Points, Follow, About

LEMMA IterationTyped ==
  ASSUME PoolTyped
  PROVE  NoIteration \in Iteration /\ Before("admin") \in Iteration
         /\ Before("tablet") \in Iteration
<1>1. IsFiniteSet(Sockets)
  BY FiniteKinds, FS_Union DEF Sockets
<1>2. ASSUME NEW e \in {"admin", "tablet"}
      PROVE  Cardinality(Clients(e)) \in 0 .. Cardinality(Sockets)
  <2>1. Clients(e) \subseteq Sockets
    BY DEF PoolTyped, Clients
  <2>2. IsFiniteSet(Clients(e)) /\ Cardinality(Clients(e)) <= Cardinality(Sockets)
    BY <1>1, <2>1, FS_Subset
  <2>3. Cardinality(Clients(e)) \in Nat /\ Cardinality(Sockets) \in Nat
    BY <1>1, <2>2, FS_CardinalityType
  <2> QED
    BY <2>2, <2>3
<1>3. Cardinality(Sockets) \in Nat
  BY <1>1, FS_CardinalityType
<1>4. DOMAIN Endpoints = {"admin", "tablet"}
  BY DEF Endpoints
<1> QED
  BY <1>2, <1>3, <1>4 DEF NoIteration, Before, Iteration

\* What Await and Emit write.
LEMMA AwaitTyped ==
  ASSUME PoolTyped, IterTyped, HandTyped, NEW s \in Sockets, NEW h \in Handler, Await(s, h),
         h.pc = "waiting" => h.then \in Stops /\ (h.then = "play" => h.about \in Patterns)
  PROVE  IterTyped' /\ HandTyped'
<1>1. IterTyped'
  BY IterationTyped DEF Await, IterTyped
<1>2. HandTyped'
  BY DEF Await, HandTyped, pc
<1> QED
  BY <1>1, <1>2

LEMMA EmitTyped ==
  ASSUME PoolTyped, IterTyped, HandTyped, NEW s \in Sockets, NEW e \in {"admin", "tablet"},
         NEW n \in Follow, Emit(s, e, n)
  PROVE  IterTyped' /\ HandTyped'
<1> DEFINE h == [Ready EXCEPT !.pc = "emit", !.then = n]
<1>1. h \in Handler /\ h.pc = "emit"
  BY ReadyTyped DEF Ready, Points
<1>2. hand' = [hand EXCEPT ![s] = h] /\ iter' = [iter EXCEPT ![s] = Before(e)]
  BY DEF Emit
<1>3. IterTyped'
  BY <1>2, IterationTyped DEF IterTyped
<1>4. HandTyped'
  <2> HIDE DEF h
  <2> QED
    BY <1>1, <1>2 DEF HandTyped, pc
<1> QED
  BY <1>3, <1>4

LEMMA BeginTyped ==
  ASSUME PoolTyped, IterTyped, HandTyped, NEW s \in Sockets, NEW f \in About,
         NEW failed \in BOOLEAN, NEW n \in Follow, Begin(s, f, failed, n)
  PROVE  IterTyped' /\ HandTyped'
<1> DEFINE h == [Ready EXCEPT !.pc = "emit", !.then = n, !.about = f, !.had = failed]
<1>1. h \in Handler /\ h.pc = "emit"
  BY ReadyTyped DEF Ready, Points
<1>2. hand' = [hand EXCEPT ![s] = h] /\ iter' = [iter EXCEPT ![s] = Before("admin")]
  BY DEF Begin
<1>3. IterTyped'
  BY <1>2, IterationTyped DEF IterTyped
<1>4. HandTyped'
  <2> HIDE DEF h
  <2> QED
    BY <1>1, <1>2 DEF HandTyped, pc
<1> QED
  BY <1>3, <1>4

LEMMA TellTyped ==
  ASSUME PoolTyped, IterTyped, HandTyped, NEW s \in Sockets, NEW e \in {"admin", "tablet"},
         NEW n \in Follow, Tell(s, e, n)
  PROVE  IterTyped' /\ HandTyped'
<1>1. IterTyped'
  BY IterationTyped DEF Tell, IterTyped
<1>2. HandTyped'
  BY DEF Tell, HandTyped, pc, Handler, Points
<1> QED
  BY <1>1, <1>2

LEMMA ProceedTyped ==
  ASSUME PoolTyped, IterTyped, HandTyped, ConnTyped, NEW s \in Sockets, NEW what,
         Proceed(s, what)
  PROVE  IterTyped' /\ HandTyped' /\ ConnTyped'
<1>1. CASE Emit(s, "admin", "ready") /\ conn' = [conn EXCEPT !["nfc"] = FALSE]
  BY <1>1, EmitTyped DEF ConnTyped, Follow
<1>2. CASE Await(s, [Ready EXCEPT !.pc = "sending"]) /\ UNCHANGED conn
  <2> DEFINE h == [Ready EXCEPT !.pc = "sending"]
  <2>1. h \in Handler /\ h.pc = "sending"
    BY ReadyTyped DEF Ready, Points
  <2> HIDE DEF h
  <2>2. Await(s, h)
    BY <1>2 DEF h
  <2> QED
    BY <1>2, <2>1, <2>2, AwaitTyped DEF ConnTyped
<1> QED
  BY <1>1, <1>2 DEF Proceed

LEMMA AfterTyped ==
  ASSUME PoolTyped, IterTyped, HandTyped, ConnTyped, LedTyped,
         NEW s \in Sockets, NEW what \in Stops, NEW p, what = "play" => p \in Patterns,
         NEW h, NEW players \in [Players -> Player], AfterCancel(s, what, p, h, players)
  PROVE  IterTyped' /\ HandTyped' /\ ConnTyped' /\ LedTyped'
<1>1. CASE what = "play" /\ Play(s, p, players)
  <2>1. PICK k \in Players :
          /\ player' = [players EXCEPT ![k] = [at |-> "new", plays |-> p, cancelled |-> FALSE]]
          /\ task' = k /\ name' = p /\ Emit(s, "admin", "ready") /\ UNCHANGED conn
    BY <1>1 DEF Play
  <2>2. [at |-> "new", plays |-> p, cancelled |-> FALSE] \in Player
    BY <1>1 DEF Player
  <2>3. LedTyped'
    BY <1>1, <2>1, <2>2 DEF LedTyped
  <2> QED
    BY <2>1, <2>3, EmitTyped DEF ConnTyped, Follow
<1>2. CASE Stopped(s, what, h, players)
  <2>1. LedTyped'
    BY <1>2 DEF Stopped, LedTyped
  <2>2. CASE Emit(s, "admin", what) /\ UNCHANGED conn
    BY <2>1, <2>2, EmitTyped DEF ConnTyped, Follow, Stops
  <2>3. CASE Proceed(s, what)
    BY <2>1, <2>3, ProceedTyped
  <2> QED
    BY <1>2, <2>2, <2>3 DEF Stopped
<1> QED
  BY <1>1, <1>2 DEF AfterCancel

LEMMA ReplaceTyped ==
  ASSUME PoolTyped, IterTyped, HandTyped, ConnTyped, LedTyped,
         NEW s \in Sockets, NEW what \in Stops, NEW p \in About,
         what = "play" => p \in Patterns, ReplacePattern(s, what, p), crossed \in BOOLEAN
  PROVE  IterTyped' /\ HandTyped' /\ ConnTyped' /\ LedTyped' /\ crossed' \in BOOLEAN
<1>1. crossed' \in BOOLEAN
  <2>1. crossed' = (crossed \/ \E u \in Sockets : pc(u) = "waiting")
    BY DEF ReplacePattern
  <2>2. CASE \E u \in Sockets : pc(u) = "waiting"
    BY <2>1, <2>2
  <2>3. CASE ~\E u \in Sockets : pc(u) = "waiting"
    BY <2>1, <2>3
  <2> QED
    BY <2>2, <2>3
<1>2. CASE AfterCancel(s, what, p, name # NoPattern, player)
  <2>1. player \in [Players -> Player]
    BY DEF LedTyped
  <2> QED
    BY <1>1, <1>2, <2>1, AfterTyped
<1> DEFINE w == [pc |-> "waiting", then |-> what, awaits |-> task, had |-> name # NoPattern,
                 about |-> p]
<1>3. CASE /\ Alive(task) /\ player' = [player EXCEPT ![task].cancelled = TRUE]
           /\ task' = NoPlayer /\ Await(s, w) /\ UNCHANGED <<name, conn>>
  <2>1. w \in Handler /\ w.then = what /\ w.about = p
    BY DEF Handler, Points, Follow, Stops, LedTyped, About
  <2>2. LedTyped'
    BY <1>3 DEF LedTyped, Player
  <2> HIDE DEF w
  <2> QED
    BY <1>1, <1>3, <2>1, <2>2, AwaitTyped DEF ConnTyped
<1> QED
  BY <1>2, <1>3 DEF ReplacePattern

LEMMA ReceivesTyped ==
  ASSUME CountTyped, NEW s \in Sockets, Receives(s)
  PROVE  CountTyped'
<1>1. commands < MaxCommands /\ commands' = commands + 1 /\ drops' = drops
  BY DEF Receives
<1> QED
  BY <1>1, PanelBounds DEF CountTyped

LEMMA LeaveTyped ==
  ASSUME PoolTyped, IterTyped, HandTyped, NEW s \in Sockets, Leave(s)
  PROVE  PoolTyped' /\ IterTyped' /\ HandTyped'
<1>1. PoolTyped'
  BY DEF Leave, Ended, PoolTyped
<1>2. CASE Await(s, Gone)
  BY <1>1, <1>2, AwaitTyped, ReadyTyped DEF Gone, Ready
<1>3. CASE Emit(s, "admin", "gone")
  BY <1>1, <1>3, EmitTyped DEF Follow
<1> QED
  BY <1>2, <1>3 DEF Leave

LEMMA SocketTyped ==
  ASSUME PanelTyped, NEW s \in Sockets,
         \/ Join(s) \/ Drop(s) \/ Closed(s) \/ Report(s) \/ SolidReturns(s) \/ Picture(s)
         \/ Cancel(s) \/ \E f \in Flows : Start(s, f) \/ StartRefused(s, f)
  PROVE  PanelTyped'
<1> USE DEF PanelTyped, history, led, counters, sockets
<1>1. CASE Join(s)
  <2>1. PoolTyped'
    BY <1>1 DEF Join, PoolTyped
  <2>2. Ready \in Handler /\ Ready.pc # "waiting"
    BY ReadyTyped DEF Ready
  <2>3. IterTyped' /\ HandTyped'
    BY <1>1, <2>2, AwaitTyped, EmitTyped DEF Join, Follow
  <2> QED
    BY <1>1, <2>1, <2>3 DEF Join, LedTyped, ConnTyped, FlowTyped, CountTyped, HistoryTyped
<1>2. CASE Drop(s)
  <2>1. CountTyped'
    BY <1>2, PanelBounds DEF Drop, CountTyped
  <2>2. PoolTyped' /\ IterTyped' /\ HandTyped'
    BY <1>2 DEF Drop, PoolTyped, IterTyped, HandTyped, pc
  <2> QED
    BY <1>2, <2>1, <2>2 DEF Drop, LedTyped, ConnTyped, FlowTyped, HistoryTyped
<1>3. CASE Closed(s)
  BY <1>3, LeaveTyped DEF Closed, LedTyped, ConnTyped, FlowTyped, CountTyped, HistoryTyped
<1>4. CASE SolidReturns(s)
  <2>1. IterTyped' /\ HandTyped'
    BY <1>4, EmitTyped DEF SolidReturns, Follow
  <2> QED
    BY <1>4, <2>1 DEF SolidReturns, PoolTyped, LedTyped, ConnTyped, FlowTyped, CountTyped,
       HistoryTyped
<1>5. CASE Report(s) \/ Picture(s) \/ Cancel(s)
  <2>1. IterTyped' /\ HandTyped' /\ CountTyped'
    BY <1>5, EmitTyped, ReceivesTyped DEF Report, Picture, Cancel, Follow, Duties
  <2> QED
    BY <1>5, <2>1 DEF Report, Picture, Cancel, PoolTyped, LedTyped, ConnTyped, FlowTyped,
       HistoryTyped
<1>6. ASSUME NEW f \in Flows, Start(s, f)
      PROVE  PanelTyped'
  <2>0. Follows(f) \in Follow /\ f \in About
    BY DEF Follows, Follow, Duties, Starting, About
  <2>1. IterTyped' /\ HandTyped' /\ CountTyped'
    BY <1>6, <2>0, BeginTyped, ReceivesTyped DEF Start
  <2>2. HistoryTyped' /\ FlowTyped'
    BY <1>6 DEF Start, HistoryTyped, FlowTyped
  <2> QED
    BY <1>6, <2>1, <2>2 DEF Start, PoolTyped, LedTyped, ConnTyped
<1>7. ASSUME NEW f \in Flows, StartRefused(s, f)
      PROVE  PanelTyped'
  <2>0. (f # "issue") \in BOOLEAN /\ "reset" \in Follow /\ f \in About
    BY DEF Follow, Duties, About
  <2>1. IterTyped' /\ HandTyped' /\ CountTyped'
    BY <1>7, <2>0, BeginTyped, ReceivesTyped DEF StartRefused
  <2> QED
    BY <1>7, <2>1 DEF StartRefused, PoolTyped, LedTyped, ConnTyped, FlowTyped, HistoryTyped
<1> QED
  BY <1>1, <1>2, <1>3, <1>4, <1>5, <1>6, <1>7

LEMMA PortTyped ==
  ASSUME PanelTyped, NEW s \in Sockets,
         \/ PortOpens(s) \/ OpenFails(s) \/ ConnectReturns(s)
         \/ \E r \in Roles : Connect(s, r)
  PROVE  PanelTyped'
<1> USE DEF PanelTyped, history, led, counters, sockets
<1>1. CASE PortOpens(s)
  <2>1. HandTyped' /\ ConnTyped'
    BY <1>1 DEF PortOpens, HandTyped, Handler, ConnTyped, pc
  <2> QED
    BY <1>1, <2>1 DEF PortOpens, PoolTyped, IterTyped, LedTyped, FlowTyped, CountTyped,
       HistoryTyped
<1>2. CASE OpenFails(s) \/ ConnectReturns(s)
  <2>1. ConnTyped'
    BY <1>2 DEF OpenFails, ConnectReturns, ConnTyped
  <2>2. IterTyped' /\ HandTyped'
    BY <1>2, EmitTyped DEF OpenFails, ConnectReturns, Follow
  <2> QED
    BY <1>2, <2>1, <2>2 DEF OpenFails, ConnectReturns, PoolTyped, LedTyped, FlowTyped,
       CountTyped, HistoryTyped
<1>3. ASSUME NEW r \in Roles, Connect(s, r)
      PROVE  PanelTyped'
  <2> DEFINE h == [Ready EXCEPT !.pc = "connecting", !.about = r]
  <2>1. h \in Handler /\ h.pc # "waiting"
    BY ReadyTyped DEF Ready, Points, About
  <2>2. Await(s, h)
    BY <1>3 DEF Connect
  <2> HIDE DEF h
  <2>3. IterTyped' /\ HandTyped' /\ CountTyped'
    BY <1>3, <2>1, <2>2, AwaitTyped, ReceivesTyped DEF Connect
  <2> QED
    BY <1>3, <2>3 DEF Connect, PoolTyped, LedTyped, ConnTyped, FlowTyped, HistoryTyped
<1> QED
  BY <1>1, <1>2, <1>3

LEMMA LedTypedNext ==
  ASSUME PanelTyped, NEW s \in Sockets,
         \/ \E r \in Roles : Disconnect(s, r)
         \/ \E p \in Patterns : SetLed(s, "play", p)
         \/ SetLed(s, "solid", NoPattern)
         \/ PatternEnded(s)
  PROVE  PanelTyped'
<1> USE DEF PanelTyped, history, led, counters, sockets
<1>0. crossed \in BOOLEAN
  BY DEF HistoryTyped
<1>1. ASSUME NEW r \in Roles, Disconnect(s, r)
      PROVE  PanelTyped'
  <2>1. CountTyped'
    BY <1>1, ReceivesTyped DEF Disconnect
  <2>2. IterTyped' /\ HandTyped' /\ ConnTyped' /\ LedTyped' /\ crossed' \in BOOLEAN
    <3>1. CASE r = "gate" /\ conn' = [conn EXCEPT ![r] = FALSE] /\ Emit(s, "admin", "ready")
               /\ UNCHANGED <<led, crossed>>
      <4>1. IterTyped' /\ HandTyped'
        BY <3>1, EmitTyped DEF Follow
      <4>2. ConnTyped' /\ LedTyped' /\ crossed' \in BOOLEAN
        BY <1>0, <3>1 DEF ConnTyped, LedTyped
      <4> QED
        BY <4>1, <4>2
    <3>2. CASE ReplacePattern(s, "disconnect", "nfc")
      BY <1>0, <3>2, ReplaceTyped DEF Stops, Roles, About
    <3> QED
      BY <1>1, <3>1, <3>2 DEF Disconnect
  <2> QED
    BY <1>1, <2>1, <2>2 DEF Disconnect, PoolTyped, FlowTyped, HistoryTyped
<1>2. ASSUME NEW what \in {"play", "solid"}, NEW p \in Patterns \cup {NoPattern},
             what = "play" => p \in Patterns, SetLed(s, what, p)
      PROVE  PanelTyped'
  <2>1. CountTyped'
    BY <1>2, ReceivesTyped DEF SetLed
  <2>2. IterTyped' /\ HandTyped' /\ ConnTyped' /\ LedTyped' /\ crossed' \in BOOLEAN
    BY <1>0, <1>2, ReplaceTyped DEF SetLed, Stops, About
  <2> QED
    BY <1>2, <2>1, <2>2 DEF SetLed, PoolTyped, FlowTyped, HistoryTyped
<1>3. CASE PatternEnded(s)
  <2> DEFINE q == [player EXCEPT ![hand[s].awaits] = NoTask]
  <2>1. q \in [Players -> Player]
    BY ReadyTyped DEF LedTyped
  <2>2. hand[s].then \in Stops /\ (hand[s].then = "play" => hand[s].about \in Patterns)
    BY <1>3 DEF PatternEnded, HandTyped
  <2>3. AfterCancel(s, hand[s].then, hand[s].about, hand[s].had, q)
    BY <1>3 DEF PatternEnded
  <2> HIDE DEF q
  <2>4. IterTyped' /\ HandTyped' /\ ConnTyped' /\ LedTyped'
    BY <2>1, <2>2, <2>3, AfterTyped
  <2> QED
    BY <1>3, <2>4 DEF PatternEnded, PoolTyped, FlowTyped, CountTyped, HistoryTyped
<1> QED
  BY <1>1, <1>2, <1>3

\* The steps of a procedure between its reports.
LEMMA GoesTyped ==
  ASSUME PanelTyped, NEW s \in Sockets,
         Goes(s) \/ (Face(s) /\ flow' = flow /\ broken' = broken /\ early' = early)
  PROVE  /\ IterTyped' /\ HandTyped' /\ FlowTyped'
         /\ owner' \subseteq Sockets /\ asked' \in BOOLEAN /\ broken' \in BOOLEAN
         /\ early' \subseteq Sockets
<1> USE DEF PanelTyped
<1>1. /\ FlowTyped' /\ broken' \in BOOLEAN /\ early' \subseteq Sockets
      /\ owner' \subseteq Sockets
  BY DEF Goes, Face, Asks, FlowTyped, HistoryTyped
<1>2. asked' \in BOOLEAN
  BY DEF Goes, Face, Asks, HistoryTyped
<1>3. {"ask_logged", "asked", "reset", "tag", "ready"} \subseteq Follow
  BY DEF Follow, Duties, Starting
<1>4. CASE \E e \in {"admin", "tablet"}, n \in Follow : Tell(s, e, n)
  BY <1>1, <1>2, <1>4, TellTyped
<1>5. ASSUME Await(s, Ready)
      PROVE  IterTyped' /\ HandTyped'
  BY <1>5, AwaitTyped, ReadyTyped DEF Ready
<1>6. ASSUME NEW f \in About, Await(s, [Ready EXCEPT !.pc = "work", !.about = f])
      PROVE  IterTyped' /\ HandTyped'
  <2> DEFINE h == [Ready EXCEPT !.pc = "work", !.about = f]
  <2>1. h \in Handler /\ h.pc # "waiting"
    BY ReadyTyped DEF Ready, Points
  <2>2. Await(s, h)
    BY <1>6
  <2> HIDE DEF h
  <2> QED
    BY <2>1, <2>2, AwaitTyped
<1>7. CASE Face(s)
  <2>1. CASE flow = "issue" /\ Begin(s, flow, FALSE, "tag")
    BY <1>1, <1>2, <1>3, <2>1, BeginTyped DEF About, Flows
  <2>2. CASE flow = "entry" /\ Await(s, [Ready EXCEPT !.pc = "work", !.about = flow])
    BY <1>1, <1>2, <1>6, <2>2 DEF About, Flows
  <2> QED
    BY <1>1, <1>2, <1>5, <1>7, <2>1, <2>2 DEF Face
<1>8. CASE Tag(s)
  <2>1. hand[s].about \in About
    BY DEF HandTyped, Handler
  <2> QED
    BY <1>1, <1>2, <1>5, <1>6, <1>8, <2>1 DEF Tag
<1>9. CASE Asks(s)
  BY <1>1, <1>2, <1>5, <1>9 DEF Asks
<1> QED
  BY <1>1, <1>2, <1>3, <1>4, <1>7, <1>8, <1>9 DEF Goes

LEMMA BroadcastTyped ==
  ASSUME PanelTyped, NEW s \in Sockets, Reported(s) \/ Raises(s) \/ WorkEnds(s)
  PROVE  PanelTyped'
<1> USE DEF PanelTyped, history, led, counters, sockets
<1>1. CASE Reported(s)
  <2>1. PoolTyped' /\ LedTyped' /\ CountTyped' /\ UNCHANGED crossed /\ Proceeds(s)
    BY <1>1 DEF Reported, PoolTyped, LedTyped, CountTyped
  <2>2. CASE \/ Goes(s) /\ UNCHANGED conn
             \/ Face(s) /\ UNCHANGED <<conn, flow, broken, early>>
    <3>1. /\ IterTyped' /\ HandTyped' /\ FlowTyped'
          /\ owner' \subseteq Sockets /\ asked' \in BOOLEAN /\ broken' \in BOOLEAN
          /\ early' \subseteq Sockets
      <4>1. Goes(s) \/ (Face(s) /\ flow' = flow /\ broken' = broken /\ early' = early)
        BY <2>2
      <4> QED
        BY <4>1, GoesTyped
    <3>2. HistoryTyped'
      BY <2>1, <3>1 DEF HistoryTyped
    <3> QED
      BY <2>1, <2>2, <3>1, <3>2 DEF ConnTyped
  <2>3. CASE UNCHANGED <<flow, owner, asked, broken, early>>
    <3>1. FlowTyped' /\ HistoryTyped'
      BY <2>1, <2>3 DEF FlowTyped, HistoryTyped
    <3>2. CASE hand[s].then \in {"ready", "gone"} /\ Await(s, [Ready EXCEPT !.pc = hand[s].then])
               /\ UNCHANGED conn
      <4> DEFINE h == [Ready EXCEPT !.pc = hand[s].then]
      <4>1. h \in Handler /\ h.pc # "waiting"
        BY <3>2, ReadyTyped DEF Ready, Points
      <4>2. Await(s, h)
        BY <3>2
      <4> HIDE DEF h
      <4> QED
        BY <2>1, <3>1, <3>2, <4>1, <4>2, AwaitTyped DEF ConnTyped
    <3>3. CASE Proceed(s, hand[s].then)
      BY <2>1, <3>1, <3>3, ProceedTyped
    <3>4. CASE UNCHANGED conn /\ \E next \in {"face", "ready"} : Emit(s, "admin", next)
      BY <2>1, <3>1, <3>4, EmitTyped DEF ConnTyped, Follow
    <3> QED
      BY <2>1, <2>2, <3>2, <3>3, <3>4 DEF Proceeds
  <2> QED
    BY <2>1, <2>2, <2>3 DEF Proceeds
<1>2. CASE WorkEnds(s)
  <2>1. IterTyped' /\ HandTyped'
    BY <1>2, TellTyped DEF WorkEnds, Follow, Duties
  <2> QED
    BY <1>2, <2>1 DEF WorkEnds, PoolTyped, LedTyped, ConnTyped, FlowTyped, CountTyped,
       HistoryTyped
<1>3. CASE Raises(s)
  <2>1. LedTyped' /\ CountTyped' /\ ConnTyped' /\ FlowTyped'
    BY <1>3 DEF Raises, LedTyped, CountTyped, ConnTyped, FlowTyped
  <2>2. HistoryTyped'
    <3>1. broken' \in BOOLEAN
      BY <1>3 DEF Raises, HistoryTyped
    <3> QED
      BY <1>3, <3>1 DEF Raises, HistoryTyped
  <2>3. PoolTyped' /\ IterTyped' /\ HandTyped'
    <3>1. CASE Aborts(s) /\ UNCHANGED sockets
      <4>1. pc(s) = "emit"
        BY <1>3 DEF Raises
      <4>2. IterTyped'
        BY <3>1, IterationTyped DEF Aborts, IterTyped, PoolTyped
      <4>3. HandTyped'
        BY <3>1, <4>1 DEF Aborts, HandTyped, pc, Handler, Follow, Duties
      <4> QED
        BY <3>1, <4>2, <4>3 DEF PoolTyped
    <3>2. CASE Leave(s)
      BY <3>2, LeaveTyped
    <3>3. CASE Await(s, Gone) /\ UNCHANGED sockets
      <4>1. Gone.pc # "waiting"
        BY DEF Gone, Ready
      <4> QED
        BY <3>3, <4>1, AwaitTyped, ReadyTyped DEF PoolTyped
    <3> QED
      BY <1>3, <3>1, <3>2, <3>3 DEF Raises
  <2> QED
    BY <2>1, <2>2, <2>3
<1> QED
  BY <1>1, <1>2, <1>3

LEMMA PlayerTyped ==
  ASSUME PanelTyped, NEW k \in Players, Frame(k) \/ FrameReturns(k) \/ PlayerEnds(k)
  PROVE  PanelTyped'
<1> USE DEF PanelTyped, history, led, counters, sockets
<1>1. player' \in [Players -> Player]
  <2>1. \A a \in {"line", "hold"} : [player[k] EXCEPT !.at = a] \in Player
    BY DEF LedTyped, Player
  <2>2. [NoTask EXCEPT !.at = "ended", !.cancelled = TRUE] \in Player
    BY DEF NoTask, Player
  <2> QED
    BY <2>1, <2>2 DEF Frame, FrameReturns, PlayerEnds, LedTyped
<1>2. LedTyped' /\ PoolTyped' /\ IterTyped' /\ HandTyped'
  BY <1>1 DEF Frame, FrameReturns, PlayerEnds, LedTyped, PoolTyped, IterTyped, HandTyped, pc
<1> QED
  BY <1>2 DEF Frame, FrameReturns, PlayerEnds, ConnTyped, FlowTyped, CountTyped, HistoryTyped

LEMMA TypedInit == Init => PanelTyped
<1> SUFFICES ASSUME Init PROVE PanelTyped
  OBVIOUS
<1>1. PoolTyped
  BY DEF Init, PoolInit, PoolTyped
<1>2. IterTyped
  BY <1>1, IterationTyped DEF Init, PoolInit, IterTyped
<1>3. HandTyped
  BY ReadyTyped DEF Init, HandTyped, pc, Gone, Ready
<1>4. LedTyped
  BY ReadyTyped DEF Init, LedTyped
<1>5. ConnTyped /\ FlowTyped /\ HistoryTyped
  BY DEF Init, ConnTyped, FlowTyped, HistoryTyped
<1>6. CountTyped
  BY PanelBounds DEF Init, CountTyped
<1> QED
  BY <1>1, <1>2, <1>3, <1>4, <1>5, <1>6 DEF PanelTyped

LEMMA TypedNext ==
  ASSUME PanelTyped, [Next]_vars
  PROVE  PanelTyped'
<1>1. CASE UNCHANGED vars
  BY <1>1 DEF vars, sockets, led, counters, history, PanelTyped, PoolTyped, IterTyped, LedTyped,
     HandTyped, ConnTyped, FlowTyped, CountTyped, HistoryTyped, pc
<1>2. ASSUME NEW r \in Roles, PortLost(r)
      PROVE  PanelTyped'
  BY <1>2 DEF PortLost, sockets, led, counters, history, PanelTyped, PoolTyped, IterTyped, LedTyped,
     HandTyped, ConnTyped, FlowTyped, CountTyped, HistoryTyped, pc
<1> QED
  BY <1>1, <1>2, SocketTyped, PortTyped, LedTypedNext, BroadcastTyped, PlayerTyped
  DEF Next, Message, Continue, AtRest, Sockets

LEMMA TypedAlways == Spec => []PanelTyped
BY TypedInit, TypedNext, PTL DEF Spec

\* Every variable keeps its type.
THEOREM PanelTypeOK == Spec => []TypeOK
<1>1. PanelTyped => TypeOK
  BY DEF PanelTyped, PoolTyped, IterTyped, LedTyped, Player, HandTyped, ConnTyped, FlowTyped,
     CountTyped, HistoryTyped, TypeOK
<1> QED
  BY <1>1, TypedAlways, PTL

-----------------------------------------------------------------------------
(* Who serves the session, and who may yet close a port *)

\* s may yet close the port of a board.
Closing(s) ==
  pc(s) = "connecting" \/ (pc(s) \in {"waiting", "emit"} /\ hand[s].then = "disconnect")

HandOK == \A s \in Sockets : hand[s].then \in Duties => pc(s) = "emit"

\* Whoever serves the session is at it, and cannot end without resetting it, asking the tablets
\* or raising outside every try.
OwnerInv ==
  /\ owner \subseteq Sockets /\ (~busy => owner = {})
  /\ \A s \in owner : /\ Serves(s) /\ hand[s].about = flow
                      /\ hand[s].had => hand[s].then = "reset"
  /\ busy => broken \/ asked \/ owner # {}

\* Whoever may yet close a port under a procedure was at it when the procedure began.
EarlyInv == busy => \A s \in Sockets : Closing(s) => s \in early

PanelInv == HandOK /\ OwnerInv /\ EarlyInv

-----------------------------------------------------------------------------
(* What a step does to the handler that takes it *)

Sets(s, p, n) ==
  /\ hand'[s].pc = p /\ hand'[s].then = n
  /\ \A u \in Sockets \ {s} : hand'[u] = hand[u]

LEMMA AwaitSets ==
  ASSUME HandTyped, NEW s \in Sockets, NEW h, Await(s, h)
  PROVE  Sets(s, h.pc, h.then) /\ hand'[s] = h
BY DEF HandTyped, Await, Sets

LEMMA EmitSets ==
  ASSUME HandTyped, NEW s \in Sockets, NEW e, NEW n, Emit(s, e, n)
  PROVE  Sets(s, "emit", n)
BY DEF HandTyped, Emit, Sets, Ready

LEMMA BeginSets ==
  ASSUME HandTyped, NEW s \in Sockets, NEW f, NEW failed, NEW n, Begin(s, f, failed, n)
  PROVE  Sets(s, "emit", n) /\ hand'[s].about = f /\ hand'[s].had = failed
BY DEF HandTyped, Begin, Sets, Ready

LEMMA TellSets ==
  ASSUME HandTyped, NEW s \in Sockets, NEW e, NEW n, Tell(s, e, n)
  PROVE  Sets(s, "emit", n) /\ hand'[s].about = hand[s].about /\ hand'[s].had = hand[s].had
BY DEF HandTyped, Handler, Tell, Sets

LEMMA ReadySets ==
  ASSUME HandTyped, NEW s \in Sockets
  PROVE  /\ Await(s, Ready) => Sets(s, "ready", "ready")
         /\ Await(s, Gone) => Sets(s, "gone", "ready")
         /\ \A p : Await(s, [Ready EXCEPT !.pc = p]) => Sets(s, p, "ready")
         /\ \A p, a : Await(s, [Ready EXCEPT !.pc = p, !.about = a]) =>
              Sets(s, p, "ready") /\ hand'[s].about = a /\ hand'[s].had = FALSE
<1>1. Await(s, Ready) => Sets(s, "ready", "ready")
  BY DEF HandTyped, Await, Sets, Ready
<1>2. Await(s, Gone) => Sets(s, "gone", "ready")
  BY DEF HandTyped, Await, Sets, Ready, Gone
<1>3. ASSUME NEW p, Await(s, [Ready EXCEPT !.pc = p])
      PROVE  Sets(s, p, "ready")
  BY <1>3 DEF HandTyped, Await, Sets, Ready
<1>4. ASSUME NEW p, NEW a, Await(s, [Ready EXCEPT !.pc = p, !.about = a])
      PROVE  Sets(s, p, "ready") /\ hand'[s].about = a /\ hand'[s].had = FALSE
  BY <1>4 DEF HandTyped, Await, Sets, Ready
<1> QED
  BY <1>1, <1>2, <1>3, <1>4

LEMMA ProceedSets ==
  ASSUME HandTyped, NEW s \in Sockets, NEW what, Proceed(s, what)
  PROVE  \/ what = "disconnect" /\ Sets(s, "emit", "ready")
         \/ what = "solid" /\ Sets(s, "sending", "ready") /\ UNCHANGED conn
BY EmitSets, ReadySets DEF Proceed

\* Only the one that disconnects touches a port; it is either done or still to be done.
LEMMA StopSets ==
  ASSUME HandTyped, NEW s \in Sockets, NEW what \in Stops, NEW p, NEW h, NEW players,
         AfterCancel(s, what, p, h, players) \/ ReplacePattern(s, what, p)
  PROVE  \/ what = "disconnect" /\ Sets(s, "emit", "ready")
         \/ Sets(s, "sending", "ready") /\ UNCHANGED conn
         \/ Sets(s, "emit", "ready") /\ UNCHANGED conn
         \/ Sets(s, "emit", what) /\ UNCHANGED conn
         \/ Sets(s, "waiting", what) /\ UNCHANGED conn
<1>1. ASSUME NEW g, NEW q, AfterCancel(s, what, p, g, q)
      PROVE  \/ what = "disconnect" /\ Sets(s, "emit", "ready")
             \/ Sets(s, "sending", "ready") /\ UNCHANGED conn
             \/ Sets(s, "emit", "ready") /\ UNCHANGED conn
             \/ Sets(s, "emit", what) /\ UNCHANGED conn
  <2>1. CASE Play(s, p, q)
    BY <2>1, EmitSets DEF Play
  <2>2. CASE Emit(s, "admin", what) /\ UNCHANGED conn
    BY <2>2, EmitSets
  <2>3. CASE Proceed(s, what)
    BY <2>3, ProceedSets
  <2> QED
    BY <1>1, <2>1, <2>2, <2>3 DEF AfterCancel, Stopped
<1> DEFINE w == [pc |-> "waiting", then |-> what, awaits |-> task, had |-> name # NoPattern,
                 about |-> p]
<1>2. CASE Await(s, w) /\ UNCHANGED conn
  <2>1. w.pc = "waiting" /\ w.then = what
    OBVIOUS
  <2> HIDE DEF w
  <2> QED
    BY <1>2, <2>1, AwaitSets
<1> QED
  BY <1>1, <1>2 DEF ReplacePattern

LEMMA LeaveSets ==
  ASSUME HandTyped, NEW s \in Sockets, Leave(s)
  PROVE  Sets(s, "gone", "ready") \/ Sets(s, "emit", "gone")
BY EmitSets, ReadySets DEF Leave

\* The steps of a handler that has nothing to do with the session and leave it alone.
Harmless(s) ==
  /\ UNCHANGED <<flow, owner, asked, broken, early>>
  /\ \/ UNCHANGED hand
     \/ /\ UNCHANGED conn /\ ~Serves(s)
        /\ \E p \in {"ready", "gone", "emit", "sending"},
              n \in {"ready", "gone", "snapshot", "face"} : Sets(s, p, n)
     \/ Sets(s, "connecting", "ready") /\ pc(s) = "ready" /\ ~busy /\ UNCHANGED conn
     \/ pc(s) = "connecting" /\ (Sets(s, "emit", "ready") \/ Sets(s, "connecting", hand[s].then))
     \/ \E p \in {"waiting", "emit"}, n \in Stops :
          Sets(s, p, n) /\ pc(s) \in {"ready", "waiting"} /\ UNCHANGED conn
          /\ (n = "disconnect" => ~busy \/ Closing(s))
     \/ Sets(s, "emit", "ready") /\ ~Serves(s) /\ (~busy \/ Closing(s))

LEMMA MessageSteps ==
  ASSUME HandTyped, NEW s \in Sockets,
         \/ Join(s) \/ Closed(s) \/ Report(s) \/ Picture(s) \/ SolidReturns(s)
         \/ PortOpens(s) \/ OpenFails(s) \/ ConnectReturns(s)
         \/ \E r \in Roles : Connect(s, r)
  PROVE  Harmless(s)
<1> USE DEF Harmless, Serves, history
<1>1. CASE Join(s)
  <2>1. Sets(s, "ready", "ready") \/ Sets(s, "emit", "ready")
    BY <1>1, ReadySets, EmitSets DEF Join
  <2> QED
    BY <1>1, <2>1 DEF Join
<1>2. CASE Closed(s)
  BY <1>2, LeaveSets DEF Closed
<1>3. CASE Report(s)
  BY <1>3, EmitSets DEF Report, Receives
<1>4. CASE Picture(s)
  BY <1>4, EmitSets DEF Picture, Receives
<1>5. CASE SolidReturns(s)
  BY <1>5, EmitSets DEF SolidReturns
<1>6. CASE PortOpens(s)
  <2>1. Sets(s, "connecting", hand[s].then)
    BY <1>6 DEF PortOpens, Sets, HandTyped, Handler, pc
  <2> QED
    BY <1>6, <2>1 DEF PortOpens
<1>7. CASE OpenFails(s) \/ ConnectReturns(s)
  BY <1>7, EmitSets DEF OpenFails, ConnectReturns
<1>8. ASSUME NEW r \in Roles, Connect(s, r)
      PROVE  Harmless(s)
  <2>1. Sets(s, "connecting", "ready")
    BY <1>8, ReadySets DEF Connect
  <2> QED
    BY <1>8, <2>1 DEF Connect, Receives, MayChange
<1> QED
  BY <1>1, <1>2, <1>3, <1>4, <1>5, <1>6, <1>7, <1>8

LEMMA LedSteps ==
  ASSUME HandTyped, NEW s \in Sockets,
         \/ \E r \in Roles : Disconnect(s, r)
         \/ \E p \in Patterns : SetLed(s, "play", p)
         \/ SetLed(s, "solid", NoPattern)
         \/ PatternEnded(s)
  PROVE  Harmless(s)
<1> USE DEF Harmless, Serves, Stops, history, Closing
<1>1. ASSUME NEW r \in Roles, Disconnect(s, r)
      PROVE  Harmless(s)
  <2>1. pc(s) = "ready" /\ ~busy /\ UNCHANGED <<flow, owner, asked, broken, early>>
    BY <1>1 DEF Disconnect, Receives, MayChange
  <2>2. CASE Emit(s, "admin", "ready")
    BY <2>1, <2>2, EmitSets
  <2>3. CASE ReplacePattern(s, "disconnect", "nfc")
    BY <2>1, <2>3, StopSets
  <2> QED
    BY <1>1, <2>2, <2>3 DEF Disconnect
<1>2. ASSUME NEW what \in {"play", "solid"}, NEW p, SetLed(s, what, p)
      PROVE  Harmless(s)
  <2>1. pc(s) = "ready" /\ UNCHANGED <<flow, owner, asked, broken, early>>
    BY <1>2 DEF SetLed, Receives
  <2>2. ReplacePattern(s, what, p)
    BY <1>2 DEF SetLed
  <2>3. /\ UNCHANGED conn
        /\ \/ Sets(s, "sending", "ready") \/ Sets(s, "emit", "ready")
           \/ Sets(s, "emit", what) \/ Sets(s, "waiting", what)
    BY <2>2, StopSets
  <2> QED
    BY <2>1, <2>3
<1>3. CASE PatternEnded(s)
  <2>1. /\ pc(s) = "waiting" /\ UNCHANGED <<flow, owner, asked, broken, early>>
        /\ hand[s].then \in Stops
    BY <1>3 DEF PatternEnded, HandTyped
  <2>2. PICK p, h, players : AfterCancel(s, hand[s].then, p, h, players)
    BY <1>3 DEF PatternEnded
  <2> DEFINE what == hand[s].then
  <2>3. \/ what = "disconnect" /\ Sets(s, "emit", "ready")
        \/ Sets(s, "sending", "ready") /\ UNCHANGED conn
        \/ Sets(s, "emit", "ready") /\ UNCHANGED conn
        \/ Sets(s, "emit", what) /\ UNCHANGED conn
        \/ Sets(s, "waiting", what) /\ UNCHANGED conn
    BY <2>1, <2>2, StopSets
  <2>4. CASE what = "disconnect" /\ Sets(s, "emit", "ready")
    BY <2>1, <2>4
  <2>5. CASE (Sets(s, "sending", "ready") \/ Sets(s, "emit", "ready")) /\ UNCHANGED conn
    BY <2>1, <2>5
  <2>6. CASE (Sets(s, "emit", what) \/ Sets(s, "waiting", what)) /\ UNCHANGED conn
    BY <2>1, <2>6
  <2> QED
    BY <2>3, <2>4, <2>5, <2>6
<1> QED
  BY <1>1, <1>2, <1>3

-----------------------------------------------------------------------------
(* Every step keeps the invariant *)

\* Whoever serves the session still does after the step of one who does not.
LEMMA OthersServe ==
  ASSUME OwnerInv, NEW s \in Sockets, s \notin owner, NEW p, NEW n, Sets(s, p, n),
         UNCHANGED <<flow, owner>>, broken => broken', asked => asked'
  PROVE  OwnerInv'
BY DEF OwnerInv, Serves, pc, Sets, busy

LEMMA HarmlessKeeps ==
  ASSUME PanelTyped, PanelInv, NEW s \in Sockets, Harmless(s)
  PROVE  PanelInv'
<1> USE DEF PanelInv, pc, busy
<1>1. CASE UNCHANGED hand
  BY <1>1 DEF Harmless, HandOK, OwnerInv, Serves, EarlyInv, Closing
<1>2. CASE ~UNCHANGED hand
  <2>1. PICK p, n :
          /\ Sets(s, p, n) /\ n \notin Duties
          /\ busy /\ (p = "connecting" \/ (p \in {"waiting", "emit"} /\ n = "disconnect"))
               => Closing(s)
    <3> DEFINE Fits(q, m) ==
          /\ Sets(s, q, m) /\ m \notin Duties
          /\ busy /\ (q = "connecting" \/ (q \in {"waiting", "emit"} /\ m = "disconnect"))
               => Closing(s)
    <3>1. ASSUME NEW q \in {"ready", "gone", "emit", "sending"},
                 NEW m \in {"ready", "gone", "snapshot", "face"}, Sets(s, q, m)
          PROVE  Fits(q, m)
      BY <3>1 DEF Duties, Starting
    <3>2. ASSUME pc(s) = "connecting", Sets(s, "emit", "ready")
          PROVE  Fits("emit", "ready")
      BY <3>2 DEF Duties, Starting
    <3>3. ASSUME pc(s) = "connecting", Sets(s, "connecting", hand[s].then)
          PROVE  Fits("connecting", hand[s].then)
      BY <3>3 DEF HandOK, Closing
    <3>4. ASSUME Sets(s, "connecting", "ready"), ~busy
          PROVE  Fits("connecting", "ready")
      BY <3>4 DEF Duties, Starting
    <3>5. ASSUME NEW q \in {"waiting", "emit"}, NEW m \in Stops, Sets(s, q, m),
                 m = "disconnect" => ~busy \/ Closing(s)
          PROVE  Fits(q, m)
      BY <3>5 DEF Duties, Starting, Stops
    <3>6. \E q, m : Fits(q, m)
      <4> HIDE DEF Fits
      <4> QED
        BY <1>2, <3>1, <3>2, <3>3, <3>4, <3>5 DEF Harmless
    <3> QED
      BY <3>6
  <2>2. ~Serves(s) /\ s \notin owner
    BY <1>2 DEF Harmless, OwnerInv, Serves, Closing, Duties, Starting
  <2>3. HandOK'
    BY <2>1 DEF HandOK, Sets
  <2>4. OwnerInv'
    BY <2>1, <2>2, OthersServe DEF Harmless
  <2>5. EarlyInv'
    BY <2>1 DEF Harmless, EarlyInv, Closing, Sets
  <2> QED
    BY <2>3, <2>4, <2>5
<1> QED
  BY <1>1, <1>2

\* A step that only moves a handler from one duty to the next, or ends at rest.
LEMMA DutyKeeps ==
  ASSUME PanelTyped, PanelInv, NEW s \in Sockets, UNCHANGED <<flow, early>>,
         NEW p, NEW n, Sets(s, p, n), OwnerInv',
         p = "emit" \/ n \notin Duties, p \notin {"connecting", "waiting"}, n # "disconnect"
  PROVE  PanelInv'
<1>1. HandOK'
  BY DEF PanelInv, HandOK, Sets, pc
<1>2. EarlyInv'
  BY DEF PanelInv, EarlyInv, Closing, Sets, pc, busy
<1> QED
  BY <1>1, <1>2 DEF PanelInv

LEMMA StartKeeps ==
  ASSUME PanelTyped, PanelInv, NEW s \in Sockets, NEW f \in Flows, Start(s, f)
  PROVE  PanelInv'
<1> USE DEF PanelInv, pc, busy
<1>1. /\ Sets(s, "emit", Follows(f)) /\ hand'[s].about = f /\ hand'[s].had = FALSE
      /\ Follows(f) \in Duties
  BY BeginSets DEF Start, PanelTyped, Follows, Duties, Starting
<1>2. /\ flow' = f /\ owner' = {s} /\ ~busy /\ pc(s) = "ready"
      /\ early' = {u \in Sockets \ {s} : pc(u) \notin {"ready", "gone"}}
  BY DEF Start, Receives
<1>3. HandOK'
  BY <1>1 DEF HandOK, Sets
<1>4. OwnerInv'
  BY <1>1, <1>2 DEF OwnerInv, Serves, Sets, Flows, NoFlow
<1>5. EarlyInv'
  BY <1>1, <1>2 DEF EarlyInv, Closing, Sets, Duties, Starting
<1> QED
  BY <1>3, <1>4, <1>5

LEMMA ResetKeeps ==
  ASSUME PanelTyped, PanelInv, NEW s \in Sockets,
         Cancel(s) \/ \E f \in Flows : StartRefused(s, f)
  PROVE  PanelInv'
<1>1. Sets(s, "emit", "reset") /\ pc(s) = "ready"
  BY EmitSets, BeginSets DEF Cancel, StartRefused, PanelTyped, Receives
<1>2. UNCHANGED <<flow, owner, asked, broken, early>>
  BY DEF Cancel, StartRefused, history
<1>3. OwnerInv'
  BY <1>1, <1>2, OthersServe DEF PanelInv, OwnerInv, Serves
<1> QED
  BY <1>1, <1>2, <1>3, DutyKeeps

\* The work of a procedure ends with a report that is followed by more of it.
LEMMA EndKeeps ==
  ASSUME PanelTyped, PanelInv, NEW s \in Sockets, WorkEnds(s)
  PROVE  PanelInv'
<1>1. PICK n \in {"reset", "done", "prompt"} :
        Sets(s, "emit", n) /\ hand'[s].about = hand[s].about /\ hand'[s].had = hand[s].had
  BY TellSets DEF WorkEnds, PanelTyped
<1>2. UNCHANGED <<flow, owner, asked, broken, early>> /\ pc(s) = "work"
  BY DEF WorkEnds, history
<1>3. hand[s].then \notin Duties
  BY <1>2 DEF PanelInv, HandOK
<1>4. OwnerInv'
  BY <1>1, <1>2, <1>3 DEF PanelInv, OwnerInv, Serves, Sets, pc, busy, Duties, Starting
<1> QED
  BY <1>1, <1>2, <1>4, DutyKeeps

\* Each report of a procedure is followed by the next, by its work, or by its end.
LEMMA GoesKeeps ==
  ASSUME PanelTyped, PanelInv, NEW s \in Sockets, pc(s) = "emit", Goes(s)
  PROVE  PanelInv'
<1> USE DEF PanelInv, pc, busy
<1>0. hand[s].had => s \notin owner \/ hand[s].then = "reset"
  BY DEF OwnerInv
<1>1. ASSUME NEW e, NEW n \in {"ask_logged", "asked", "reset"}, Tell(s, e, n),
             UNCHANGED <<flow, owner, asked, broken, early>>, hand[s].then # "reset"
      PROVE  PanelInv'
  <2>1. Sets(s, "emit", n) /\ hand'[s].about = hand[s].about /\ hand'[s].had = hand[s].had
    BY <1>1, TellSets DEF PanelTyped
  <2>2. OwnerInv'
    BY <1>0, <1>1, <2>1 DEF OwnerInv, Serves, Sets, Duties, Starting
  <2> QED
    BY <1>1, <2>1, <2>2, DutyKeeps
<1>2. CASE Asks(s) /\ UNCHANGED <<flow, broken, early>>
  <2>1. Sets(s, "ready", "ready")
    BY <1>2, ReadySets DEF Asks, PanelTyped
  <2>2. owner' = owner \ {s} /\ asked' = (asked \/ owner = {s})
    BY <1>2 DEF Asks
  <2>3. OwnerInv'
    BY <1>2, <2>1, <2>2 DEF OwnerInv, Serves, Sets
  <2> QED
    BY <1>2, <2>1, <2>3, DutyKeeps DEF Duties, Starting
<1>3. CASE Tag(s) /\ UNCHANGED <<flow, owner, asked, broken, early>>
  <2>1. CASE flow = hand[s].about
    <3>1. Sets(s, "work", "ready") /\ hand'[s].about = flow /\ hand'[s].had = FALSE
      BY <1>3, <2>1, ReadySets DEF Tag, PanelTyped
    <3>2. OwnerInv'
      BY <1>3, <3>1 DEF OwnerInv, Serves, Sets
    <3> QED
      BY <1>3, <3>1, <3>2, DutyKeeps DEF Duties, Starting
  <2>2. CASE flow # hand[s].about
    <3>1. Sets(s, "ready", "ready")
      BY <1>3, <2>2, ReadySets DEF Tag, PanelTyped
    <3>2. s \notin owner
      BY <2>2 DEF OwnerInv
    <3>3. OwnerInv'
      BY <1>3, <3>1, <3>2, OthersServe
    <3> QED
      BY <1>3, <3>1, <3>3, DutyKeeps DEF Duties, Starting
  <2> QED
    BY <2>1, <2>2
<1>4. CASE /\ Tell(s, "admin", IF hand[s].had THEN "tag" ELSE "ready")
           /\ flow' = NoFlow /\ owner' = {}
  <2>1. PICK n : Sets(s, "emit", n)
    BY <1>4, TellSets DEF PanelTyped
  <2> QED
    BY <1>4, <2>1 DEF HandOK, OwnerInv, EarlyInv, Sets
<1> QED
  BY <1>1, <1>2, <1>3, <1>4 DEF Goes

\* A face that a procedure takes gives it a task.
LEMMA FaceKeeps ==
  ASSUME PanelTyped, PanelInv, NEW s \in Sockets, pc(s) = "emit",
         hand[s].then = "face", Face(s), UNCHANGED <<flow, broken, early>>
  PROVE  PanelInv'
<1> USE DEF PanelInv, pc, busy
<1>0. HandTyped
  BY DEF PanelTyped
<1>1. CASE flow = "issue" /\ owner' = owner \cup {s} /\ Begin(s, flow, FALSE, "tag")
  <2>1. Sets(s, "emit", "tag") /\ hand'[s].about = flow /\ hand'[s].had = FALSE
    BY <1>0, <1>1, BeginSets
  <2>2. OwnerInv'
    BY <1>1, <2>1 DEF OwnerInv, Serves, Sets, NoFlow, Duties, Starting
  <2> QED
    BY <2>1, <2>2, DutyKeeps
<1>2. CASE /\ flow = "entry" /\ owner' = owner \cup {s}
           /\ Await(s, [Ready EXCEPT !.pc = "work", !.about = flow])
  <2>1. Sets(s, "work", "ready") /\ hand'[s].about = flow /\ hand'[s].had = FALSE
    BY <1>0, <1>2, ReadySets
  <2>2. OwnerInv'
    BY <1>2, <2>1 DEF OwnerInv, Serves, Sets, NoFlow
  <2> QED
    BY <2>1, <2>2, DutyKeeps DEF Duties, Starting
<1>3. CASE flow \notin {"issue", "entry"} /\ Await(s, Ready) /\ UNCHANGED <<owner, asked>>
  <2>1. Sets(s, "ready", "ready")
    BY <1>0, <1>3, ReadySets
  <2>2. s \notin owner
    BY DEF OwnerInv, Serves, Duties, Starting
  <2>3. OwnerInv'
    BY <1>3, <2>1, <2>2, OthersServe
  <2> QED
    BY <2>1, <2>3, DutyKeeps DEF Duties, Starting
<1> QED
  BY <1>1, <1>2, <1>3 DEF Face

\* A report that raises ends whoever serves the session only outside every try.
LEMMA RaisesKeeps ==
  ASSUME PanelTyped, PanelInv, NEW s \in Sockets, Raises(s)
  PROVE  PanelInv'
<1> USE DEF PanelInv, pc, busy
<1>1. UNCHANGED <<flow, asked, early>> /\ pc(s) = "emit" /\ HandTyped
  BY DEF Raises, PanelTyped
<1>2. CASE Caught(s) /\ Aborts(s) /\ UNCHANGED <<owner, broken>>
  <2>1. Sets(s, "emit", "reset") /\ hand'[s].about = hand[s].about
    BY <1>1, <1>2 DEF Aborts, Sets, HandTyped, Handler
  <2>2. OwnerInv'
    BY <1>1, <1>2, <2>1 DEF OwnerInv, Serves, Sets, Duties
  <2> QED
    BY <1>1, <2>1, <2>2, DutyKeeps
<1>3. CASE ~Caught(s) /\ hand[s].then # "gone" /\ Leave(s) /\ owner' = owner \ {s}
           /\ broken' = (broken \/ Lost(s))
  <2>1. PICK p \in {"gone", "emit"}, n \in {"ready", "gone"} : Sets(s, p, n)
    BY <1>1, <1>3, LeaveSets
  <2>2. s \in owner => broken'
    <3> SUFFICES ASSUME s \in owner PROVE Lost(s)
      BY <1>3
    <3> QED
      BY <1>1, <1>3 DEF OwnerInv, Serves, Caught, Lost, Duties
  <2>3. OwnerInv'
    BY <1>1, <1>3, <2>1, <2>2 DEF OwnerInv, Serves, Sets
  <2> QED
    BY <1>1, <2>1, <2>3, DutyKeeps DEF Duties, Starting
<1>4. CASE hand[s].then = "gone" /\ Await(s, Gone) /\ UNCHANGED <<owner, broken>>
  <2>1. Sets(s, "gone", "ready")
    BY <1>1, <1>4, ReadySets
  <2>2. s \notin owner
    BY <1>1, <1>4 DEF OwnerInv, Serves, Duties, Starting
  <2>3. OwnerInv'
    BY <1>1, <1>4, <2>1, <2>2, OthersServe
  <2> QED
    BY <1>1, <2>1, <2>3, DutyKeeps DEF Duties, Starting
<1> QED
  BY <1>2, <1>3, <1>4 DEF Raises

\* What follows a report is a step of its own procedure, or harmless.
LEMMA ReportedSteps ==
  ASSUME PanelTyped, NEW s \in Sockets, Reported(s)
  PROVE  \/ Harmless(s)
         \/ pc(s) = "emit" /\ hand[s].then = "face" /\ Face(s)
              /\ UNCHANGED <<conn, flow, broken, early>>
         \/ pc(s) = "emit" /\ Goes(s) /\ UNCHANGED conn
<1>0. pc(s) = "emit" /\ Proceeds(s) /\ HandTyped
  BY DEF Reported, PanelTyped
<1>1. CASE /\ hand[s].then \in {"ready", "gone"}
           /\ Await(s, [Ready EXCEPT !.pc = hand[s].then])
           /\ UNCHANGED <<conn, flow, owner, asked, broken, early>>
  <2>1. Sets(s, hand[s].then, "ready")
    BY <1>0, <1>1, ReadySets
  <2> QED
    BY <1>0, <1>1, <2>1 DEF Harmless, Serves, Duties, Starting
<1>2. CASE /\ hand[s].then \in {"disconnect", "solid"} /\ Proceed(s, hand[s].then)
           /\ UNCHANGED <<flow, owner, asked, broken, early>>
  BY <1>0, <1>2, ProceedSets DEF Harmless, Serves, Duties, Starting, Closing
<1>3. CASE /\ hand[s].then = "snapshot" /\ \E next \in {"face", "ready"} : Emit(s, "admin", next)
           /\ UNCHANGED <<conn, flow, owner, asked, broken, early>>
  <2>1. \E n \in {"face", "ready"} : Sets(s, "emit", n)
    BY <1>0, <1>3, EmitSets
  <2> QED
    BY <1>0, <1>3, <2>1 DEF Harmless, Serves, Duties, Starting
<1> QED
  BY <1>0, <1>1, <1>2, <1>3 DEF Proceeds

LEMMA PanelInit == Init => PanelInv
<1> SUFFICES ASSUME Init PROVE PanelInv
  OBVIOUS
<1>1. \A s \in Sockets : hand[s].pc = "gone" /\ hand[s].then = "ready"
  BY DEF Init, Gone, Ready
<1>2. owner = {} /\ ~busy
  BY DEF Init, busy
<1> QED
  BY <1>1, <1>2 DEF PanelInv, HandOK, OwnerInv, EarlyInv, Duties, Starting

LEMMA PanelNext ==
  ASSUME PanelTyped, PanelInv, [Next]_vars
  PROVE  PanelInv'
<1>0. HandTyped
  BY DEF PanelTyped
<1>1. CASE UNCHANGED <<hand, flow, owner, asked, broken, early>>
  BY <1>1 DEF PanelInv, HandOK, OwnerInv, Serves, EarlyInv, Closing, pc, busy
<1>2. ASSUME NEW s \in Sockets,
             Join(s) \/ Drop(s) \/ Message(s) \/ Picture(s) \/ Continue(s) \/ WorkEnds(s)
      PROVE  PanelInv'
  <2>1. CASE Drop(s)
    BY <1>1, <2>1 DEF Drop, history
  <2>2. CASE Harmless(s)
    BY <2>2, HarmlessKeeps
  <2>3. CASE Reported(s)
    BY <2>2, <2>3, ReportedSteps, FaceKeeps, GoesKeeps
  <2> QED
    BY <1>0, <1>2, <2>1, <2>2, <2>3, MessageSteps, LedSteps, StartKeeps, ResetKeeps, EndKeeps,
       RaisesKeeps
    DEF Message, Continue
<1>3. ASSUME NEW k \in Players, Frame(k) \/ FrameReturns(k) \/ PlayerEnds(k)
      PROVE  PanelInv'
  BY <1>1, <1>3 DEF Frame, FrameReturns, PlayerEnds, history
<1>4. ASSUME NEW r \in Roles, PortLost(r)
      PROVE  PanelInv'
  BY <1>1, <1>4 DEF PortLost, history
<1> QED
  BY <1>1, <1>2, <1>3, <1>4 DEF Next, AtRest, vars, history, Sockets

LEMMA PanelAlways == Spec => []PanelInv
BY PanelInit, PanelNext, TypedAlways, PTL DEF Spec

\* A busy session has a task that goes on with it or waits for a face it has asked for, unless
\* a report outside every try raised.
THEOREM PanelBusyIsServed == Spec => []BusyIsServed
<1>1. PanelInv => BusyIsServed
  BY DEF PanelInv, OwnerInv, BusyIsServed
<1> QED
  BY <1>1, PanelAlways, PTL

\* A procedure loses the reader to no command that was accepted after it began.
THEOREM PanelPortKept == Spec => PortKept
<1> DEFINE Kept == \A s \in Sockets :
             busy /\ busy' /\ conn["nfc"] /\ ~conn'["nfc"] /\ hand'[s] # hand[s] => s \in early
<1>1. PanelTyped /\ PanelInv /\ [Next]_vars => [Kept]_vars
  <2> SUFFICES ASSUME PanelTyped, PanelInv, [Next]_vars, NEW s \in Sockets,
                      busy, busy', conn' # conn, hand'[s] # hand[s]
               PROVE  s \in early
    OBVIOUS
  <2>0. HandTyped /\ EarlyInv
    BY DEF PanelTyped, PanelInv
  <2>1. ASSUME NEW u \in Sockets, Harmless(u)
        PROVE  s \in early
    <3>1. Closing(u)
      BY <2>1 DEF Harmless, Closing
    <3>2. s = u
      BY <2>1 DEF Harmless, Sets
    <3> QED
      BY <2>0, <3>1, <3>2 DEF EarlyInv
  <2>2. ASSUME NEW u \in Sockets,
               Join(u) \/ Drop(u) \/ Message(u) \/ Picture(u) \/ Continue(u) \/ WorkEnds(u)
        PROVE  s \in early
    BY <2>0, <2>1, <2>2, MessageSteps, LedSteps, ReportedSteps
    DEF Message, Continue, Drop, WorkEnds, Start, StartRefused, Cancel, Raises
  <2>3. \E u \in Sockets :
          Join(u) \/ Drop(u) \/ Message(u) \/ Picture(u) \/ Continue(u) \/ WorkEnds(u)
    BY DEF Next, AtRest, vars, Frame, FrameReturns, PlayerEnds, PortLost, Sockets
  <2> QED
    BY <2>2, <2>3
<1> QED
  BY <1>1, TypedAlways, PanelAlways, PTL DEF Spec, PortKept

-----------------------------------------------------------------------------
(* One pattern at a time *)

Waits(s) == pc(s) = "waiting"

\* As long as no two commands have met at a pattern: at most one handler awaits the end of
\* a pattern, and then no other pattern plays; what plays is recorded, under its name.
PlayInv ==
  ~crossed =>
    /\ \A s, u \in Sockets : Waits(s) /\ Waits(u) => s = u
    /\ (\E s \in Sockets : Waits(s)) => task = NoPlayer
    /\ \A k \in Players : Alive(k) /\ ~player[k].cancelled => k = task
    /\ Alive(task) => name = player[task].plays

\* The steps that touch no pattern and await none.
LEMMA PlayKept ==
  ASSUME PlayInv, UNCHANGED led, NEW s \in Sockets, NEW p, NEW n, Sets(s, p, n), p # "waiting",
         crossed' = crossed
  PROVE  PlayInv'
BY DEF PlayInv, led, Sets, Waits, Alive, pc

\* A pattern starts, or ends, when no other plays.
LEMMA PlayAfter ==
  ASSUME PanelTyped, NEW s \in Sockets, NEW what \in Stops, NEW p, NEW h,
         NEW players \in [Players -> Player], AfterCancel(s, what, p, h, players),
         \A u \in Sockets \ {s} : ~Waits(u),
         \A k \in Players : players[k].at \in {"none", "ended"} \/ players[k].cancelled,
         ~(task # NoPlayer /\ players[task].at \notin {"none", "ended"})
  PROVE  /\ \A u \in Sockets : ~Waits(u)'
         /\ \A k \in Players : Alive(k)' /\ ~player'[k].cancelled => k = task'
         /\ Alive(task)' => name' = player'[task'].plays
<1> USE DEF Stops
<1>0. HandTyped
  BY DEF PanelTyped
<1>1. \A u \in Sockets : ~Waits(u)'
  <2>1. AfterCancel(s, what, p, h, players) => \E q, n : q \in {"emit", "sending"} /\ Sets(s, q, n)
    <3>1. ASSUME Play(s, p, players)
          PROVE  \E q, n : q \in {"emit", "sending"} /\ Sets(s, q, n)
      BY <1>0, <3>1, EmitSets DEF Play
    <3>2. ASSUME Stopped(s, what, h, players)
          PROVE  \E q, n : q \in {"emit", "sending"} /\ Sets(s, q, n)
      BY <1>0, <3>2, EmitSets, ProceedSets DEF Stopped
    <3> QED
      BY <3>1, <3>2 DEF AfterCancel
  <2> QED
    BY <2>1 DEF Sets, Waits, pc
<1>2. CASE Play(s, p, players)
  <2>1. PICK k \in Players :
          /\ player' = [players EXCEPT ![k] = [at |-> "new", plays |-> p, cancelled |-> FALSE]]
          /\ task' = k /\ name' = p
    BY <1>2 DEF Play
  <2> QED
    BY <1>1, <2>1 DEF Alive
<1>3. CASE Stopped(s, what, h, players)
  <2>1. player' = players /\ task' = task
    BY <1>3 DEF Stopped
  <2> QED
    BY <1>1, <2>1 DEF Alive
<1> QED
  BY <1>2, <1>3 DEF AfterCancel

LEMMA PlayReplace ==
  ASSUME PanelTyped, PlayInv, NEW s \in Sockets, pc(s) = "ready",
         NEW what \in Stops, NEW p, ReplacePattern(s, what, p)
  PROVE  PlayInv'
<1>1. crossed' = (crossed \/ \E u \in Sockets : Waits(u))
  BY DEF ReplacePattern, Waits
<1>2. CASE crossed \/ \E u \in Sockets : Waits(u)
  BY <1>1, <1>2 DEF PlayInv
<1>3. CASE ~crossed /\ ~(\E u \in Sockets : Waits(u))
  <2>1. player \in [Players -> Player] /\ task \in Players \cup {NoPlayer}
    BY DEF PanelTyped, LedTyped
  <2>2. CASE Alive(task)
    <3>1. /\ player' = [player EXCEPT ![task].cancelled = TRUE] /\ task' = NoPlayer
          /\ Await(s, [pc |-> "waiting", then |-> what, awaits |-> task,
                       had |-> name # NoPattern, about |-> p])
      BY <2>2 DEF ReplacePattern
    <3>2. \A u \in Sockets \ {s} : hand'[u] = hand[u]
      BY <3>1 DEF Await, PanelTyped, HandTyped
    <3>3. \A u, v \in Sockets : Waits(u)' /\ Waits(v)' => u = v
      BY <1>3, <3>2 DEF Waits, pc
    <3>4. \A k \in Players : Alive(k)' => player'[k].cancelled
      BY <1>3, <2>1, <3>1 DEF PlayInv, Alive, Player
    <3>5. ~Alive(task)'
      BY <3>1 DEF Alive
    <3> QED
      BY <3>1, <3>3, <3>4, <3>5 DEF PlayInv
  <2>3. CASE ~Alive(task)
    <3>1. AfterCancel(s, what, p, name # NoPattern, player)
      BY <2>3 DEF ReplacePattern
    <3>2. /\ \A k \in Players : player[k].at \in {"none", "ended"} \/ player[k].cancelled
          /\ ~(task # NoPlayer /\ player[task].at \notin {"none", "ended"})
      BY <1>3, <2>1, <2>3 DEF PlayInv, Alive, NoPlayer, Players
    <3>3. /\ \A u \in Sockets : ~Waits(u)'
          /\ \A k \in Players : Alive(k)' /\ ~player'[k].cancelled => k = task'
          /\ Alive(task)' => name' = player'[task'].plays
      BY <1>3, <2>1, <3>1, <3>2, PlayAfter
    <3> QED
      BY <3>3 DEF PlayInv
  <2> QED
    BY <2>2, <2>3
<1> QED
  BY <1>2, <1>3

LEMMA PlayEnded ==
  ASSUME PanelTyped, PlayInv, NEW s \in Sockets, PatternEnded(s)
  PROVE  PlayInv'
<1>1. UNCHANGED crossed /\ Waits(s)
  BY DEF PatternEnded, history, Waits
<1>2. CASE crossed
  BY <1>1, <1>2 DEF PlayInv
<1>3. CASE ~crossed
  <2> DEFINE q == [player EXCEPT ![hand[s].awaits] = NoTask]
  <2>1. player \in [Players -> Player] /\ q \in [Players -> Player]
    BY ReadyTyped DEF PanelTyped, LedTyped
  <2>2. task = NoPlayer /\ \A u \in Sockets \ {s} : ~Waits(u)
    BY <1>1, <1>3 DEF PlayInv
  <2>3. \A k \in Players : q[k].at \in {"none", "ended"} \/ q[k].cancelled
    <3> SUFFICES ASSUME NEW k \in Players
                 PROVE  q[k].at \in {"none", "ended"} \/ q[k].cancelled
      OBVIOUS
    <3>1. CASE k = hand[s].awaits
      BY <2>1, <3>1 DEF NoTask
    <3>2. CASE k # hand[s].awaits
      BY <1>3, <2>1, <2>2, <3>2 DEF PlayInv, Alive, NoPlayer, Players
    <3> QED
      BY <3>1, <3>2
  <2>4. hand[s].then \in Stops
    BY <1>1 DEF PanelTyped, HandTyped, Waits
  <2>5. AfterCancel(s, hand[s].then, hand[s].about, hand[s].had, q)
    BY DEF PatternEnded
  <2> HIDE DEF q
  <2>6. /\ \A u \in Sockets : ~Waits(u)'
        /\ \A k \in Players : Alive(k)' /\ ~player'[k].cancelled => k = task'
        /\ Alive(task)' => name' = player'[task'].plays
    BY <2>1, <2>2, <2>3, <2>4, <2>5, PlayAfter
  <2> QED
    BY <2>6 DEF PlayInv
<1> QED
  BY <1>2, <1>3

LEMMA PlayTask ==
  ASSUME PanelTyped, PlayInv, NEW k \in Players, Frame(k) \/ FrameReturns(k) \/ PlayerEnds(k)
  PROVE  PlayInv'
<1>1. UNCHANGED <<hand, name, task, crossed>> /\ player \in [Players -> Player]
  BY DEF Frame, FrameReturns, PlayerEnds, history, PanelTyped, LedTyped
<1>2. /\ \A j \in Players \ {k} : player'[j] = player[j]
      /\ \/ Alive(k) /\ player'[k].plays = player[k].plays
            /\ player'[k].cancelled = player[k].cancelled
         \/ player'[k].at = "ended"
  <2>1. CASE Frame(k) \/ FrameReturns(k)
    <3>1. Alive(k)
      BY <2>1 DEF Frame, FrameReturns, Alive, NoPlayer, Players
    <3>2. \E a \in {"line", "hold"} : player' = [player EXCEPT ![k].at = a]
      BY <2>1 DEF Frame, FrameReturns
    <3> QED
      BY <1>1, <3>1, <3>2 DEF Player
  <2>2. CASE PlayerEnds(k)
    BY <1>1, <2>2 DEF PlayerEnds, NoTask
  <2> QED
    BY <2>1, <2>2
<1>3. task \in Players \cup {NoPlayer}
  BY DEF PanelTyped, LedTyped
<1> QED
  BY <1>1, <1>2, <1>3 DEF PlayInv, Alive, Waits, pc

\* The steps that keep the pattern, and await none, set no handler to waiting.
LEMMA PlaySocket ==
  ASSUME PanelTyped, PlayInv, NEW s \in Sockets,
         \/ Join(s) \/ Drop(s) \/ Closed(s) \/ Report(s) \/ Picture(s) \/ SolidReturns(s)
         \/ PortOpens(s) \/ OpenFails(s) \/ ConnectReturns(s) \/ WorkEnds(s) \/ Cancel(s)
         \/ Reported(s) \/ Raises(s)
         \/ \E f \in Flows : Start(s, f) \/ StartRefused(s, f)
         \/ \E r \in Roles : Connect(s, r)
  PROVE  PlayInv'
<1>0. HandTyped
  BY DEF PanelTyped
<1>1. UNCHANGED <<led, crossed>>
  BY DEF Join, Drop, Closed, Report, Picture, SolidReturns, PortOpens, OpenFails, ConnectReturns,
     WorkEnds, Cancel, Start, StartRefused, Reported, Raises, Connect, history
<1>2. ASSUME \A u \in Sockets : Waits(u)' => Waits(u)
      PROVE  PlayInv'
  BY <1>1, <1>2 DEF PlayInv, led, Alive
<1>3. ASSUME NEW p, NEW n, Sets(s, p, n), p # "waiting"
      PROVE  PlayInv'
  BY <1>2, <1>3 DEF Sets, Waits, pc
<1>4. CASE Drop(s)
  BY <1>2, <1>4 DEF Drop, Waits, pc
<1>5. /\ (\E e, n : Emit(s, e, n)) => PlayInv'
      /\ Await(s, Ready) \/ Await(s, Gone) => PlayInv'
      /\ (\E e, n : Tell(s, e, n)) => PlayInv'
      /\ Leave(s) => PlayInv'
  <2>1. ASSUME NEW e, NEW n, Emit(s, e, n) \/ Tell(s, e, n)
        PROVE  PlayInv'
    BY <1>0, <1>3, <2>1, EmitSets, TellSets
  <2>2. ASSUME Await(s, Ready) \/ Await(s, Gone)
        PROVE  PlayInv'
    BY <1>0, <1>3, <2>2, ReadySets
  <2> QED
    BY <1>0, <1>3, <2>1, <2>2, LeaveSets
<1>6. ASSUME NEW r \in Roles, Connect(s, r)
      PROVE  PlayInv'
  BY <1>0, <1>3, <1>6, ReadySets DEF Connect
<1>7. ASSUME NEW f \in Flows, Start(s, f) \/ StartRefused(s, f)
      PROVE  PlayInv'
  BY <1>0, <1>3, <1>7, BeginSets DEF Start, StartRefused
<1>8. CASE PortOpens(s) \/ (Raises(s) /\ Aborts(s))
  <2>1. \A u \in Sockets : pc(u)' = pc(u)
    BY <1>0, <1>8 DEF PortOpens, Aborts, HandTyped, Handler, pc
  <2> QED
    BY <1>2, <2>1 DEF Waits
<1>9. CASE Raises(s) /\ ~Aborts(s)
  BY <1>5, <1>9 DEF Raises
<1>10. CASE WorkEnds(s) \/ Goes(s) \/ Face(s)
  <2>1. ASSUME NEW a, Await(s, [Ready EXCEPT !.pc = "work", !.about = a])
        PROVE  PlayInv'
    BY <1>0, <1>3, <2>1, ReadySets
  <2>2. CASE Tag(s)
    BY <1>5, <2>1, <2>2 DEF Tag
  <2>3. CASE Face(s)
    BY <1>0, <1>3, <1>5, <2>1, <2>3, BeginSets DEF Face
  <2> QED
    BY <1>5, <1>10, <2>2, <2>3 DEF WorkEnds, Goes, Asks
<1>11. CASE Reported(s)
  <2>1. ASSUME Harmless(s), Reported(s)
        PROVE  PlayInv'
    <3>1. pc(s) = "emit"
      BY <2>1 DEF Reported
    <3>2. UNCHANGED hand \/ \E p, n : Sets(s, p, n) /\ p # "waiting"
      BY <2>1, <3>1 DEF Harmless
    <3> QED
      BY <1>2, <1>3, <3>2 DEF Waits, pc
  <2> QED
    BY <1>10, <1>11, <2>1, ReportedSteps
<1> QED
  BY <1>4, <1>5, <1>6, <1>7, <1>8, <1>9, <1>10, <1>11
  DEF Join, Closed, Report, Picture, SolidReturns, OpenFails, ConnectReturns, Cancel

\* Unless two commands have met at a pattern, whatever plays can be stopped and is shown.
THEOREM PanelOnePlayer == Spec => []OnePlayer
<1>1. Init => PlayInv
  <2> SUFFICES ASSUME Init PROVE PlayInv
    OBVIOUS
  <2>1. \A s \in Sockets : ~Waits(s)
    BY DEF Init, Waits, pc, Gone, Ready
  <2>2. task = NoPlayer /\ \A k \in Players : ~Alive(k)
    BY DEF Init, Alive, NoTask
  <2>3. ~Alive(task)
    BY <2>2 DEF Alive
  <2> QED
    BY <2>1, <2>2, <2>3 DEF PlayInv
<1>2. PanelTyped /\ PlayInv /\ [Next]_vars => PlayInv'
  <2> SUFFICES ASSUME PanelTyped, HandTyped, PlayInv, [Next]_vars PROVE PlayInv'
    BY DEF PanelTyped
  <2>1. CASE UNCHANGED vars
    BY <2>1 DEF vars, led, history, PlayInv, Waits, Alive, pc
  <2>2. ASSUME NEW r \in Roles, PortLost(r)
        PROVE  PlayInv'
    BY <2>2 DEF PortLost, led, history, PlayInv, Waits, Alive, pc
  <2>3. ASSUME NEW s \in Sockets, NEW r \in Roles, Disconnect(s, r)
        PROVE  PlayInv'
    <3>1. CASE Emit(s, "admin", "ready") /\ UNCHANGED <<led, crossed>>
      BY <3>1, EmitSets, PlayKept
    <3>2. CASE ReplacePattern(s, "disconnect", "nfc")
      BY <2>3, <3>2, PlayReplace DEF Disconnect, Receives, Stops
    <3> QED
      BY <2>3, <3>1, <3>2 DEF Disconnect
  <2>4. ASSUME NEW s \in Sockets, NEW what \in {"play", "solid"}, NEW p, SetLed(s, what, p)
        PROVE  PlayInv'
    BY <2>4, PlayReplace DEF SetLed, Receives, Stops
  <2> QED
    BY <2>1, <2>2, <2>3, <2>4, PlayEnded, PlayTask, PlaySocket
    DEF Next, Message, Continue, AtRest, Sockets
<1>3. PlayInv => OnePlayer
  BY DEF PlayInv, OnePlayer
<1> QED
  BY <1>1, <1>2, <1>3, TypedAlways, PTL DEF Spec

=============================================================================
