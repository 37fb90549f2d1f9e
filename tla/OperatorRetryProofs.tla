------------------------- MODULE OperatorRetryProofs -------------------------
(***************************************************************************)
(* The one retry of SerialTransport.send: how often the board executes a   *)
(* command, for any number of tasks, sends, connects and resets.           *)
(***************************************************************************)
EXTENDS OperatorDeviceProofs, FiniteSetTheorems

-----------------------------------------------------------------------------
(* The invariant.  That a send was executed at most twice says nothing of  *)
(* the copies that wait on the cable, nor of the writes its thread still   *)
(* has before it; all three are counted together here.                     *)

\* Where the send n stands on the cable, and how often the board has executed it or will.
Copies(s, n) == {i \in DOMAIN s : s[i].id = n}
Times(n) == ran[n] + Cardinality(Copies(rx, n))

\* Sends under way have numbers of their own, and a number not given out was never written.
Numbered ==
  /\ \A t \in Tasks : job[t].stage # "none" => job[t].msg.id \in 1 .. sent
  /\ \A t, u \in Tasks :
       job[t].stage # "none" /\ job[u].stage # "none" /\ job[t].msg.id = job[u].msg.id => t = u
Unsent == \A n \in 1 .. MaxSends : n > sent => Times(n) = 0

\* Before the first write a send was never written; before the second one it was written at
\* most once, and if it was, the read failed and it counts as abandoned.
Retry(t) ==
  /\ job[t].stage \in {"queued", "reopen", "opening"} => job[t].try = 1
  /\ job[t].try = 1 => Times(job[t].msg.id) <= 1
  /\ job[t].stage \in {"queued", "write"} /\ job[t].try = 1 => Times(job[t].msg.id) = 0
  /\ job[t].stage \in {"write", "reopen", "opening"} =>
       /\ Times(job[t].msg.id) <= 1
       /\ job[t].msg.id \in abandoned \/ Times(job[t].msg.id) = 0

Bounded(n) == Times(n) <= 2 /\ (n \in abandoned \/ Times(n) <= 1)

RetryInv ==
  /\ Numbered /\ Unsent
  /\ \A n \in 1 .. MaxSends : Bounded(n)
  /\ \A t \in Tasks : job[t].stage # "none" => Retry(t)

-----------------------------------------------------------------------------
(* Counting on the cable *)

LEMMA CopiesFinite ==
  ASSUME NEW s \in Seq(Message), NEW n
  PROVE  IsFiniteSet(Copies(s, n)) /\ Cardinality(Copies(s, n)) \in Nat
<1>1. IsFiniteSet(1 .. Len(s)) /\ Copies(s, n) \in SUBSET (1 .. Len(s))
  BY FS_Interval DEF Copies
<1>2. IsFiniteSet(Copies(s, n))
  BY <1>1, FS_Subset
<1> QED
  BY <1>2, FS_CardinalityType

LEMMA CopiesNone ==
  ASSUME NEW n
  PROVE  Cardinality(Copies(<<>>, n)) = 0
<1>1. Copies(<<>>, n) = {}
  BY DEF Copies
<1> QED
  BY <1>1, FS_EmptySet

\* A line written is one copy of its own send.
LEMMA CopiesAppend ==
  ASSUME NEW s \in Seq(Message), NEW m \in Message, NEW n
  PROVE  Cardinality(Copies(Append(s, m), n))
           = Cardinality(Copies(s, n)) + IF m.id = n THEN 1 ELSE 0
<1>1. CASE m.id = n
  <2>1. Copies(Append(s, m), n) = Copies(s, n) \cup {Len(s) + 1}
    BY <1>1 DEF Copies
  <2>2. Len(s) + 1 \notin Copies(s, n)
    BY DEF Copies
  <2> QED
    BY <1>1, <2>1, <2>2, CopiesFinite, FS_AddElement
<1>2. CASE m.id # n
  <2>1. Copies(Append(s, m), n) = Copies(s, n)
    BY <1>2 DEF Copies
  <2> QED
    BY <1>2, <2>1, CopiesFinite
<1> QED
  BY <1>1, <1>2

\* A line executed leaves one copy less of its own send.
LEMMA CopiesTail ==
  ASSUME NEW s \in Seq(Message), s # <<>>, NEW n
  PROVE  Cardinality(Copies(Tail(s), n))
           = Cardinality(Copies(s, n)) - IF Head(s).id = n THEN 1 ELSE 0
<1> DEFINE C == Copies(Tail(s), n)
           D == Copies(s, n) \ {1}
           f == [i \in C |-> i + 1]
<1>1. IsFiniteSet(C) /\ IsFiniteSet(Copies(s, n)) /\ Cardinality(Copies(s, n)) \in Nat
  <2>1. Tail(s) \in Seq(Message)
    OBVIOUS
  <2> QED
    BY <2>1, CopiesFinite
<1>2. f \in Bijection(C, D)
  <2>1. \A i \in C : i + 1 \in D /\ i \in Nat
    BY TailEntries DEF Copies
  <2>2. ASSUME NEW k \in D PROVE \E i \in C : f[i] = k
    <3>1. k \in 2 .. Len(s) /\ s[k].id = n
      BY <2>2 DEF Copies
    <3>2. k - 1 \in DOMAIN Tail(s) /\ Tail(s)[k - 1] = s[k]
      BY <3>1
    <3>3. k - 1 \in C /\ f[k - 1] = k
      BY <3>1, <3>2 DEF Copies
    <3> QED
      BY <3>3
  <2>3. \A i, k \in C : f[i] = f[k] => i = k
    BY <2>1
  <2>4. f \in [C -> D]
    BY <2>1
  <2> QED
    BY <2>2, <2>3, <2>4 DEF Bijection, Injection, Surjection, IsInjective
<1>3. Cardinality(C) = Cardinality(D)
  BY <1>1, <1>2, FS_Bijection DEF ExistsBijection
<1>4. Cardinality(D) = IF 1 \in Copies(s, n) THEN Cardinality(Copies(s, n)) - 1
                       ELSE Cardinality(Copies(s, n))
  BY <1>1, FS_RemoveElement
<1>5. 1 \in Copies(s, n) <=> Head(s).id = n
  BY DEF Copies
<1> QED
  BY <1>1, <1>3, <1>4, <1>5

-----------------------------------------------------------------------------
(* What the steps do to the count *)

LEMMA TimesType ==
  ASSUME TypeOK, NEW n \in 1 .. MaxSends
  PROVE  Times(n) \in Nat /\ ran[n] \in Nat /\ ran[n] <= Times(n)
<1>1. ran[n] \in Nat /\ rx \in Seq(Message)
  BY DEF TypeOK
<1> QED
  BY <1>1, CopiesFinite DEF Times

LEMMA TimesNext ==
  ASSUME TypeOK', NEW n \in 1 .. MaxSends
  PROVE  Times(n)' \in Nat
<1>1. ran'[n] \in Nat /\ rx' \in Seq(Message)
  BY DEF TypeOK
<1> QED
  BY <1>1, CopiesFinite DEF Times

\* Lines get lost, never more.
LEMMA TimesLess ==
  ASSUME TypeOK, UNCHANGED ran, rx' \in {rx, <<>>}, NEW n \in 1 .. MaxSends
  PROVE  Times(n)' <= Times(n)
<1>1. ran[n] \in Nat /\ rx \in Seq(Message)
  BY DEF TypeOK
<1>2. Cardinality(Copies(rx, n)) \in Nat
  BY <1>1, CopiesFinite
<1>3. CASE rx' = rx
  BY <1>1, <1>2, <1>3 DEF Times
<1>4. CASE rx' = <<>>
  BY <1>1, <1>2, <1>4, CopiesNone DEF Times
<1> QED
  BY <1>3, <1>4

\* A write counts for its own send only.
LEMMA TimesWrite ==
  ASSUME TypeOK, NEW t \in Tasks, Write(t), NEW n \in 1 .. MaxSends
  PROVE  Times(n)' <= Times(n) + IF n = job[t].msg.id THEN 1 ELSE 0
<1>1. ran[n] \in Nat /\ rx \in Seq(Message) /\ job[t].msg \in Message
  BY DEF TypeOK, Jobs
<1>2. Cardinality(Copies(rx, n)) \in Nat
  BY <1>1, CopiesFinite
<1>3. rx' \in {rx, Append(rx, job[t].msg)} /\ UNCHANGED ran
  BY DEF Write, history
<1>4. CASE rx' = rx
  BY <1>1, <1>2, <1>3, <1>4 DEF Times
<1>5. CASE rx' = Append(rx, job[t].msg)
  <2>1. Cardinality(Copies(rx', n))
          = Cardinality(Copies(rx, n)) + IF job[t].msg.id = n THEN 1 ELSE 0
    BY <1>1, <1>5, CopiesAppend
  <2>2. Times(n)' = ran[n] + Cardinality(Copies(rx', n))
    BY <1>3 DEF Times
  <2> QED
    BY <1>1, <1>2, <2>1, <2>2 DEF Times
<1> QED
  BY <1>3, <1>4, <1>5

\* A line executed counts as before.
LEMMA TimesExecute ==
  ASSUME TypeOK, NEW w, Execute(w), NEW n \in 1 .. MaxSends
  PROVE  Times(n)' = Times(n)
<1>1. ran \in [1 .. MaxSends -> Nat] /\ rx \in Seq(Message) /\ rx # <<>>
  BY DEF TypeOK, Execute
<1>2. Cardinality(Copies(rx, n)) \in Nat
  BY <1>1, CopiesFinite
<1>3. ran' = [ran EXCEPT ![Head(rx).id] = @ + 1] /\ rx' = Tail(rx)
  BY DEF Execute
<1>4. Cardinality(Copies(rx', n))
        = Cardinality(Copies(rx, n)) - IF Head(rx).id = n THEN 1 ELSE 0
  BY <1>1, <1>3, CopiesTail
<1>5. ran'[n] = ran[n] + IF Head(rx).id = n THEN 1 ELSE 0
  BY <1>1, <1>3
<1> QED
  BY <1>1, <1>2, <1>4, <1>5 DEF Times

-----------------------------------------------------------------------------
(* The invariant is kept *)

\* A step that leaves the sends alone, or ends some.
LEMMA RetryApart ==
  ASSUME TypeOK, TypeOK', RetryInv, sent' = sent, abandoned \subseteq abandoned',
         \A u \in Tasks : job'[u].stage # "none" => job'[u] = job[u],
         \A n \in 1 .. MaxSends : Times(n)' <= Times(n)
  PROVE  RetryInv'
<1>1. \A n \in 1 .. MaxSends : Times(n) \in Nat /\ Times(n)' \in Nat
  BY TimesType, TimesNext
<1>2. sent \in 0 .. MaxSends
  BY DEF TypeOK, Numbers
<1>3. Numbered'
  BY DEF RetryInv, Numbered
<1>4. Unsent'
  BY <1>1 DEF RetryInv, Unsent
<1>5. \A n \in 1 .. MaxSends : Bounded(n)'
  BY <1>1 DEF RetryInv, Bounded
<1>6. ASSUME NEW t \in Tasks, job'[t].stage # "none" PROVE Retry(t)'
  <2>1. Retry(t) /\ job'[t] = job[t] /\ job[t].msg.id \in 1 .. MaxSends
    BY <1>2, <1>6, LineBounds DEF RetryInv, Numbered
  <2>2. PICK m \in 1 .. MaxSends : m = job[t].msg.id
    BY <2>1
  <2>3. Times(m) \in Nat /\ Times(m)' \in Nat /\ Times(m)' <= Times(m)
    BY <1>1
  <2> QED
    BY <2>1, <2>2, <2>3 DEF Retry
<1> QED
  BY <1>3, <1>4, <1>5, <1>6 DEF RetryInv

\* A step of one send: its count stays within its bound, and it is left in order.
LEMMA RetryFrame ==
  ASSUME TypeOK, TypeOK', RetryInv, NEW t \in Tasks, job[t].stage # "none", Others(t),
         sent' = sent, abandoned \subseteq abandoned',
         NEW m, m = job[t].msg.id, Bounded(m)',
         \A n \in 1 .. MaxSends : n # m => Times(n)' <= Times(n),
         job'[t].stage # "none" => job'[t].msg = job[t].msg /\ Retry(t)'
  PROVE  RetryInv'
<1>1. \A n \in 1 .. MaxSends : Times(n) \in Nat /\ Times(n)' \in Nat
  BY TimesType, TimesNext
<1>2. sent \in 0 .. MaxSends /\ m \in 1 .. sent
  BY DEF TypeOK, Numbers, RetryInv, Numbered
<1>3. Numbered'
  BY DEF RetryInv, Numbered, Others
<1>4. Unsent'
  BY <1>1, <1>2 DEF RetryInv, Unsent
<1>5. ASSUME NEW n \in 1 .. MaxSends PROVE Bounded(n)'
  <2>1. CASE n # m
    <3>1. Times(n)' <= Times(n) /\ Bounded(n)
      BY <2>1 DEF RetryInv
    <3> QED
      BY <1>1, <3>1 DEF Bounded
  <2> QED
    BY <2>1
<1>6. ASSUME NEW u \in Tasks, job'[u].stage # "none" PROVE Retry(u)'
  <2>1. CASE u # t
    <3>1. job'[u] = job[u] /\ Retry(u) /\ job[u].msg.id \in 1 .. MaxSends /\ job[u].msg.id # m
      BY <1>2, <1>6, <2>1, LineBounds DEF RetryInv, Numbered, Others
    <3> QED
      BY <1>1, <3>1 DEF Retry
  <2> QED
    BY <1>6, <2>1
<1> QED
  BY <1>3, <1>4, <1>5, <1>6 DEF RetryInv

LEMMA RetryWrite ==
  ASSUME TypeOK, TypeOK', RetryInv, NEW t \in Tasks, Write(t)
  PROVE  RetryInv'
<1>0. PICK m : m = job[t].msg.id
  OBVIOUS
<1>1. job \in [Tasks -> Jobs] /\ job[t] \in Jobs /\ sent \in 0 .. MaxSends
  BY DEF TypeOK, Numbers
<1>2. /\ job[t].stage = "write" /\ job'[t] = [job[t] EXCEPT !.stage = "read"]
      /\ Others(t) /\ UNCHANGED <<sent, abandoned>>
  BY <1>1 DEF Write, Stage, Others, count, history
<1>3. Retry(t) /\ m \in 1 .. MaxSends
  BY <1>0, <1>1, <1>2, LineBounds DEF RetryInv, Numbered
<1>4. job'[t].stage = "read" /\ job'[t].msg = job[t].msg /\ job'[t].try = job[t].try
  BY <1>1, <1>2 DEF Jobs
<1>5. Times(m) \in Nat /\ Times(m)' \in Nat /\ Times(m)' <= Times(m) + 1
  <2>1. Times(m)' <= Times(m) + IF m = job[t].msg.id THEN 1 ELSE 0
    BY <1>3, TimesWrite
  <2> QED
    BY <1>0, <1>3, <2>1, TimesType, TimesNext
<1>6. \A n \in 1 .. MaxSends : n # m => Times(n)' <= Times(n)
  <2> SUFFICES ASSUME NEW n \in 1 .. MaxSends, n # m PROVE Times(n)' <= Times(n)
    OBVIOUS
  <2>1. Times(n)' <= Times(n) + IF n = job[t].msg.id THEN 1 ELSE 0
    BY TimesWrite
  <2> QED
    BY <1>0, <2>1, TimesType, TimesNext
<1>7. Times(m) <= 1 /\ (m \in abandoned \/ Times(m) = 0)
      /\ (job[t].try = 1 => Times(m) = 0)
  BY <1>0, <1>2, <1>3 DEF Retry
<1>8. Bounded(m)'
  <2>1. Times(m)' <= 2 /\ (m \in abandoned' \/ Times(m)' <= 1)
    BY <1>2, <1>5, <1>7
  <2> QED
    BY <1>2, <2>1 DEF Bounded
<1>9. Retry(t)'
  <2>1. job'[t].try = 1 => Times(m)' <= 1
    BY <1>4, <1>5, <1>7
  <2> QED
    BY <1>0, <1>4, <2>1 DEF Retry
<1> QED
  BY <1>0, <1>2, <1>4, <1>6, <1>8, <1>9, RetryFrame

\* A step of one send that writes nothing: where it may lead.
Moves(t) ==
  /\ job'[t].stage \in {"queued", "reopen", "opening"} => job'[t].try = 1
  /\ job'[t].try = 1 => job[t].try = 1
  /\ job'[t].stage \in {"queued", "write"} /\ job'[t].try = 1 =>
       job[t].stage \in {"queued", "write"}
  /\ job'[t].stage \in {"write", "reopen", "opening"} =>
       \/ job[t].stage \in {"queued", "write", "reopen", "opening"}
       \/ job[t].stage = "read" /\ job[t].try = 1 /\ job[t].msg.id \in abandoned'

LEMMA RetryMoves ==
  ASSUME TypeOK, TypeOK', RetryInv, NEW t \in Tasks, job[t].stage # "none", Others(t),
         sent' = sent, abandoned \subseteq abandoned', UNCHANGED ran, rx' \in {rx, <<>>},
         job'[t].stage # "none" => job'[t].msg = job[t].msg /\ Moves(t)
  PROVE  RetryInv'
<1>0. PICK m : m = job[t].msg.id
  OBVIOUS
<1>1. sent \in 0 .. MaxSends /\ m \in 1 .. MaxSends /\ Retry(t)
  <2>1. sent \in 0 .. MaxSends
    BY DEF TypeOK, Numbers
  <2>2. m \in 1 .. sent /\ Retry(t)
    BY <1>0 DEF RetryInv, Numbered
  <2> QED
    BY <2>1, <2>2, LineBounds
<1>2. \A n \in 1 .. MaxSends : Times(n)' <= Times(n) /\ Times(n) \in Nat /\ Times(n)' \in Nat
  BY TimesLess, TimesType, TimesNext
<1>3. Bounded(m)'
  <2>1. Bounded(m)
    BY <1>1 DEF RetryInv
  <2> QED
    BY <1>1, <1>2, <2>1 DEF Bounded
<1>4. ASSUME job'[t].stage # "none" PROVE Retry(t)'
  <2>1. job'[t].msg.id = m /\ Moves(t)
    BY <1>0, <1>4
  <2>2. Times(m) <= 1 => Times(m)' <= 1
    BY <1>1, <1>2
  <2>3. Times(m) = 0 => Times(m)' = 0
    BY <1>1, <1>2
  <2>4. job'[t].try = 1 => Times(m)' <= 1
    BY <1>0, <1>1, <2>1, <2>2 DEF Moves, Retry
  <2>5. job'[t].stage \in {"queued", "write"} /\ job'[t].try = 1 => Times(m)' = 0
    BY <1>0, <1>1, <2>1, <2>3 DEF Moves, Retry
  <2>6. job'[t].stage \in {"write", "reopen", "opening"} =>
          Times(m)' <= 1 /\ (m \in abandoned' \/ Times(m)' = 0)
    <3>1. job[t].stage = "queued" => Times(m) = 0 /\ Times(m) <= 1
      BY <1>0, <1>1, <1>2 DEF Retry
    <3> QED
      BY <1>0, <1>1, <2>1, <2>2, <2>3, <3>1 DEF Moves, Retry
  <2> QED
    BY <2>1, <2>4, <2>5, <2>6 DEF Retry, Moves
<1>5. \A n \in 1 .. MaxSends : n # m => Times(n)' <= Times(n)
  BY <1>2
<1> QED
  BY <1>0, <1>3, <1>4, <1>5, RetryFrame

LEMMA RetrySend ==
  ASSUME TypeOK, TypeOK', RetryInv, NEW t \in Tasks, SendStep(t)
  PROVE  RetryInv'
<1>1. CASE Write(t)
  BY <1>1, RetryWrite
<1>2. CASE \/ Acquire(t) \/ WriteFails(t) \/ Read(t) \/ Deadline(t) \/ ReadFails(t)
           \/ ReopenBegin(t) \/ ReopenWithoutPort(t) \/ Reopened(t) \/ ReopenFails(t)
  <2>1. job \in [Tasks -> Jobs] /\ job[t] \in Jobs
    BY DEF TypeOK
  <2>2. job[t].stage # "none" /\ sent' = sent /\ UNCHANGED ran /\ rx' \in {rx, <<>>}
        /\ abandoned \subseteq abandoned'
    BY <1>2 DEF Acquire, WriteFails, Read, Deadline, ReadFails, ReopenBegin, ReopenWithoutPort,
       Reopened, ReopenFails, OpenedPort, Resets, count, board, history
  <2>3. Others(t)
    BY LockSend DEF Enters, Works
  <2>4. Retry(t)
    BY <2>2 DEF RetryInv
  <2>5. ASSUME job'[t].stage # "none" PROVE job'[t].msg = job[t].msg /\ Moves(t)
    <3>1. CASE Acquire(t)
      <4>1. job[t].stage = "queued" /\ job'[t] = [job[t] EXCEPT !.stage = "write"]
        BY <2>1, <3>1 DEF Acquire, Stage
      <4> QED
        BY <2>1, <4>1 DEF Moves, Jobs
    <3>2. CASE WriteFails(t)
      <4>1. /\ job[t].stage = "write"
            /\ job'[t] = [job[t] EXCEPT !.stage = IF job[t].try = 1 THEN "reopen" ELSE "raised"]
        BY <2>1, <3>2, <2>5 DEF WriteFails, Raised, NoJob
      <4> QED
        BY <2>1, <4>1 DEF Moves, Jobs
    <3>3. CASE ReadFails(t)
      <4>1. /\ job[t].stage = "read" /\ job[t].msg.id \in abandoned'
            /\ job'[t] = [job[t] EXCEPT !.stage = IF job[t].try = 1 THEN "reopen" ELSE "raised"]
        BY <2>1, <3>3, <2>5 DEF ReadFails, Raised, NoJob
      <4> QED
        BY <2>1, <4>1 DEF Moves, Jobs
    <3>4. CASE Read(t)
      <4>1. job'[t] = [job[t] EXCEPT !.stage = "back", !.line = Head(tx)]
        BY <2>1, <3>4, <2>5 DEF Read, NoJob
      <4> QED
        BY <2>1, <4>1 DEF Moves, Jobs
    <3>5. CASE Deadline(t)
      <4>1. job'[t] = [job[t] EXCEPT !.stage = "back", !.line = Empty]
        BY <2>1, <3>5, <2>5 DEF Deadline, NoJob
      <4> QED
        BY <2>1, <4>1 DEF Moves, Jobs
    <3>6. CASE ReopenBegin(t)
      <4>1. /\ job[t].stage = "reopen"
            /\ job'[t] = [job[t] EXCEPT !.stage = "opening", !.via = port]
        BY <2>1, <3>6 DEF ReopenBegin
      <4> QED
        BY <2>1, <2>4, <4>1 DEF Moves, Jobs, Retry
    <3>7. CASE ReopenWithoutPort(t) \/ ReopenFails(t)
      <4>1. job'[t] = [job[t] EXCEPT !.stage = "lost"]
        BY <2>1, <3>7, <2>5 DEF ReopenWithoutPort, ReopenFails, NoJob
      <4> QED
        BY <2>1, <4>1 DEF Moves, Jobs
    <3>8. CASE Reopened(t)
      <4>1. /\ job[t].stage = "opening"
            /\ job'[t] = [job[t] EXCEPT !.stage = "write", !.try = 2, !.via = "none"]
        BY <2>1, <3>8, <2>5 DEF Reopened, NoJob
      <4> QED
        BY <2>1, <4>1 DEF Moves, Jobs
    <3> QED
      BY <1>2, <3>1, <3>2, <3>3, <3>4, <3>5, <3>6, <3>7, <3>8
  <2> QED
    BY <2>2, <2>3, <2>5, RetryMoves
<1> QED
  BY <1>1, <1>2 DEF SendStep

\* The caller resumes or is cancelled: what its thread still does was allowed before.
LEMMA RetryLeaves ==
  ASSUME TypeOK, TypeOK', RetryInv, NEW t \in Tasks, Returns(t) \/ CancelSend(t)
  PROVE  RetryInv'
<1>1. /\ job \in [Tasks -> Jobs] /\ job' \in {job, [job EXCEPT ![t] = NoJob]}
      /\ sent' = sent /\ UNCHANGED <<ran, rx>> /\ abandoned \subseteq abandoned'
  BY DEF TypeOK, Returns, CancelSend, count, board
<1>2. \A u \in Tasks : job'[u].stage # "none" => job'[u] = job[u]
  BY <1>1 DEF NoJob
<1>3. \A n \in 1 .. MaxSends : Times(n)' <= Times(n)
  BY <1>1, TimesLess
<1> QED
  BY <1>1, <1>2, <1>3, RetryApart

\* A new send takes a number that no line bears.
LEMMA RetrySubmit ==
  ASSUME TypeOK, TypeOK', RetryInv, NEW t \in Tasks, NEW w, Submit(t, w),
         UNCHANGED <<holder, board, history>>
  PROVE  RetryInv'
<1>1. /\ job \in [Tasks -> Jobs] /\ sent \in 0 .. MaxSends /\ sent' = sent + 1
      /\ sent + 1 \in 1 .. MaxSends /\ UNCHANGED <<rx, ran, abandoned>>
  <2>1. sent \in 0 .. MaxSends /\ sent < MaxSends /\ sent' = sent + 1 /\ MaxSends \in Nat
    BY LineBounds DEF TypeOK, Numbers, Submit
  <2>2. sent + 1 \in 1 .. MaxSends
    BY <2>1
  <2> QED
    BY <2>1, <2>2 DEF TypeOK, board, history
<1>2. /\ job'[t].stage \in {"sim", "raised", "queued"} /\ job'[t].try = 1
      /\ job'[t].msg.id = sent + 1 /\ \A u \in Tasks \ {t} : job'[u] = job[u]
  BY <1>1 DEF Submit, NoJob
<1>3. \A n \in 1 .. MaxSends : Times(n)' = Times(n)
  BY <1>1 DEF Times
<1>4. Times(sent + 1) = 0
  BY <1>1 DEF RetryInv, Unsent
<1>5. \A u \in Tasks \ {t} : job'[u].stage # "none" => job[u].msg.id \in 1 .. sent
  BY <1>2 DEF RetryInv, Numbered
<1>6. Numbered'
  <2>1. \A u \in Tasks : job'[u].stage # "none" => job'[u].msg.id \in 1 .. sent'
    BY <1>1, <1>2, <1>5
  <2>2. ASSUME NEW u \in Tasks, NEW v \in Tasks, job'[u].stage # "none", job'[v].stage # "none",
               job'[u].msg.id = job'[v].msg.id
        PROVE  u = v
    <3>1. \A x \in Tasks \ {t} : job'[x].stage # "none" => job'[x].msg.id # sent + 1
      BY <1>1, <1>2, <1>5
    <3> QED
      BY <1>2, <2>2, <3>1 DEF RetryInv, Numbered
  <2> QED
    BY <2>1, <2>2 DEF Numbered
<1>7. Unsent'
  BY <1>1, <1>3 DEF RetryInv, Unsent
<1>8. \A n \in 1 .. MaxSends : Bounded(n)'
  BY <1>1, <1>3 DEF RetryInv, Bounded
<1>9. ASSUME NEW u \in Tasks, job'[u].stage # "none" PROVE Retry(u)'
  <2>1. CASE u = t
    BY <1>1, <1>2, <1>3, <1>4, <2>1 DEF Retry
  <2>2. CASE u # t
    <3>1. job'[u] = job[u] /\ Retry(u)
      BY <1>2, <1>9, <2>2 DEF RetryInv
    <3>2. job[u].msg.id \in 1 .. sent
      BY <1>5, <1>9, <2>2
    <3>3. job[u].msg.id \in 1 .. MaxSends
      BY <1>1, <3>2, LineBounds
    <3> QED
      BY <1>1, <1>3, <3>1, <3>3 DEF Retry
  <2> QED
    BY <2>1, <2>2
<1> QED
  BY <1>6, <1>7, <1>8, <1>9 DEF RetryInv

\* The port, the board and the users.
LEMMA RetryElse ==
  ASSUME TypeOK, TypeOK', RetryInv, UNCHANGED <<job, sent, abandoned>>,
         \/ UNCHANGED ran /\ rx' \in {rx, <<>>}
         \/ \E w : Execute(w)
  PROVE  RetryInv'
<1>1. \A n \in 1 .. MaxSends : Times(n)' <= Times(n)
  BY TimesLess, TimesExecute, TimesType
<1> QED
  BY <1>1, RetryApart

LEMMA RetryNext == Inv /\ RetryInv /\ [Next]_vars => RetryInv'
<1> SUFFICES ASSUME Inv, RetryInv, [Next]_vars PROVE RetryInv'
  OBVIOUS
<1>0. TypeOK /\ TypeOK'
  BY TypeNext DEF Inv, LockInv
<1>1. ASSUME NEW t \in Tasks, Calls(t) \/ Continue(t) PROVE RetryInv'
  <2>1. \/ \E w : Submit(t, w) /\ UNCHANGED <<holder, board, history>>
        \/ Returns(t) \/ CancelSend(t)
        \/ UNCHANGED <<rx, ran, job, sent, abandoned>>
    BY <1>1 DEF Calls, Connect, ConnectBegin, Change, Wake, Signal, Frame, CancelFrame, Continue,
       Refused, Ping, PingReturns, HandshakeEnds, WakeReturns, WakeAgain, WakeDeadline, UseAddress,
       SendOkReturns, Sends, lineVars, board, history, count
  <2> QED
    BY <1>0, <2>1, RetrySubmit, RetryLeaves, RetryElse
<1>2. ASSUME NEW t \in Tasks, Transport(t) PROVE RetryInv'
  <2>1. CASE ConnectStep(t)
    BY <1>0, <2>1, RetryElse DEF ConnectStep, ConnectOpened, ConnectFails, ConnectSettled,
       OpenedPort, Resets, count, board, history
  <2> QED
    BY <1>0, <1>2, <2>1, RetrySend DEF Transport
<1>3. CASE Around
  BY <1>0, <1>3, RetryElse DEF Around, Disconnect, Change, BoardResets, BoardBoots, Execute, Resets,
     count, history
<1>4. CASE UNCHANGED vars
  BY <1>0, <1>4, RetryElse DEF vars, lineVars, count, board, history
<1> QED
  BY <1>1, <1>2, <1>3, <1>4, Steps

LEMMA RetryInit == Init => RetryInv
<1> SUFFICES ASSUME Init PROVE RetryInv
  OBVIOUS
<1>1. \A n \in 1 .. MaxSends : Times(n) = 0
  BY CopiesNone DEF Init, LineInit, Times
<1>2. \A t \in Tasks : job[t].stage = "none"
  BY DEF Init, LineInit, NoJob
<1> QED
  BY <1>1, <1>2 DEF RetryInv, Numbered, Unsent, Bounded

\* SerialTransport.send: whatever fails, resets, is cancelled or is reconnected, a board
\* executes a command at most twice, and twice only a send that is abandoned: by an I/O error, a
\* passed deadline or a cancel.
THEOREM LineAtMostTwice == Spec => []AtMostTwice
<1>1. TypeOK /\ RetryInv => AtMostTwice
  <2> SUFFICES ASSUME TypeOK, RetryInv, NEW n \in 1 .. MaxSends
               PROVE  ran[n] <= 2 /\ (ran[n] = 2 => n \in abandoned)
    BY DEF AtMostTwice
  <2>1. Bounded(n) /\ Times(n) \in Nat /\ ran[n] \in Nat /\ ran[n] <= Times(n)
    BY TimesType DEF RetryInv
  <2> QED
    BY <2>1 DEF Bounded
<1> QED
  BY <1>1, RetryInit, RetryNext, SpecAnswers, LineTypeOK, PTL DEF Spec
=============================================================================
