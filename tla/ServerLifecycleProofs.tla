------------------------ MODULE ServerLifecycleProofs ------------------------
(***************************************************************************)
(* The theorems of ServerLifecycle: the queue of the pool through every    *)
(* way in and out of it, and who is dropped when the process ends.         *)
(***************************************************************************)
EXTENDS ServerLifecycle, SequenceTheorems, TLAPS

-----------------------------------------------------------------------------
(* Queues in which everybody stands once.                                  *)

In(q, x) == \E i \in DOMAIN q : q[i] = x
Once(q) == \A i, j \in DOMAIN q : q[i] = q[j] => i = j

\* Somebody who is not in the queue gets in line.
LEMMA Joins ==
  ASSUME NEW S, NEW q \in Seq(S), NEW r \in S, Once(q), ~In(q, r)
  PROVE  /\ Append(q, r) \in Seq(S) /\ Once(Append(q, r))
         /\ \A x : In(Append(q, r), x) <=> x = r \/ In(q, x)
<1>. DEFINE n == Len(q)
            p == Append(q, r)
<1>1. n \in Nat /\ DOMAIN q = 1..n
  BY LenProperties
<1>2. p \in Seq(S) /\ Len(p) = n + 1 /\ p[n + 1] = r /\ \A i \in 1..n : p[i] = q[i]
  BY AppendProperties
<1>3. DOMAIN p = 1..(n + 1)
  BY <1>2, LenProperties
<1>. HIDE DEF n, p
<1>4. Once(p)
  BY <1>1, <1>2, <1>3 DEF Once, In
<1>5. \A x : In(p, x) <=> x = r \/ In(q, x)
  BY <1>1, <1>2, <1>3 DEF In
<1>. QED BY <1>2, <1>4, <1>5 DEF p

\* The first leaves.
LEMMA HeadLeaves ==
  ASSUME NEW S, NEW q \in Seq(S), q # <<>>, Once(q)
  PROVE  /\ Tail(q) \in Seq(S) /\ Once(Tail(q))
         /\ In(q, Head(q)) /\ \A x : In(Tail(q), x) <=> x # Head(q) /\ In(q, x)
<1>. DEFINE n == Len(q)
            p == Tail(q)
            h == Head(q)
<1>1. n \in Nat \ {0} /\ DOMAIN q = 1..n /\ h = q[1]
  BY LenProperties, EmptySeq
<1>2. p \in Seq(S) /\ Len(p) = n - 1 /\ \A i \in 1..(n - 1) : p[i] = q[i + 1]
  BY HeadTailProperties
<1>3. DOMAIN p = 1..(n - 1)
  BY <1>2, LenProperties
<1>. HIDE DEF n, p, h
<1>4. Once(p)
  <2>1. ASSUME NEW i \in 1..(n - 1), NEW j \in 1..(n - 1), p[i] = p[j] PROVE i = j
    <3>1. i + 1 \in 1..n /\ j + 1 \in 1..n /\ q[i + 1] = q[j + 1]
      BY <2>1, <1>1, <1>2
    <3>2. i + 1 = j + 1
      BY <3>1, <1>1 DEF Once
    <3>. QED BY <3>2, <1>1
  <2>. QED BY <2>1, <1>3 DEF Once
<1>5. ASSUME NEW x PROVE In(p, x) <=> x # h /\ In(q, x)
  <2>1. ASSUME NEW i \in DOMAIN p, p[i] = x PROVE x # h /\ In(q, x)
    BY <1>1, <1>2, <1>3, <2>1 DEF In, Once
  <2>2. ASSUME NEW i \in DOMAIN q, q[i] = x, x # h PROVE In(p, x)
    <3>1. i - 1 \in 1..(n - 1) /\ p[i - 1] = x
      BY <1>1, <1>2, <2>2
    <3>. QED BY <3>1, <1>3 DEF In
  <2>. QED BY <2>1, <2>2 DEF In
<1>6. In(q, h)
  BY <1>1 DEF In
<1>. QED BY <1>2, <1>4, <1>5, <1>6 DEF p, h

\* Somebody gives up.
LEMMA Leaves ==
  ASSUME NEW S, NEW q \in Seq(S), NEW k \in DOMAIN q, Once(q)
  PROVE  /\ RemoveAt(q, k) \in Seq(S) /\ Once(RemoveAt(q, k))
         /\ \A x : In(RemoveAt(q, k), x) <=> x # q[k] /\ In(q, x)
<1>. DEFINE n == Len(q)
            a == SubSeq(q, 1, k - 1)
            b == SubSeq(q, k + 1, Len(q))
            p == a \o b
<1>1. n \in Nat /\ DOMAIN q = 1..n /\ k \in 1..n /\ \A i \in 1..n : q[i] \in S
  BY LenProperties, ElementOfSeq
<1>2. a \in Seq(S) /\ Len(a) = k - 1 /\ \A i \in 1..(k - 1) : a[i] = q[i]
  <2>1. \A i \in 1..(k - 1) : q[i] \in S
    BY <1>1
  <2>. QED BY <2>1, <1>1, SubSeqProperties
<1>3. b \in Seq(S) /\ Len(b) = n - k /\ \A i \in 1..(n - k) : b[i] = q[k + i]
  <2>1. \A i \in (k + 1)..n : q[i] \in S
    BY <1>1
  <2>2. /\ b \in Seq(S) /\ Len(b) = IF k + 1 <= n THEN n - (k + 1) + 1 ELSE 0
        /\ \A i \in 1..(n - (k + 1) + 1) : b[i] = q[(k + 1) + i - 1]
    BY <2>1, <1>1, SubSeqProperties
  <2>. HIDE DEF n, a, b, p
  <2>3. Len(b) = n - k
    BY <2>2, <1>1
  <2>4. ASSUME NEW i \in 1..(n - k) PROVE b[i] = q[k + i]
    <3>1. i \in 1..(n - (k + 1) + 1) /\ (k + 1) + i - 1 = k + i
      BY <1>1
    <3>. QED BY <3>1, <2>2
  <2>. QED BY <2>2, <2>3, <2>4
<1>. HIDE DEF n, a, b
<1>4. /\ p \in Seq(S) /\ Len(p) = n - 1
      /\ \A i \in 1..(n - 1) : p[i] = IF i <= k - 1 THEN a[i] ELSE b[i - (k - 1)]
  <2>1. /\ p \in Seq(S) /\ Len(p) = Len(a) + Len(b)
        /\ \A i \in 1..Len(a) + Len(b) : p[i] = IF i <= Len(a) THEN a[i] ELSE b[i - Len(a)]
    BY <1>2, <1>3, ConcatProperties
  <2>2. Len(a) + Len(b) = n - 1
    BY <1>1, <1>2, <1>3
  <2>. HIDE DEF p
  <2>. QED BY <2>1, <2>2, <1>2
<1>5. DOMAIN p = 1..(n - 1)
  BY <1>4, <1>1, LenProperties
<1>. HIDE DEF p
<1>6. \A i \in 1..(n - 1) : p[i] = IF i < k THEN q[i] ELSE q[i + 1]
  <2>1. ASSUME NEW i \in 1..(n - 1), i < k PROVE p[i] = q[i]
    <3>1. i <= k - 1 /\ i \in 1..(k - 1)
      BY <2>1, <1>1
    <3>. QED BY <3>1, <1>2, <1>4
  <2>2. ASSUME NEW i \in 1..(n - 1), ~(i < k) PROVE p[i] = q[i + 1]
    <3>1. i - (k - 1) \in 1..(n - k) /\ k + (i - (k - 1)) = i + 1 /\ ~(i <= k - 1)
      BY <2>2, <1>1
    <3>2. p[i] = b[i - (k - 1)]
      BY <3>1, <1>4
    <3>3. b[i - (k - 1)] = q[k + (i - (k - 1))]
      BY <3>1, <1>3
    <3>. QED BY <3>1, <3>2, <3>3
  <2>. QED BY <2>1, <2>2
<1>. DEFINE old(i) == IF i < k THEN i ELSE i + 1
<1>7. \A i \in 1..(n - 1) : old(i) \in 1..n /\ old(i) # k /\ p[i] = q[old(i)]
  BY <1>1, <1>6
<1>8. Once(p)
  <2>1. ASSUME NEW i \in 1..(n - 1), NEW j \in 1..(n - 1), p[i] = p[j] PROVE i = j
    <3>1. old(i) = old(j)
      BY <2>1, <1>1, <1>7 DEF Once
    <3>. QED BY <3>1, <1>1
  <2>. QED BY <2>1, <1>5 DEF Once
<1>9. ASSUME NEW x PROVE In(p, x) <=> x # q[k] /\ In(q, x)
  <2>1. ASSUME NEW i \in DOMAIN p, p[i] = x PROVE x # q[k] /\ In(q, x)
    BY <1>1, <1>5, <1>7, <2>1 DEF In, Once
  <2>2. ASSUME NEW i \in DOMAIN q, q[i] = x, x # q[k] PROVE In(p, x)
    <3>1. CASE i < k
      BY <3>1, <2>2, <1>1, <1>5, <1>6 DEF In
    <3>2. CASE i > k
      <4>1. i - 1 \in 1..(n - 1) /\ p[i - 1] = x
        BY <3>2, <2>2, <1>1, <1>6
      <4>. QED BY <4>1, <1>5 DEF In
    <3>. QED BY <3>1, <3>2, <2>2, <1>1
  <2>. QED BY <2>1, <2>2 DEF In
<1>. QED BY <1>4, <1>8, <1>9 DEF p, a, b, RemoveAt

-----------------------------------------------------------------------------
(* The inductive invariant: where requests can be at each stage of main.   *)

\* Nobody has been accepted before the listener is there, and nobody is left on the way
\* when Shutdown returns in time; only a pool that main closes afterwards is closed.
Stages ==
    /\ main = "starting" => InFlight = {}
    /\ main \in {"closing", "exited"} /\ ~timedOut => InFlight = {}
    /\ closed => main \in {"closing", "exited"}

\* Who waits for a connection or has one has a turn left to take.
TurnsRemain == \A r \in Requests : at[r] \in {"waiting", "holding"} => left[r] > 0

IInv == TypeOK /\ Stages /\ TurnsRemain /\ QueueIsTheWaiters /\ DroppedOnlyAfterTimeout

\* The queue and the places, as the lemmas speak of them.
LEMMA QueueInWords ==
  QueueIsTheWaiters <=>
    (main # "exited" => /\ \A r \in Requests : at[r] = "waiting" <=> In(queue, r)
                        /\ Once(queue))
BY DEF QueueIsTheWaiters, In, Once

LEMMA InitInv == Init => IInv
<1>. SUFFICES ASSUME Init PROVE IInv
  OBVIOUS
<1>1. TypeOK
  BY LifecycleAssumption, EmptySeq DEF Init, TypeOK
<1>2. Stages
  BY DEF Init, Stages, InFlight
<1>3. QueueIsTheWaiters
  BY DEF Init, QueueIsTheWaiters
<1>4. DroppedOnlyAfterTimeout /\ TurnsRemain
  BY DEF Init, DroppedOnlyAfterTimeout, TurnsRemain
<1>. QED BY <1>1, <1>2, <1>3, <1>4 DEF IInv

\* The steps of main move no request, but for the exit.
LEMMA MainKeeps ==
  ASSUME IInv, Start \/ StartFails \/ Signal \/ Main
  PROVE  IInv'
<1>. USE DEF IInv
<1>1. CASE Start \/ StartFails \/ Signal \/ Drained \/ ShutdownTimesOut \/ ClosePool
  <2>1. /\ UNCHANGED <<queue, at, left>>
        /\ main # "exited" /\ (timedOut => timedOut')
    BY <1>1 DEF Start, StartFails, Signal, Drained, ShutdownTimesOut, ClosePool
  <2>2. TypeOK'
    BY <1>1 DEF TypeOK, Start, StartFails, Signal, Drained, ShutdownTimesOut, ClosePool
  <2>3. Stages'
    BY <1>1 DEF Stages, InFlight, TypeOK, Start, StartFails, Signal, Drained, ShutdownTimesOut, ClosePool
  <2>4. QueueIsTheWaiters' /\ DroppedOnlyAfterTimeout' /\ TurnsRemain'
    BY <2>1 DEF QueueIsTheWaiters, DroppedOnlyAfterTimeout, TurnsRemain
  <2>. QED BY <2>2, <2>3, <2>4
<1>2. CASE Exit
  <2>1. TypeOK' /\ \A r \in Requests : at'[r] = IF r \in InFlight THEN "cut" ELSE at[r]
    BY <1>2 DEF Exit, TypeOK
  <2>2. InFlight' = {}
    BY <2>1 DEF InFlight
  <2>3. Stages' /\ QueueIsTheWaiters'
    BY <1>2, <2>2 DEF Exit, Stages, QueueIsTheWaiters
  <2>4. DroppedOnlyAfterTimeout' /\ TurnsRemain'
    BY <1>2, <2>1 DEF Exit, Stages, DroppedOnlyAfterTimeout, TurnsRemain
  <2>. QED BY <2>1, <2>3, <2>4
<1>. QED BY <1>1, <1>2 DEF Main

\* A goroutine gets in line.
LEMMA AcquireKeeps ==
  ASSUME IInv, NEW r \in Requests, Acquire(r)
  PROVE  IInv'
<1>. USE DEF IInv
<1>1. queue \in Seq(Requests) /\ Once(queue) /\ ~In(queue, r) /\ main # "exited"
  BY QueueInWords DEF Acquire, Alive, TypeOK
<1>2. /\ Append(queue, r) \in Seq(Requests) /\ Once(Append(queue, r))
      /\ \A x : In(Append(queue, r), x) <=> x = r \/ In(queue, x)
  BY <1>1, Joins
<1>3. TypeOK' /\ \A q \in Requests : at'[q] = IF q = r THEN "waiting" ELSE at[q]
  BY <1>2 DEF Acquire, Move, TypeOK
<1>4. QueueIsTheWaiters'
  <2>1. Once(queue)' /\ \A q \in Requests : In(queue, q)' <=> q = r \/ In(queue, q)
    BY <1>2 DEF Acquire, Once, In
  <2>. QED BY <1>1, <1>3, <2>1, QueueInWords DEF Acquire, QueueIsTheWaiters, Once, In
<1>5. InFlight' = InFlight
  BY <1>3 DEF Acquire, InFlight
<1>6. Stages' /\ DroppedOnlyAfterTimeout' /\ TurnsRemain'
  BY <1>3, <1>5 DEF Acquire, Stages, DroppedOnlyAfterTimeout, TurnsRemain
<1>. QED BY <1>3, <1>4, <1>6

\* The first in line gets a connection, or learns that the pool is closed.
LEMMA GrantKeeps ==
  ASSUME IInv, NEW r \in Requests, Grant(r)
  PROVE  IInv'
<1>. USE DEF IInv
<1>1. queue \in Seq(Requests) /\ queue # <<>> /\ Once(queue) /\ r = Head(queue)
  BY QueueInWords DEF Grant, Alive, TypeOK
<1>2. /\ Tail(queue) \in Seq(Requests) /\ Once(Tail(queue)) /\ In(queue, r)
      /\ \A x : In(Tail(queue), x) <=> x # r /\ In(queue, x)
  BY <1>1, HeadLeaves
<1>3. at[r] = "waiting" /\ main # "exited"
  BY <1>2, QueueInWords DEF Grant, Alive
<1>4. TypeOK' /\ \A q \in Requests :
        at'[q] = IF q = r THEN IF closed THEN "refused" ELSE "holding" ELSE at[q]
  BY <1>2 DEF Grant, Move, TypeOK
<1>5. QueueIsTheWaiters'
  <2>1. Once(queue)' /\ \A q \in Requests : In(queue, q)' <=> q # r /\ In(queue, q)
    BY <1>2 DEF Grant, Once, In
  <2>. QED BY <1>3, <1>4, <2>1, QueueInWords DEF Grant, QueueIsTheWaiters, Once, In
<1>6. r \in InFlight /\ InFlight' \subseteq InFlight
  BY <1>3, <1>4 DEF InFlight
<1>7. Stages' /\ DroppedOnlyAfterTimeout' /\ TurnsRemain'
  BY <1>3, <1>4, <1>6 DEF Grant, Stages, DroppedOnlyAfterTimeout, TurnsRemain
<1>. QED BY <1>4, <1>5, <1>7

\* The client has gone.
LEMMA CancelKeeps ==
  ASSUME IInv, NEW r \in Requests, Cancel(r)
  PROVE  IInv'
<1>. USE DEF IInv
<1>1. queue \in Seq(Requests) /\ Once(queue) /\ main # "exited"
  BY QueueInWords DEF Cancel, Alive, TypeOK
<1>2. /\ queue' \in Seq(Requests) /\ Once(queue')
      /\ \A q \in Requests : In(queue', q) <=> q # r /\ In(queue, q)
  <2>1. CASE at[r] = "holding" /\ UNCHANGED queue
    <3>1. ~In(queue, r)
      BY <2>1, <1>1, QueueInWords
    <3>. QED BY <2>1, <3>1, <1>1
  <2>2. ASSUME NEW i \in DOMAIN queue, queue[i] = r, queue' = RemoveAt(queue, i)
        PROVE  /\ queue' \in Seq(Requests) /\ Once(queue')
               /\ \A q \in Requests : In(queue', q) <=> q # r /\ In(queue, q)
    BY <2>2, <1>1, Leaves
  <2>. QED BY <2>1, <2>2 DEF Cancel
<1>3. TypeOK' /\ \A q \in Requests : at'[q] = IF q = r THEN "cancelled" ELSE at[q]
  BY <1>2 DEF Cancel, Move, TypeOK
<1>4. QueueIsTheWaiters'
  BY <1>1, <1>2, <1>3, QueueInWords DEF Cancel, QueueIsTheWaiters, Once, In
<1>5. InFlight' \subseteq InFlight
  BY <1>3 DEF InFlight
<1>6. Stages' /\ DroppedOnlyAfterTimeout' /\ TurnsRemain'
  BY <1>3, <1>5 DEF Cancel, Stages, DroppedOnlyAfterTimeout, TurnsRemain
<1>. QED BY <1>3, <1>4, <1>6

\* The other steps of a request leave the queue alone: none begins or ends a wait.
LEMMA RunningKeeps ==
  ASSUME IInv, NEW r \in Requests,
         \/ Accept(r) \/ Answer(r) \/ CallUpstream(r) \/ UpstreamAnswers(r) \/ Statement(r)
  PROVE  IInv'
<1>. USE DEF IInv
<1>1. PICK place \in {"running", "upstream", "answered", "failed"} :
        /\ at' = [at EXCEPT ![r] = place] /\ at[r] # "waiting"
        /\ r \in InFlight \/ main = "serving"
        /\ UNCHANGED <<main, timedOut, closed, queue>>
  BY DEF Accept, Answer, CallUpstream, UpstreamAnswers, Statement, Release, StatementFails, Move, InFlight
<1>2. TypeOK'
  <2>1. left' = left \/ (at[r] = "holding" /\ left' = [left EXCEPT ![r] = @ - 1])
    BY DEF Accept, Answer, CallUpstream, UpstreamAnswers, Statement, Release, StatementFails
  <2>2. left' \in [Requests -> Nat]
    BY <2>1 DEF TypeOK, TurnsRemain
  <2>. QED BY <1>1, <2>1, <2>2 DEF TypeOK
<1>3. \A q \in Requests : at'[q] = IF q = r THEN place ELSE at[q]
  BY <1>1 DEF TypeOK
<1>4. QueueIsTheWaiters'
  BY <1>1, <1>3 DEF QueueIsTheWaiters
<1>5. InFlight' \subseteq InFlight \cup {r}
  BY <1>3 DEF InFlight
<1>6. Stages' /\ DroppedOnlyAfterTimeout'
  BY <1>1, <1>3, <1>5 DEF Stages, DroppedOnlyAfterTimeout
<1>7. TurnsRemain'
  <2>1. \A q \in Requests : q # r => left'[q] = left[q]
    BY DEF TypeOK, Accept, Answer, CallUpstream, UpstreamAnswers, Statement, Release, StatementFails
  <2>. QED BY <1>3, <2>1 DEF TurnsRemain
<1>. QED BY <1>2, <1>4, <1>6, <1>7

LEMMA NextInv == IInv /\ [Next]_vars => IInv'
<1>. SUFFICES ASSUME IInv, [Next]_vars PROVE IInv'
  OBVIOUS
<1>1. CASE UNCHANGED vars
  BY <1>1 DEF vars, IInv, TypeOK, Stages, InFlight, TurnsRemain, QueueIsTheWaiters,
             DroppedOnlyAfterTimeout
<1>2. CASE Start \/ StartFails \/ Signal \/ Main
  BY <1>2, MainKeeps
<1>3. ASSUME NEW r \in Requests,
             Accept(r) \/ Serve(r) \/ Statement(r) \/ Cancel(r) \/ UpstreamAnswers(r)
      PROVE  IInv'
  BY <1>3, AcquireKeeps, GrantKeeps, CancelKeeps, RunningKeeps DEF Serve
<1>. QED BY <1>1, <1>2, <1>3 DEF Next, Exited

\* The invariant holds in every reachable state.
THEOREM Invariance == Spec => []IInv
BY InitInv, NextInv, PTL DEF Spec

\* The variables keep their types: a turn too many would make its count negative.
THEOREM TypeCorrect == Spec => []TypeOK
<1>1. IInv => TypeOK
  BY DEF IInv
<1>. QED BY <1>1, Invariance, PTL

\* For any number of requests, turns and connections, whoever waits for a connection
\* stands in the pool's queue exactly once, through releases, cancelled contexts and the
\* closing of the pool (main.go:115).
THEOREM NobodyIsForgotten == Spec => []QueueIsTheWaiters
<1>1. IInv => QueueIsTheWaiters
  BY DEF IInv
<1>. QED BY <1>1, Invariance, PTL

\* A request that was accepted is dropped only after Shutdown has waited its 30 seconds
\* (main.go:76 to 79 and the deferred Close of line 41).
THEOREM ShutdownIsGraceful == Spec => []DroppedOnlyAfterTimeout
<1>1. IInv => DroppedOnlyAfterTimeout
  BY DEF IInv
<1>. QED BY <1>1, Invariance, PTL

\* No step of the process cuts a statement that is being executed.
LEMMA NextSpares ==
  IInv /\ [Next]_vars => \A r \in Requests : at[r] = "holding" => at'[r] # "cut"
<1>. SUFFICES ASSUME IInv, [Next]_vars, NEW r \in Requests, at[r] = "holding" PROVE at'[r] # "cut"
  OBVIOUS
<1>1. \A q \in Requests : \A p : at' = [at EXCEPT ![q] = p] => at'[r] \in {at[r], p}
  BY DEF IInv, TypeOK
<1>2. CASE Exit
  BY <1>2 DEF Exit, Holders
<1>3. CASE UNCHANGED at
  BY <1>3
<1>4. ASSUME NEW q \in Requests,
             Accept(q) \/ Serve(q) \/ Statement(q) \/ Cancel(q) \/ UpstreamAnswers(q)
      PROVE  at'[r] # "cut"
  <2>1. PICK place \in {"running", "waiting", "holding", "refused", "upstream", "answered",
                        "failed", "cancelled"} : at' = [at EXCEPT ![q] = place]
    BY <1>4 DEF Accept, Serve, Acquire, Grant, Answer, CallUpstream, UpstreamAnswers, Statement,
                Release, StatementFails, Cancel, Move
  <2>. QED BY <2>1, <1>1
<1>. QED BY <1>2, <1>3, <1>4 DEF Next, Main, vars, Exited, Start, StartFails, Signal, Drained,
                               ShutdownTimesOut, ClosePool

\* The process never exits in the middle of a statement: the deferred Close waits for the
\* connections that are in use, also for those of requests that Shutdown gave up on.
THEOREM NoStatementIsCut == Spec => ExitWaitsForStatements
<1>1. IInv /\ [Next]_vars => [\A r \in Requests : at[r] = "holding" => at'[r] # "cut"]_vars
  BY NextSpares
<1>. QED BY <1>1, Invariance, PTL DEF Spec, ExitWaitsForStatements
=============================================================================
