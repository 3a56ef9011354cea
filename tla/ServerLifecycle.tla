-------------------------- MODULE ServerLifecycle --------------------------
(***************************************************************************)
(* The process of cmd/api/main.go: start, serving, shutdown on a signal,   *)
(* with the request goroutines of net/http and the connection pool they    *)
(* share.  A handler uses the database in a few separate turns (Update has *)
(* three: the fields, the tag replacement, the read) and holds a           *)
(* connection only during a turn; the AI handlers use none and wait for    *)
(* the Anthropic API without a deadline (handler/ai.go:205).               *)
(***************************************************************************)
EXTENDS Integers, FiniteSets, SequencesExt

CONSTANTS Requests,
          AIRequests,   \* those served by AISuggestTasks and AISummariseDay
          Turns,        \* how many times each request takes a connection
          MaxConns      \* cfg.MaxConns, 20 in main.go:115

ASSUME LifecycleAssumption ==
    /\ AIRequests \subseteq Requests
    /\ Turns \in [Requests -> Nat] /\ \A r \in AIRequests : Turns[r] = 0
    /\ MaxConns \in Nat \ {0}

VARIABLES
    main,      \* where the main goroutine is
    timedOut,  \* srv.Shutdown gave up waiting
    closed,    \* the pool is closed
    queue,     \* goroutines waiting for a connection, in order
    at,        \* where each request is
    left       \* turns it still has to take

vars == <<main, timedOut, closed, queue, at, left>>

Init ==
    /\ main = "starting" /\ timedOut = FALSE /\ closed = FALSE /\ queue = <<>>
    /\ at = [r \in Requests |-> "client"]
    /\ left = Turns

Holders  == {r \in Requests : at[r] = "holding"}
InFlight == {r \in Requests : at[r] \in {"running", "waiting", "holding", "upstream"}}
Move(r, place) == at' = [at EXCEPT ![r] = place]

-----------------------------------------------------------------------------
(* The main goroutine.                                                     *)

\* Configuration, pool and ping (lines 22-42), then the listener.
Start ==
    /\ main = "starting" /\ main' = "serving"
    /\ UNCHANGED <<timedOut, closed, queue, at, left>>

\* No configuration, no database, no port: os.Exit(1) before any request.
StartFails ==
    /\ main = "starting" /\ main' = "exited"
    /\ UNCHANGED <<timedOut, closed, queue, at, left>>

\* SIGINT or SIGTERM, perhaps before the listener is there: Shutdown closes the listener;
\* a second signal is not read.
Signal ==
    /\ main \in {"starting", "serving"} /\ main' = "draining"
    /\ UNCHANGED <<timedOut, closed, queue, at, left>>

\* Mutant: Close on the listener instead of Shutdown.
DrainedAtOnce ==
    /\ main = "draining"
    /\ main' = "closing"
    /\ UNCHANGED <<timedOut, closed, queue, at, left>>

Drained ==
    /\ main = "draining" /\ InFlight = {}
    /\ main' = "closing"
    /\ UNCHANGED <<timedOut, closed, queue, at, left>>

\* Mutant: Shutdown with a context that never expires.
ShutdownNeverTimesOut ==
    /\ main = "draining" /\ InFlight = {}
    /\ main' = "closing"
    /\ UNCHANGED <<timedOut, closed, queue, at, left>>

\* 30 seconds have passed (line 76).
ShutdownTimesOut ==
    /\ main = "draining" /\ InFlight # {}
    /\ main' = "closing" /\ timedOut' = TRUE
    /\ UNCHANGED <<closed, queue, at, left>>

\* The deferred db.Close: no connection is given out any more ...
ClosePool ==
    /\ main = "closing" /\ ~closed /\ closed' = TRUE
    /\ UNCHANGED <<main, timedOut, queue, at, left>>

\* Mutant: the pool's Close does not wait.
ExitAtOnce ==
    /\ main = "closing" /\ closed
    /\ main' = "exited"
    /\ at' = [r \in Requests |-> IF r \in InFlight THEN "cut" ELSE at[r]]
    /\ UNCHANGED <<timedOut, closed, queue, left>>

\* ... and the process ends once all have been given back.
Exit ==
    /\ main = "closing" /\ closed /\ Holders = {}
    /\ main' = "exited"
    /\ at' = [r \in Requests |-> IF r \in InFlight THEN "cut" ELSE at[r]]
    /\ UNCHANGED <<timedOut, closed, queue, left>>

-----------------------------------------------------------------------------
(* The goroutine of a request; it runs until the process exits.            *)
Alive == main # "exited"

Accept(r) ==
    /\ main = "serving" /\ at[r] = "client"
    /\ Move(r, "running")
    /\ UNCHANGED <<main, timedOut, closed, queue, left>>

\* Mutant: one turn too many.
AcquireOnceMore(r) ==
    /\ Alive /\ at[r] = "running" /\ left[r] >= 0
    /\ Move(r, "waiting") /\ queue' = Append(queue, r)
    /\ UNCHANGED <<main, timedOut, closed, left>>

\* Mutant: a statement that waits too long is started again beside the first.
AcquireRetried(r) ==
    /\ Alive /\ at[r] \in {"running", "waiting"} /\ left[r] > 0
    /\ Move(r, "waiting") /\ queue' = Append(queue, r)
    /\ UNCHANGED <<main, timedOut, closed, left>>

\* Query, QueryRow, Exec and Begin take a connection: a fair semaphore of MaxConns.
Acquire(r) ==
    /\ Alive /\ at[r] = "running" /\ left[r] > 0
    /\ Move(r, "waiting") /\ queue' = Append(queue, r)
    /\ UNCHANGED <<main, timedOut, closed, left>>

Grant(r) ==
    /\ Alive /\ queue # <<>> /\ r = Head(queue) /\ Cardinality(Holders) < MaxConns
    /\ Move(r, IF closed THEN "refused" ELSE "holding")   \* ErrClosedPool
    /\ queue' = Tail(queue)
    /\ UNCHANGED <<main, timedOut, closed, left>>

\* The statement's rows are read, or the transaction is over: the connection goes back.
Release(r) ==
    /\ Alive /\ at[r] = "holding"
    /\ Move(r, "running") /\ left' = [left EXCEPT ![r] = @ - 1]
    /\ UNCHANGED <<main, timedOut, closed, queue>>

\* Mutant: a failed statement is tried again for ever.
StatementTriedAgain(r) ==
    /\ Alive /\ at[r] = "holding"
    /\ Move(r, "running")
    /\ UNCHANGED <<main, timedOut, closed, queue, left>>

\* The statement fails and the handler answers 500, which takes no connection.
StatementFails(r) ==
    /\ Alive /\ at[r] = "holding"
    /\ Move(r, "failed")
    /\ UNCHANGED <<main, timedOut, closed, queue, left>>

\* The client has gone: r.Context() is cancelled, and with it a wait or a statement.
Cancel(r) ==
    /\ Alive /\ at[r] \in {"waiting", "holding"}
    /\ Move(r, "cancelled")
    /\ \/ at[r] = "holding" /\ UNCHANGED queue
       \/ \E i \in DOMAIN queue : queue[i] = r /\ queue' = RemoveAt(queue, i)
    /\ UNCHANGED <<main, timedOut, closed, left>>

\* callClaude neither takes the request's context nor sets a timeout.
CallUpstream(r) ==
    /\ Alive /\ r \in AIRequests /\ at[r] = "running"
    /\ Move(r, "upstream")
    /\ UNCHANGED <<main, timedOut, closed, queue, left>>

UpstreamAnswers(r) ==
    /\ Alive /\ at[r] = "upstream"
    /\ Move(r, "answered")
    /\ UNCHANGED <<main, timedOut, closed, queue, left>>

Answer(r) ==
    /\ Alive /\ r \notin AIRequests /\ at[r] = "running" /\ left[r] = 0
    /\ Move(r, "answered")
    /\ UNCHANGED <<main, timedOut, closed, queue, left>>

-----------------------------------------------------------------------------
Main == Drained \/ ShutdownTimesOut \/ ClosePool \/ Exit
Serve(r) == Acquire(r) \/ Grant(r) \/ Answer(r) \/ CallUpstream(r)
Statement(r) == Release(r) \/ StatementFails(r)

Exited == main = "exited" /\ UNCHANGED vars

Next ==
    \/ Start \/ StartFails \/ Signal \/ Main \/ Exited
    \/ \E r \in Requests : Accept(r) \/ Serve(r) \/ Statement(r) \/ Cancel(r) \/ UpstreamAnswers(r)

\* Goroutines run and PostgreSQL answers; clients, signals and the upstream
\* service are under no obligation.
Fairness ==
    /\ WF_vars(Main)
    /\ \A r \in Requests : WF_vars(Serve(r)) /\ WF_vars(Statement(r))

Spec == Init /\ [][Next]_vars /\ Fairness

-----------------------------------------------------------------------------
TypeOK ==
    /\ main \in {"starting", "serving", "draining", "closing", "exited"}
    /\ timedOut \in BOOLEAN /\ closed \in BOOLEAN
    /\ queue \in Seq(Requests)
    /\ at \in [Requests -> {"client", "running", "waiting", "holding", "upstream",
                            "answered", "failed", "refused", "cancelled", "cut"}]
    /\ left \in [Requests -> Nat]

\* A request already accepted when the signal comes is dropped, between its turns or
\* for want of a connection, only after Shutdown has waited its 30 seconds.
DroppedOnlyAfterTimeout ==
    \A r \in Requests : at[r] \in {"refused", "cut"} => timedOut

\* The exit of the process interrupts no statement: main's deferred Close waits for
\* the connections in use, those of timed out requests included.
ExitWaitsForStatements ==
    [][\A r \in Requests : at[r] = "holding" => at'[r] # "cut"]_vars

\* Nobody is forgotten in the pool's queue: whoever waits stands in it exactly once,
\* through releases, cancelled contexts and the closing of the pool.
QueueIsTheWaiters ==
    main # "exited" =>
      /\ \A r \in Requests : at[r] = "waiting" <=> \E i \in DOMAIN queue : queue[i] = r
      /\ \A i, j \in DOMAIN queue : queue[i] = queue[j] => i = j

\* More requests than connections, each needing several turns, do not block each
\* other: a request that uses the database ends, whatever the AI requests do.
EveryDatabaseRequestEnds ==
    \A r \in Requests \ AIRequests :
       at[r] = "running" ~> at[r] \in {"answered", "failed", "refused", "cancelled", "cut"}

\* A signal ends the process, even while the upstream service never answers.
SignalEndsTheProcess == main = "draining" ~> main = "exited"

=============================================================================
