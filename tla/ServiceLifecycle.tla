--------------------------- MODULE ServiceLifecycle ---------------------------
(***************************************************************************)
(* One service process (internal/application/run.go, internal/httpapi/     *)
(* server.go, internal/postgres/pool.go): startup, the HTTP server and the *)
(* workers sharing the connection pool, and shutdown.                      *)
(*                                                                         *)
(* No operation of the code asks for a second connection while it holds    *)
(* one, so a worker or a request holds at most one.                        *)
(***************************************************************************)
EXTENDS Integers, FiniteSets

CONSTANTS
    Workers,        \* the workers Run starts
    Requests,       \* requests that clients may send
    MaxConns        \* cfg.DBMaxConns

ASSUME ServiceAssumption == MaxConns \in Nat \ {0}

VARIABLES
    phase,          \* where Run is
    signalled,      \* SIGTERM or SIGINT has cancelled ctx
    pool,           \* the connection pool
    worker,         \* worker[w]: its goroutine
    request,        \* request[q]: its handler
    failed          \* why Serve did not return nil: "accept", "drain" or "no"

serviceVars == <<phase, signalled, pool, worker, request, failed>>

-----------------------------------------------------------------------------
\* waiting: the handler asks for a connection; querying: it holds one; lost: it ended
\* without an answer, or with the error of a closed pool.
ServiceTypeOK ==
    /\ phase \in {"opening", "opened", "serving", "draining", "returned", "stopping",
                  "closing", "exited"}
    /\ signalled \in BOOLEAN
    /\ pool \in {"none", "open", "closing", "closed"}
    /\ worker \in [Workers -> {"none", "idle", "working", "stopped"}]
    /\ request \in [Requests -> {"none", "waiting", "querying", "answering", "answered",
                                 "refused", "lost"}]
    /\ failed \in {"no", "accept", "drain"}

ServiceInit ==
    /\ phase = "opening"
    /\ signalled = FALSE
    /\ pool = "none"
    /\ worker = [w \in Workers |-> "none"]
    /\ request = [q \in Requests |-> "none"]
    /\ failed = "no"

\* Connections in use.
Acquired ==
    {w \in Workers : worker[w] = "working"} \cup {q \in Requests : request[q] = "querying"}

\* Mutant of Free: the pool grows on demand.
FreeAlways == pool = "open"

\* Acquire finds a connection; it fails at once on a closed pool.
Free == pool = "open" /\ Cardinality(Acquired) < MaxConns

\* Mutant of Cancelled: only the signal stops the workers.
CancelledBySignal == signalled

\* workerCtx is cancelled by the signal, and by stopWorker once Serve has returned.
Cancelled == signalled \/ phase \in {"stopping", "closing", "exited"}

Live(q) == request[q] \in {"waiting", "querying", "answering"}

-----------------------------------------------------------------------------
(***************************************************************************)
(* Startup.                                                                *)
(***************************************************************************)
OpenPool ==
    /\ phase = "opening"
    /\ ~signalled
    /\ phase' = "opened"
    /\ pool' = "open"
    /\ UNCHANGED <<signalled, worker, request, failed>>

\* The database cannot be reached within StartupTimeout, or the signal came first.
OpenFails ==
    /\ phase = "opening"
    /\ phase' = "exited"
    /\ UNCHANGED <<signalled, pool, worker, request, failed>>

\* The listener is opened, the workers are started and Serve is called.
Listen ==
    /\ phase = "opened"
    /\ phase' = "serving"
    /\ worker' = [w \in Workers |-> "idle"]
    /\ UNCHANGED <<signalled, pool, request, failed>>

\* A constructor or Listen fails: the deferred pool.Close runs, with nothing started.
StartFails ==
    /\ phase = "opened"
    /\ phase' = "closing"
    /\ pool' = "closing"
    /\ UNCHANGED <<signalled, worker, request, failed>>

Signal ==
    /\ ~signalled
    /\ phase # "exited"
    /\ signalled' = TRUE
    /\ UNCHANGED <<phase, pool, worker, request, failed>>

-----------------------------------------------------------------------------
(***************************************************************************)
(* Workers and requests.                                                   *)
(***************************************************************************)

\* A cycle of a worker runs a query.
WorkerAcquires(w) ==
    /\ worker[w] = "idle"
    /\ ~Cancelled
    /\ Free
    /\ worker' = [worker EXCEPT ![w] = "working"]
    /\ UNCHANGED <<phase, signalled, pool, request, failed>>

\* It ends, by itself, by the statement timeout or because its context is cancelled.
WorkerReleases(w) ==
    /\ worker[w] = "working"
    /\ worker' = [worker EXCEPT ![w] = "idle"]
    /\ UNCHANGED <<phase, signalled, pool, request, failed>>

\* Run of the worker sees ctx.Done.
WorkerStops(w) ==
    /\ worker[w] = "idle"
    /\ Cancelled
    /\ worker' = [worker EXCEPT ![w] = "stopped"]
    /\ UNCHANGED <<phase, signalled, pool, request, failed>>

\* The listener accepts connections until Shutdown closes it; one accepted before may
\* still send its request while the server drains.
Accept(q) ==
    /\ request[q] = "none"
    /\ phase \in {"serving", "draining"}
    /\ request' = [request EXCEPT ![q] = "waiting"]
    /\ UNCHANGED <<phase, signalled, pool, worker, failed>>

\* /readyz while draining, on a connection that is already open: 503 without a query.
RefuseReadiness(q) ==
    /\ request[q] = "none"
    /\ phase = "draining"
    /\ request' = [request EXCEPT ![q] = "refused"]
    /\ UNCHANGED <<phase, signalled, pool, worker, failed>>

RequestAcquires(q) ==
    /\ request[q] = "waiting"
    /\ Free
    /\ request' = [request EXCEPT ![q] = "querying"]
    /\ UNCHANGED <<phase, signalled, pool, worker, failed>>

RequestReleases(q) ==
    /\ request[q] = "querying"
    /\ request' = [request EXCEPT ![q] = "answering"]
    /\ UNCHANGED <<phase, signalled, pool, worker, failed>>

\* After Close the connection is gone and the answer reaches nobody.
Answer(q) ==
    /\ request[q] = "answering"
    /\ phase # "exited"
    /\ request' = [request EXCEPT ![q] = IF failed = "drain" THEN "lost" ELSE "answered"]
    /\ UNCHANGED <<phase, signalled, pool, worker, failed>>

\* The pool is closed, or the request context is cancelled by Close.
RequestFails(q) ==
    /\ request[q] = "waiting"
    /\ pool \in {"closing", "closed"} \/ failed = "drain"
    /\ phase # "exited"
    /\ request' = [request EXCEPT ![q] = "lost"]
    /\ UNCHANGED <<phase, signalled, pool, worker, failed>>

-----------------------------------------------------------------------------
(***************************************************************************)
(* Shutdown.                                                               *)
(***************************************************************************)

\* http.Server.Serve ends by itself: Run returns without draining.
AcceptFails ==
    /\ phase = "serving"
    /\ phase' = "returned"
    /\ failed' = "accept"
    /\ UNCHANGED <<signalled, pool, worker, request>>

\* ctx.Done in Serve: draining is set and Shutdown closes the listener.
Drain ==
    /\ phase = "serving"
    /\ signalled
    /\ phase' = "draining"
    /\ UNCHANGED <<signalled, pool, worker, request, failed>>

\* Mutant of Drained: Shutdown does not wait for the handlers.
DrainedAtOnce ==
    /\ phase = "draining"
    /\ phase' = "returned"
    /\ UNCHANGED <<signalled, pool, worker, request, failed>>

\* Shutdown returns once no request is in flight.
Drained ==
    /\ phase = "draining"
    /\ \A q \in Requests : ~Live(q)
    /\ phase' = "returned"
    /\ UNCHANGED <<signalled, pool, worker, request, failed>>

\* ShutdownTimeout passes first: Close drops the connections, and Serve returns.
DrainTimesOut ==
    /\ phase = "draining"
    /\ \E q \in Requests : Live(q)
    /\ phase' = "returned"
    /\ failed' = "drain"
    /\ UNCHANGED <<signalled, pool, worker, request>>

\* The deferred functions of Run: stopWorker, then workers.Wait, then pool.Close,
\* which waits until every connection is back.
StopWorkers ==
    /\ phase = "returned"
    /\ phase' = "stopping"
    /\ UNCHANGED <<signalled, pool, worker, request, failed>>

ClosePool ==
    /\ phase = "stopping"
    /\ \A w \in Workers : worker[w] = "stopped"
    /\ phase' = "closing"
    /\ pool' = "closing"
    /\ UNCHANGED <<signalled, worker, request, failed>>

\* The process ends, and with it what is left of the handlers.
Exit ==
    /\ phase = "closing"
    /\ Acquired = {}
    /\ phase' = "exited"
    /\ pool' = "closed"
    /\ request' = [q \in Requests |-> IF Live(q) THEN "lost" ELSE request[q]]
    /\ UNCHANGED <<signalled, worker, failed>>

-----------------------------------------------------------------------------
ServiceNext ==
    \/ OpenPool \/ OpenFails \/ Listen \/ StartFails \/ Signal
    \/ \E w \in Workers : WorkerAcquires(w) \/ WorkerReleases(w) \/ WorkerStops(w)
    \/ \E q \in Requests :
         \/ Accept(q) \/ RefuseReadiness(q) \/ RequestAcquires(q) \/ RequestReleases(q)
         \/ Answer(q) \/ RequestFails(q)
    \/ AcceptFails \/ Drain \/ Drained \/ DrainTimesOut \/ StopWorkers \/ ClosePool \/ Exit

\* Goroutines are scheduled, statements end by their timeout, and Shutdown by its own.
ServiceFairness ==
    /\ WF_serviceVars(OpenPool \/ OpenFails)
    /\ WF_serviceVars(Listen \/ StartFails)
    /\ \A w \in Workers : WF_serviceVars(WorkerReleases(w)) /\ WF_serviceVars(WorkerStops(w))
    /\ \A q \in Requests : WF_serviceVars(RequestReleases(q))
    /\ WF_serviceVars(Drain)
    /\ WF_serviceVars(Drained \/ DrainTimesOut)
    /\ WF_serviceVars(StopWorkers)
    /\ WF_serviceVars(ClosePool)
    /\ WF_serviceVars(Exit)

-----------------------------------------------------------------------------
\* "Drains in-flight requests before the database pool is closed"
\* (internal/httpapi/server.go:187): the pool is closed only when every worker has
\* stopped and nobody holds a connection, and shutdown loses a request that was accepted
\* only if the drain timed out or the listener failed.
GracefulDrain ==
    /\ pool \in {"closing", "closed"} => \A w \in Workers : worker[w] \in {"none", "stopped"}
    /\ pool = "closed" => Acquired = {}
    /\ (\E q \in Requests : request[q] = "lost") => failed # "no"

\* However requests, workers and the signal interleave, with as few as one connection
\* for all of them, a process that is told to stop, or whose listener fails, exits.
ServiceStops == (signalled \/ failed = "accept") ~> phase = "exited"
=============================================================================
