--------------------------- MODULE OutboxDelivery ---------------------------
(***************************************************************************)
(* Delivery of outbox events to the game backend: the queue of             *)
(* internal/postgres/outbox_queue.go, the runner of                        *)
(* internal/worker/outbox.go, the HTTP publisher of                        *)
(* internal/eventdelivery/http.go and the operator's cmd/outbox-redrive.   *)
(*                                                                         *)
(* Each statement on outbox_events is one action.  Publishing is not       *)
(* atomic: a request travels, the endpoint may accept it long after the    *)
(* runner has given up, and an answer may never come back.                 *)
(***************************************************************************)
EXTENDS Integers, FiniteSets

CONSTANTS
    Events,          \* rows that may be inserted
    AggregateOf,     \* (aggregate_type, aggregate_id) of an event
    VersionOf,       \* its aggregate_version
    Workers,         \* outbox runner processes
    Skew,            \* each worker's clock minus the database clock
    OccurredOffsets, \* occurred_at minus the clock: clients state some of them
    BatchSize,       \* OutboxRunnerOptions.BatchSize
    LeaseDuration,   \* OutboxRunnerOptions.LeaseDuration
    RetryBaseDelay,  \* OutboxRunnerOptions.RetryBaseDelay
    RetryMaxDelay,   \* OutboxRunnerOptions.RetryMaxDelay
    MaxTime,         \* bound: the clock stops here
    LastInsert,      \* bound: no event is inserted after this time
    LastFault,       \* bound: no refusal or fault after this time
    MaxFaults        \* bound: number of refusals and faults in a behaviour

\* OutboxRunnerOptions.Validate; a version is used once per aggregate.
ASSUME OutboxAssumption ==
    /\ VersionOf \in [Events -> Nat \ {0}]
    /\ \A d, e \in Events :
         AggregateOf[d] = AggregateOf[e] /\ VersionOf[d] = VersionOf[e] => d = e
    /\ Skew \in [Workers -> Int]
    /\ OccurredOffsets \subseteq Int
    /\ BatchSize \in Nat \ {0}
    /\ LeaseDuration \in Nat \ {0}
    /\ RetryBaseDelay \in Nat \ {0}
    /\ RetryMaxDelay \in Nat
    /\ RetryBaseDelay <= RetryMaxDelay
    /\ MaxTime \in Nat
    /\ LastInsert \in Int
    /\ LastFault \in Int
    /\ MaxFaults \in Nat

VARIABLES
    clock,     \* clock_timestamp() of the database
    event,     \* outbox_events
    work,      \* work[w][e]: the goroutine of worker w that delivers event e
    requests,  \* requests the endpoint has not answered
    accepted,  \* events the endpoint has answered with 2xx
    faults     \* refusals and faults so far

vars == <<clock, event, work, requests, accepted, faults>>

-----------------------------------------------------------------------------
(***************************************************************************)
(* State.  The token of a claim is the attempt number the same UPDATE      *)
(* writes.  Zero stands for NULL in token and claimedUntil.  The status    *)
(* says which of delivered_at and dead_lettered_at is set.                 *)
(***************************************************************************)
EventRow ==
    [status : {"none", "pending", "delivered", "dead"}, occurredAt : Int,
     availableAt : Int, token : Nat, claimedUntil : Int, attempts : Nat,
     deliveredAt : Int]

\* A goroutine of RunOnce.
\*   claimed  it holds a claim
\*   waiting  its request is on the way
\*   ack      the endpoint answered 2xx: it will mark the event delivered
\*   dead     the endpoint refused for good: it will dead-letter the event
\*   retry    anything else went wrong: it will schedule a retry at retryAt
Handler ==
    [phase : {"idle", "claimed", "waiting", "ack", "dead", "retry"},
     token : Nat, retryAt : Int]

Request == [worker : Workers, event : Events, token : Nat]

NoEvent ==
    [status |-> "none", occurredAt |-> 0, availableAt |-> 0, token |-> 0,
     claimedUntil |-> 0, attempts |-> 0, deliveredAt |-> 0]

Idle == [phase |-> "idle", token |-> 0, retryAt |-> 0]

TypeOK ==
    /\ clock \in Nat
    /\ event \in [Events -> EventRow]
    /\ work \in [Workers -> [Events -> Handler]]
    /\ requests \subseteq Request
    /\ accepted \subseteq Events
    /\ faults \in Nat

Init ==
    /\ clock = 0
    /\ event = [e \in Events |-> NoEvent]
    /\ work = [w \in Workers |-> [e \in Events |-> Idle]]
    /\ requests = {}
    /\ accepted = {}
    /\ faults = 0

-----------------------------------------------------------------------------
(***************************************************************************)
(* Helpers.                                                                *)
(***************************************************************************)
Now(w) == clock + Skew[w]

CanFault == faults < MaxFaults /\ clock <= LastFault

Earlier(e) ==
    {d \in Events : AggregateOf[d] = AggregateOf[e] /\ VersionOf[d] < VersionOf[e]}

\* The delay before the attempt that follows this one: doubled each time, without
\* overflow, up to the maximum.
RetryDelay[attempt \in Nat] ==
    IF attempt <= 1
      THEN RetryBaseDelay
      ELSE LET delay == RetryDelay[attempt - 1]
           IN  IF delay > RetryMaxDelay \div 2 THEN RetryMaxDelay ELSE 2 * delay

\* Mutant of Blocked: a dead-lettered predecessor no longer blocks.
BlockedByPending(e) == \E d \in Earlier(e) : event[d].status = "pending"

\* An undelivered predecessor, dead-lettered or not, blocks the event.
Blocked(e) == \E d \in Earlier(e) : event[d].status \in {"pending", "dead"}

\* Mutant of Due: the dead-letter column is not looked at.
DueEvenDead(at) ==
    {e \in Events : /\ event[e].status \in {"pending", "dead"}
                    /\ event[e].availableAt <= at
                    /\ event[e].token = 0 \/ event[e].claimedUntil <= at
                    /\ ~Blocked(e)}

\* Mutant of Due: a claim is never taken over.
DueUnclaimed(at) ==
    {e \in Events : /\ event[e].status = "pending"
                    /\ event[e].availableAt <= at
                    /\ event[e].token = 0
                    /\ ~Blocked(e)}

\* The events ClaimOutboxEvents may take at this time.
Due(at) ==
    {e \in Events : /\ event[e].status = "pending"
                    /\ event[e].availableAt <= at
                    /\ event[e].token = 0 \/ event[e].claimedUntil <= at
                    /\ ~Blocked(e)}

\* Mutant of OwnsClaim: a lease is enough, whoever holds it.
SomebodyOwnsClaim(e, token) ==
    event[e].status = "pending" /\ event[e].claimedUntil > clock

\* The fence in the WHERE clause of every completion.
OwnsClaim(e, token) ==
    /\ event[e].status = "pending"
    /\ event[e].token = token
    /\ event[e].claimedUntil > clock

\* Mutant of Released: the released row keeps an ill-typed token.
ReleasedWithMinusOne(row) == [row EXCEPT !.token = -1, !.claimedUntil = 0]

\* claimed_by and claimed_until are set to NULL.
Released(row) == [row EXCEPT !.token = 0, !.claimedUntil = 0]

Goes(w, e, h) == work' = [work EXCEPT ![w][e] = h]

Stops(w, e) == Goes(w, e, Idle)

-----------------------------------------------------------------------------
(***************************************************************************)
(* Producers and the operator.                                             *)
(***************************************************************************)

\* insertOutbox, inside the transaction that locked the aggregate: the versions
\* of one aggregate become visible in order.
Insert(e) ==
    /\ clock <= LastInsert
    /\ event[e].status = "none"
    /\ \A d \in Earlier(e) : event[d].status # "none"
    /\ \E o \in OccurredOffsets :
         event' = [event EXCEPT ![e] =
                     [NoEvent EXCEPT !.status = "pending", !.occurredAt = clock + o,
                                     !.availableAt = clock + o]]
    /\ UNCHANGED <<clock, work, requests, accepted, faults>>

\* RedriveOutboxDeadLetter; the schema refuses an available_at before occurred_at.
Redrive(e) ==
    /\ event[e].status = "dead"
    /\ clock >= event[e].occurredAt
    /\ event' = [event EXCEPT ![e] =
                   Released([event[e] EXCEPT !.status = "pending", !.availableAt = clock])]
    /\ UNCHANGED <<clock, work, requests, accepted, faults>>

-----------------------------------------------------------------------------
(***************************************************************************)
(* The runner.                                                             *)
(***************************************************************************)

\* ClaimOutboxEvents, when the goroutines of the previous round are done.  SKIP
\* LOCKED leaves out any rows, so the batch is any set of due events.
Claim(w) ==
    /\ \A e \in Events : work[w][e].phase = "idle"
    /\ \E batch \in SUBSET Due(Now(w)) :
         /\ batch # {}
         /\ Cardinality(batch) <= BatchSize
         /\ event' = [e \in Events |->
              IF e \in batch
                THEN [event[e] EXCEPT !.token = event[e].attempts + 1,
                                      !.attempts = event[e].attempts + 1,
                                      !.claimedUntil = Now(w) + LeaseDuration]
                ELSE event[e]]
         /\ work' = [work EXCEPT ![w] = [e \in Events |->
              IF e \in batch
                THEN [Idle EXCEPT !.phase = "claimed", !.token = event[e].attempts + 1]
                ELSE Idle]]
    /\ UNCHANGED <<clock, requests, accepted, faults>>

\* HTTPPublisher.Publish sends the request.
Send(w, e) ==
    /\ work[w][e].phase = "claimed"
    /\ Goes(w, e, [work[w][e] EXCEPT !.phase = "waiting"])
    /\ requests' = requests \cup
         {[worker |-> w, event |-> e, token |-> work[w][e].token]}
    /\ UNCHANGED <<clock, event, accepted, faults>>

\* The handler after a failure that is not permanent: RunOnce computes the time of
\* the retry at once, and schedules it in a statement of its own.
WillRetry(w, h) ==
    [h EXCEPT !.phase = "retry", !.retryAt = Now(w) + RetryDelay[h.token]]

\* Mutant of Heard: any answer of the endpoint is an acknowledgement.
HeardAsAck(w, h, answer) == [h EXCEPT !.phase = "ack"]

\* What Publish makes of the answer and RunOnce of what Publish returns.
Heard(w, h, answer) ==
    CASE answer = "2xx"       -> [h EXCEPT !.phase = "ack"]
      [] answer = "permanent" -> [h EXCEPT !.phase = "dead"]
      [] answer = "retryable" -> WillRetry(w, h)

\* The endpoint answers a request, which the handler may no longer wait for.  A
\* refusal (408, 429 and 5xx are retryable, other statuses permanent) counts as a
\* fault.
Answer(q, answer) ==
    LET h == work[q.worker][q.event]
    IN  /\ q \in requests
        /\ requests' = requests \ {q}
        /\ IF answer = "2xx"
             THEN accepted' = accepted \cup {q.event} /\ UNCHANGED faults
             ELSE CanFault /\ faults' = faults + 1 /\ UNCHANGED accepted
        /\ IF h.phase = "waiting" /\ h.token = q.token
             THEN Goes(q.worker, q.event, Heard(q.worker, h, answer))
             ELSE UNCHANGED work
        /\ UNCHANGED <<clock, event>>

\* MarkOutboxDelivered.  (The schema requires delivered_at >= occurred_at.)
Acknowledge(w, e) ==
    /\ work[w][e].phase = "ack"
    /\ OwnsClaim(e, work[w][e].token)
    /\ event' = [event EXCEPT ![e] =
                   Released([event[e] EXCEPT !.status = "delivered", !.deliveredAt = Now(w)])]
    /\ Stops(w, e)
    /\ UNCHANGED <<clock, requests, accepted, faults>>

\* MarkOutboxDeadLettered.
DeadLetter(w, e) ==
    /\ work[w][e].phase = "dead"
    /\ OwnsClaim(e, work[w][e].token)
    /\ event' = [event EXCEPT ![e] =
                   Released([event[e] EXCEPT !.status = "dead"])]
    /\ Stops(w, e)
    /\ UNCHANGED <<clock, requests, accepted, faults>>

\* ScheduleOutboxRetry.
ScheduleRetry(w, e) ==
    /\ work[w][e].phase = "retry"
    /\ OwnsClaim(e, work[w][e].token)
    /\ event' = [event EXCEPT ![e] =
                   Released([event[e] EXCEPT !.availableAt = work[w][e].retryAt])]
    /\ Stops(w, e)
    /\ UNCHANGED <<clock, requests, accepted, faults>>

\* ErrOutboxClaimLost: the goroutine reports the error and ends.
ClaimLost(w, e) ==
    /\ work[w][e].phase \in {"ack", "dead", "retry"}
    /\ ~OwnsClaim(e, work[w][e].token)
    /\ Stops(w, e)
    /\ UNCHANGED <<clock, event, requests, accepted, faults>>

-----------------------------------------------------------------------------
(***************************************************************************)
(* Faults and time.                                                        *)
(***************************************************************************)

\* The transport reports an error; the request may have been lost or may still
\* reach the endpoint.
TransportFails(w, e) ==
    /\ CanFault
    /\ work[w][e].phase = "waiting"
    /\ Goes(w, e, WillRetry(w, work[w][e]))
    /\ \/ UNCHANGED requests
       \/ requests' = {q \in requests : q.worker # w \/ q.event # e}
    /\ faults' = faults + 1
    /\ UNCHANGED <<clock, event, accepted>>

\* A statement fails or the lease-bounded context ends: nothing is written, and
\* the claim is left to expire.  The request may still be on its way.
StatementFails(w, e) ==
    /\ CanFault
    /\ work[w][e].phase # "idle"
    /\ Stops(w, e)
    /\ faults' = faults + 1
    /\ UNCHANGED <<clock, event, requests, accepted>>

\* The process of worker w dies and starts again.
Crash(w) ==
    /\ CanFault
    /\ \E e \in Events : work[w][e].phase # "idle"
    /\ work' = [work EXCEPT ![w] = [e \in Events |-> Idle]]
    /\ faults' = faults + 1
    /\ UNCHANGED <<clock, event, requests, accepted>>

Tick ==
    /\ clock < MaxTime
    /\ clock' = clock + 1
    /\ UNCHANGED <<event, work, requests, accepted, faults>>

Answers == {"2xx", "retryable", "permanent"}

HandlerStep(w, e) ==
    \/ Send(w, e)
    \/ Acknowledge(w, e)
    \/ DeadLetter(w, e)
    \/ ScheduleRetry(w, e)
    \/ ClaimLost(w, e)

Next ==
    \/ \E e \in Events : Insert(e) \/ Redrive(e)
    \/ \E w \in Workers : Claim(w)
    \/ \E w \in Workers, e \in Events : HandlerStep(w, e)
    \/ \E q \in requests, answer \in Answers : Answer(q, answer)
    \/ \E w \in Workers, e \in Events : TransportFails(w, e) \/ StatementFails(w, e)
    \/ \E w \in Workers : Crash(w)
    \/ Tick

Spec == Init /\ [][Next]_vars

\* Runners poll forever, goroutines run until their context ends, time passes and
\* the endpoint answers what reaches it.  The operator owes nothing.
FairSpec ==
    /\ Spec
    /\ WF_vars(Tick)
    /\ WF_vars(\E q \in requests : Answer(q, "2xx"))
    /\ \A w \in Workers : WF_vars(Claim(w))
    /\ \A w \in Workers, e \in Events : WF_vars(HandlerStep(w, e))

-----------------------------------------------------------------------------
(***************************************************************************)
(* Properties.                                                             *)
(***************************************************************************)

Ordered == INSTANCE OrderedDelivery
             WITH stored <- {e \in Events : event[e].status # "none"}

\* Retries, lost answers, expired leases, crashes, dead letters and their re-drive
\* never let an event overtake an earlier event of its aggregate: the endpoint
\* first accepts the events of an aggregate in the order of their versions.
DeliveryIsOrdered == Ordered!OrderedSpec

\* An event is marked delivered only after the endpoint has accepted it, however
\* late the answer came, and at a time the schema accepts (delivered_at is not
\* before occurred_at, or the event could never be acknowledged).
DeliveredWasAccepted ==
    \A e \in Events : event[e].status = "delivered" =>
        e \in accepted /\ event[e].deliveredAt >= event[e].occurredAt

\* A delivered event is left alone, and a dead letter changes only when the
\* operator re-drives it, without a claim: no runner picks either up again.
SettledEventsRest ==
    [][\A e \in Events :
         /\ event[e].status = "delivered" => event'[e] = event[e]
         /\ event[e].status = "dead" /\ event'[e] # event[e] =>
              event'[e].status = "pending" /\ event'[e].token = 0]_vars

\* A claim leaves the row only by a step of the goroutine that holds it or because
\* a worker takes over a lease that has run out by its own clock: an answer that
\* comes after the takeover releases, reschedules or buries nothing.
ClaimsAreFenced ==
    [][\A e \in Events :
         event[e].token # 0 /\ event'[e].token # event[e].token =>
           \/ \E w \in Workers :
                /\ work[w][e].phase \in {"ack", "dead", "retry"}
                /\ work[w][e].token = event[e].token
                /\ work'[w][e] = Idle
           \/ \E w \in Workers :
                /\ work[w][e].phase = "idle"
                /\ work'[w][e].token = event'[e].token
                /\ event[e].claimedUntil <= Now(w)]_vars

\* Once refusals and faults stop, every event is delivered unless a dead letter of
\* its own aggregate stands before it: dead letters hold up no other aggregate.
DeliveredUnlessBuried ==
    \A e \in Events :
        (event[e].status = "pending") ~>
          \/ event[e].status = "delivered"
          \/ \E d \in Earlier(e) \cup {e} : event[d].status = "dead"

\* "Network errors and all non-2xx responses are retried with capped exponential
\* delay; the attempt count is not capped" (docs/api-contract.md:105): an endpoint
\* that ends up accepting everything gets every event.
EveryEventIsDelivered ==
    \A e \in Events :
        (event[e].status = "pending") ~> (event[e].status = "delivered")
=============================================================================
