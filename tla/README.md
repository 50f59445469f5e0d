# Verification of the solitaire matchmaking service

TLA+ models of the service's state machines, checked with TLC on small instances
and, where the result matters for every instance, proved with TLAPS. `PROJECT.json`
lists the components, runs, mutants, hazards and theorems, and maps every
definition to the lines of source it stands for.

## 1. The system

The service assigns players' tickets to rooms, collects the result of each room,
updates ratings, and tells the game backend what happened. All state is in
PostgreSQL. Any number of service processes run the HTTP API and five polling
workers. No process talks to another; they meet in the tables.

| Component | State it keeps | Operations |
| --- | --- | --- |
| Matching policy (`pkg/matchmaking`) | none | eligibility, skill window, room choice, retry boundary |
| Ticket lifecycle (`internal/postgres/tickets.go`, `matchmaking_queue.go`) | tickets, room memberships, rooms, ticket commands | accept, cancel, claim, load, assign, expire, retry |
| Matchmaking worker (`internal/worker/runner.go`, `processor.go`) | goroutines holding claims | claim a batch, evaluate, assign / expire / retry |
| Outbox delivery (`outbox_queue.go`, `worker/outbox.go`, `eventdelivery/http.go`, `cmd/outbox-redrive`) | outbox events, goroutines, requests on the wire | claim, publish, acknowledge, dead-letter, retry, re-drive |
| Room results (`results.go`, `httpapi/results.go`, `worker/result_deadlines.go`) | rooms, sessions, verified results | finalize, replay, expire |
| Rating queue (`rating_queue.go`, `worker/rating.go`) | queue columns of verified results, player ratings, rating history | claim the head, process, retry |
| Rating shadow (`rating_shadow_queue.go`, `worker/rating_shadow.go`) | shadow work, predictions, candidate states | claim the head, predict, update, retry |
| Model lifecycle (`pkg/rating/dataset.go`, `comparison.go`, `lifecycle.go`, `rating_shadow_report.go`) | the active version and its audit trail, reports in files | split and fit, compare, activate, roll back |
| Migration runner (`migrations.go`, `cmd/migrate`) | schema and its ledger | apply what is pending |
| Application lifecycle (`application/run.go`, `httpapi/server.go`, `pool.go`) | the process: pool, listener, workers, requests | start, serve, drain, stop |
| Rating models, read API, configuration, observability, simulator, example backend | see section 8 | |

How they interact: `AssignTicket` gives the last seat of a room away and so starts
result collection, `FinalizeResult` stores a result and so feeds the rating queue
and the shadow timeline, and every transition inserts its outbox event in the same
transaction. A filled room enters the shadow timeline too; the observations that
timeline leaves are the evidence of a comparison, and the comparison is what an
operator activates a model by.

What is hard about it:

* Claims are leases that the worker grants by its own clock and the database checks
  by its own. A worker may outlive its lease, and its late writes meet the next
  owner's.
* A decision is computed from two reads outside any transaction and committed
  later: rooms fill up in between.
* Clients, workers and the deadline runner race for the same row.
* A commit may succeed and its answer be lost; an HTTP request may be accepted after
  the sender gave up.
* Rows that do not exist yet cannot be locked.
* Everything must end or be delivered although workers crash.

What correctness means, by component: a ticket has one outcome, in time, announced
once; a room is fair by its own policy and fills once; the game backend first
accepts the events of an aggregate in order and, dead letters aside, gets them all;
a room ends once and every success told stays true; a result is rated once, in
order, and never lost; a candidate model is judged by results it could not know, once
each; a model becomes active only by evidence against the model it replaces; the
schema changes by whole releases; a process that is told to stop answers what it
accepted and exits.

## 2. Modules

| Module | What it is |
| --- | --- |
| `MatchingPolicy` | The pure policy: `Eligible`, `Selectable`, `NextRetryBoundary`, ... Ratings and times are integers; whether a complete set of members has an acceptable win-probability spread is the constant `BalancedRooms`. |
| `TicketAssignment` | Tickets, rooms, memberships, the outbox and the worker's goroutines. Extends `MatchingPolicy`. |
| `OrderedDelivery` | Abstract specification of what the outbox promises the game backend. |
| `OutboxDelivery` | The outbox; implements `OrderedDelivery`. |
| `RoomResults` | The end of a room. |
| `RatingQueue` | The rating of results. |
| `RatingShadow` | The timeline that evaluates candidate models. |
| `ModelPromotion` | Training, comparison, activation and rollback of models. |
| `Migrations` | Concurrent migration jobs. |
| `ServiceLifecycle` | One service process from start to exit. |
| `TicketAssignmentProofs`, `OutboxDeliveryProofs`, `RoomResultsProofs`, `RatingQueueProofs`, `RatingShadowProofs`, `ModelPromotionProofs` | The theorems of section 6 about the module of that name, which they extend. |
| `OperationsProofs` | The theorems about `Migrations` and `ServiceLifecycle`, side by side as in `MCOperations`. |
| `InductionLemmas` | Induction over numbers and finite sets, and sums, for the proofs that need them. |
| `MC*` | Values of the constants for TLC. |

Conventions shared by the modules:

* One action per SQL statement or transaction, named after the function of the
  source. A transaction is one step when a row lock taken first is held to the end,
  and several steps otherwise (`LoadRooms` and `WithMembers`; `LookUp` and
  `Finalize`; `Begin`, `Read` and `Commit`).
* `work[w]...` is the state of a goroutine: what it read and what it will do.
* The random token of a claim is the attempt number that the same `UPDATE` writes;
  both are new with every claim of a row. Zero stands for NULL.
* `clock` is the database's `clock_timestamp()`; process `w` sees
  `clock + Skew[w]`.
* `SKIP LOCKED` lets a statement miss any rows, so a claim takes any subset of the
  due rows.
* Operators commented "Mutant of X" are plausible bugs that the properties must
  catch; the specification does not use them.

### TicketAssignment

`Accept`, `Cancel` and `CancelAgain` are the client's commands, `OpenRoom` is the
game backend's insertion of a room. `Claim`, `LoadRooms`, `WithMembers`,
`Evaluate`, then `Assign`, `AssignStale`, `Expire`, `ScheduleRetry` or `ClaimLost`
are a goroutine of `Runner.RunOnce` and `MatchProcessor.Handle`. A failing
statement, a lost commit answer and a crash are `StatementFails`, the second half
of `AfterCommit` and `Crash`. A handler that returns an error, also because its own
retry could not be scheduled, is `failed`: the runner then schedules one, once. The size of a batch is not bounded by the semaphore,
which only adds interleavings.

### OutboxDelivery

`Insert`, `Redrive`, `Claim`, `Send`, `Acknowledge`, `DeadLetter`, `ScheduleRetry`,
`ClaimLost`. A request leaves the runner with `Send` and reaches the endpoint with
`Answer`, perhaps when the runner no longer waits. The timeouts of
`leaseBoundedTimeout` and of the HTTP client are not measured: `TransportFails` and
`StatementFails` may happen at any moment, which includes them. Versions of one
aggregate are inserted in order, since the producers lock the aggregate.

### RoomResults

A command is its digest. `Arrive` dates the request by the server's clock, `Invalid`
refuses one that is not available yet by that clock, `LookUp` is the unlocked lookup of
the event identity of a valid one, and `AnswerEnded`, `Refuse` and `Finalize` are what happens
once the room is locked. `Expire` is the deadline runner. `Fill` stands for the
assignment of the last seat (`TicketAssignment!Assign`); a room's version counts
from there. No code of the repository sets a session to `playing` or a room to
`cancelled`, so the model has neither. `Validate` comes before the lookup: a server whose
clock is behind `available_at` answers 400 even to a result that is stored
(`httpapi/results.go:33-36`). `StoredIsNeverRefused` says that nothing else refuses one.

### RatingQueue

An estimate is the set of results that went into it, which is all its correctness
needs. `Read` locks the row of a rating if there is one, `Commit` overwrites it.
`RefusedByTime` is the schema's check that a player's ratings do not go back in
time. `ReportDelay` says how late a result may be stored, and `late` remembers the
results that came when a later one, by `available_at` and then `event_id`, was claimed
or processed; two results of the same `available_at` are enough.

### RatingShadow

An item of the timeline is a filled room or a finalized result, at the time of the
event; `FillDelay` and `ResultDelay` say how much later it may be stored, and `late`
remembers the items that came after a later one had been claimed. `Begin` locks the
claimed item and finds its candidate or a reason to skip, `Read` locks the state of
one more player in any order (the code ranges over a Go map), `CommitRoom` stores the
pair of predictions, `CommitResult` overwrites the states and scores the pair.

Three errors come back with every attempt and make an item `Poisoned`. A deployment may
not be `sound`: the schema does not compare the definition with the other columns, and
`loadShadowDeployment` or `NewExtended` then refuses it in `Begin`. An item may not be
`fit` (`ModelRefuses`): the API accepts integers beyond 2^53 that `Observe` refuses, and
extreme weights make `Predict` of a room fail. And a state may be newer than an item that
was stored late. Setting `ended_at` to a time before the filling frees a room of an
unsound deployment; nothing in the code frees a result.

Since the order of locks is random, two transactions may wait for each other, which takes late work; PostgreSQL
ends one of them (`DeadlockVictim`). As in `RatingQueue`, states without a row cannot
be locked, and late work may then overwrite one; the properties about timely items
are what remains. The operator's `Deploy` and `EndDeployment` are guarded by the
schema alone, and `ended_at` may be set to a time that has passed. The token is the
least one nobody holds; `attempt_count` and `skip_reason` are only reported. The
baseline's own check of estimate times cannot fail, because a ticket's rating
precedes its snapshot, and that the filling of its room.

### ModelPromotion

`Train` splits what is stored at the cutoff, `StartShadow` and `EndShadow` are the
operator's deployment, `Score` is what `RatingShadow` leaves behind, at any later
time. A report keeps the sums over each segment: the means of the code are these sums
over the players, compared without division. The expected calibration error of a set
of rooms is no sum over rooms, so it is a constant of the set. `Editions` are the
files an operator may hand on: the report, one with its flags raised, or one that
also lacks a segment; other changes of the file are not modelled. `lifecycle.go` computes the next deployment and its transition; that
its caller stores both together is assumed (`Changes`), as its comment asks. `seen`
and `evidence` are history.

### Migrations and ServiceLifecycle

`MCOperations` runs both side by side; they share no state, since the service never
looks at the ledger. In `Migrations` a catalog is a sequence of files, each known by
its version and its checksum. Everything that ends a job early is `AbortMigrations`;
the half second of `lock_timeout`, which `postgres.Open` sets for migration jobs too,
is one of the reasons. In `ServiceLifecycle` a worker or a request holds at most one
connection, because no code asks the pool while it holds one. After a drain timeout,
or when the listener fails, requests may be lost, and `GracefulDrain` says that
shutdown loses none otherwise; the server's `WriteTimeout` and clients that disconnect
are left out. `docs/deployment.md:166` has the workers cancelled after the
drain; in the code the signal cancels them at once, since their context derives from
the one the signal cancels. Nothing checked here depends on the difference.

## 3. Runs

| Run | Question | Answer |
| --- | --- | --- |
| `contention` | Two workers with different clocks, three tickets (two of one player), two rooms of two seats: can the rooms become unfair, overfull, or fill out of time? | no |
| `faults` | Cancellations, expiring leases, failing statements, lost commit answers and crashes around two tickets: can a ticket have two outcomes, or a claim be broken? | no |
| `liveness` | Does every accepted ticket end although a worker crashes? | yes |
| `delivery_order` | Two workers, two events of one ticket, two faults, dead letters and re-drives: can an event overtake another, or a late answer change a row it does not own? | no |
| `delivery_liveness` | Three events of two aggregates: is everything delivered that no dead letter holds up? | yes |
| `delivery_contract` | Is every non-2xx answer retried, as `docs/api-contract.md` says? | no: see section 4 |
| `results` | Two servers and the deadline runner, five commands (a report, its rival, an altered one, one that reuses its identity, one for the wrong deck), two rooms: one ending, stable answers, in time, and always an end? | yes |
| `rating_order` | Three results, two of them tied and each reported at once or late, two workers, a fault: rated once, eventually, and in order up to the first late one? | yes |
| `rating_late` | Is the rating serial when a result is reported late? | no: see section 4 |
| `shadow` | Three rooms, two results, two workers, a fault, late items, a deployment that ends or has a wrong definition, a result the model refuses: can a prediction know too much, a pair be scored twice or by another candidate, or the timeline stop without a poisoned head? | no |
| `promotion` | Two candidates, four results in two segments, two operators with outdated reports or ones whose flags and segments were changed, four revisions: can a model become active without evidence, by evidence it was trained on, or out of turn? | no |
| `operations` | Migration jobs of four releases, one with an edited and one with a failing file, beside a service process with one connection for two workers and two requests: partial upgrades, lost requests, a shutdown that hangs? | no |

### Bounds

Two workers suffice for a takeover and for every race of two; skew 1 makes one of
them see a lease end before the database does. Two rooms of capacity two have a
first, a last and a contested seat. `MaxTime` lies beyond the deadlines, leases and
back-offs that start at the last fault, so that what waits for time gets it. The
number of faults (`MaxFaults`) and requests (`MaxRequests`) is the smallest for
which every fault action and, in `results`, a first report, its repetition and a
rival meet. Deadlock is not checked where the system may stop for good (all tickets
ended, the clock at its bound); `liveness` and `operations` check it.

`shadow` has one candidate: its deployment may end and leave rooms without one, which
is what a second candidate would show. One result may be more than the model takes
(`Extreme`). In its first two time units workers may be
arbitrarily slow, so that leases expire; later (`LastSlow`) they finish before time
passes, since no queue drains if every lease is always outlived. `promotion` ends with
its fourth revision, which stands for the largest `uint64`: activation, rollback,
activation, and one change too many. In `operations` one connection is the smallest
pool `Open` accepts and makes everybody wait for everybody.

### Fairness

Weak fairness of the workers' steps, of time and of the endpoint's positive answer.
The runners poll in an endless loop (`Run`), their goroutines run until their
context ends, and the answer's fairness is the premise of the property: an endpoint
that ends up answering 2xx. Clients, the game backend, the operator and faults owe
nothing. In `ServiceLifecycle` statements end by `statement_timeout`, goroutines are
scheduled, and `Shutdown` ends by its own timeout; that a request ever gets a
connection is not assumed. No strong fairness is used.

## 4. Findings

* **`delivery_contract`.** `docs/api-contract.md:105` promises that "Network errors
  and all non-2xx responses are retried with capped exponential delay; the attempt
  count is not capped", and ADR-007 agrees. The code dead-letters the event on every
  status other than 2xx, 408, 429 and 5xx, as `docs/observability.md` describes; the
  event and all later events of its aggregate then wait for an operator.
* **`rating_late`.** `rating_queue.go:19` says the queue serializes results. A result
  stored late with an earlier `available_at` becomes the head while the old head is
  claimed, so that two workers rate two results at once. For a player with no row in
  `player_ratings` there is nothing to lock: both start from the ticket's snapshot,
  and the second `INSERT ... ON CONFLICT DO UPDATE` overwrites the first. Both
  results are marked processed and one is missing from the rating. Two results with the
  same `available_at`, stored in the other order of their identities, suffice. Without
  such a result this cannot happen (`RatingsSerialUntilLate`).

## 5. Hazards

`PROJECT.json` lists each hazard at its line with the properties that guard it. Two
patterns recur. Fencing: a completion is conditional on the token and on the lease
by the database's clock; `ClaimsAreRespected` and `ClaimsAreFenced` say that nothing
else changes a claimed row. Stale reads: what was read before may be old and must
then be worthless; `ScoredMembersAreActual`, `StoredIsNeverRefused`,
`RatingsAreSerial`, `FollowsTimeline` and `ActivationIsEarned` say so for rooms,
results, ratings, candidate states and reports. One hazard has no property: a room
that is still forming at its fill deadline (section 8).

## 6. What is proved

Every safety property that a passing run checks is a theorem, for every number of
tickets, rooms, events, results, players, models and workers, every lease, delay and
clock skew, and without the bounds of the runs: `MaxTime`, `LastFault`, `MaxFaults` and
their like are arbitrary. `PROJECT.json` lists the theorems; each says which property it
states, and none has a hypothesis beyond the `ASSUME`s.

The assumptions are the `ASSUME`s of the modules, which TLC evaluates in every run: the
types of the constants and the ranges that `Policy.Validate`, the options' `Validate`,
the configuration and the schema enforce. Only the
shadow workers are assumed to be finitely many, because the model draws claim tokens
from a range that they must not exhaust; that members, connections in use and stored
results are finitely many is proved.

Every proof has the same shape. An invariant, checked by TLC first, strengthens the
properties until every step preserves it. Lemmas say what a step can do to one row, one
handler or one table (`StepEffects`, `StatusMoves`, `WorkerMoves`, ...), so that the
induction has one lemma per conjunct and not one case per action and conjunct.

### TicketAssignment

`RoomsAreFair` is not inductive: the step that could break it is `Assign`, which trusts
a score computed from members read long before. What makes it safe is the room's
version, which `AssignTicket` compares. `AssignmentInvariant` therefore adds
`VersionsBoundSeats` (every seat was given at a version the room has reached) and
`ReadsAreOld`: a handler's version was reached, and the members it scored include
everybody who joined at that version or earlier. It holds when the members are read,
since they are read after the version, and stays true because seats are only added, at
higher versions (`SeatsGrowStep`). If the versions agree at the commit, the scored
members are the members (`CurrentVersionScoredAll`), and `ChoicesAreFair`, the matcher's
verdict on the scored members, is a verdict on the room. `SeatedIffAssigned` keeps a
ticket from sitting down twice. This gives `ScoredMembersAlwaysActual` and
`RoomsAlwaysFair`.

`OutcomeInvariant` adds what the outcomes need: `RowsFollowStatus` (a ticket that ended
has no claim, a queued one its first version), `MembersAreCounted` (a room has finitely
many members, and none before it is opened), and `HandlersKnowTimes`: the attempt time a worker fixed at
its claim is on the side of the deadline its decision needs, whatever its clock showed.
It gives `RoomsAlwaysFillOnce`, `OneOutcomeAlways`, `OutboxAlwaysTells`,
`OutcomesAlwaysInTime`, and the action properties `OutcomesStayFinal` and
`ClaimsAlwaysRespected`.

### OutboxDelivery

`DeliveryAlwaysOrdered` is a refinement: every step of `OutboxDelivery` is a step of
`OrderedDelivery` or leaves its variables alone. The step to justify is `Answer`, in
which the endpoint accepts a request whose claim may be long gone. The invariant follows
the right to send from the claim to the wire: `HandlersAreEntitled` and
`RequestsAreEntitled` say that everything earlier in the aggregate was accepted when a
goroutine or a request exists for an event. A claim establishes it, because it skips an
event with an undelivered predecessor and `DeliveredWasAccepted`; it is never lost,
because what was accepted stays so and versions are inserted in order
(`StoredInOrder`). `SettledEventsAlwaysRest` and `ClaimsAlwaysFenced` are action
properties: the token in every `WHERE` clause keeps late answers from a row that has
been claimed again. `RetryDelayBounded` says that `retryDelay` stays between its base
and its maximum at every attempt. It is proved by induction over the attempts, after
`RetryDelayEquation` has shown that the recursive definition has a solution.

### RoomResults

`ResultsInvariant` adds `CallsAreReal` (a report that passed `Validate` was available
when it arrived), `ResultsHaveIdentity` and `CollectingIsOpen` (all sessions of a room that
collects are open, none older than the filling). `FinalizeResult` and
`ExpireResultRooms` leave `collecting` under the lock of the room, so only one of them
ends it: `OneEndingAlways`, `AnswersAlwaysAgree`, `EndsAlwaysInTime`. `StoredNeverRefused`
is about the unlocked lookup: a request that looked before another server stored the
same result finds it when it holds the lock. The only refusal left is that of a server
whose clock was behind `available_at`.

### RatingQueue

`QueueInvariant` (`WorkIsReal`, `ReadersHold`, `TokensAreReal`) gives
`AlwaysRatedOnce`: an open transaction holds the lock of a pending result whose token is
its own, so nobody else can mark it.

`OrderInvariant` says what the order of ratings is worth when results may be stored late
or tied: it is exact up to the first late one. A result that waits while a later one is
claimed or processed is late (`OvertakenAreLate`). Hence all that is claimed or
processed when a timely result waits comes before it (`TimelyWaits`), its transaction is
the only one (`TimelyIsAlone`), what it has read is still stored
(`TimelyReadsAreFresh`), and while everything processed was timely no rating has lost a
result (`TimelyRatingsAreSerial`). This gives `AlwaysInAvailabilityOrder` and
`RatingsSerialUntilLate`. The run `rating_late` shows how a late result breaks it.

### RatingShadow

`NothingLeaks` and `EvidenceAlwaysPaired` need no hypothesis about delays. A state is
not older than the results it counts (`StatesAreDated`), the refusal of newer states
passes that on to what a transaction has read (`ReadsAreDated`), and a room's own result
is processed after it (`RoomsFirst`), so no prediction knows it. `TransactionsHold` and
`CandidateIsChosen` make a commit score the prediction that exists, once.

`TimelineAlwaysFollowed` says what remains when items may be late: it is exact up to the
first late item. An item that waits while a later one is claimed or processed is late
(`OvertakenAreLate`). Hence a transaction on a timely item is the only one
(`TimelyIsAlone`), what it has read is still stored (`TimelyReadsAreFresh`), and while
everything processed was timely no state has lost a result (`TimelyStatesAreWhole`).
What is learned later does not precede a timely item that was processed
(`EarlierStays`), so what was written stays right.

### ModelPromotion

The audit trail is a chain because of the revision: `CommandsAreSound` says that a
command in an operator's hand was prepared at the revision it expects, after the
transitions that were stored then; if the revisions agree at the change, nothing came in
between, and `DeploymentFollows` ties the deployment to the last transition. This gives
`AuditAlwaysAChain` and `RollbacksAlwaysUndo`. `ActivationsAlwaysEarned` follows a report
from the comparison through the files an operator may hand on to the validation:
`ValidateForActivation` recomputes what it can, so an edition that passes says what the
comparison said, segment by segment and in its sums. `EvidenceAlwaysUnseen` comes from
`TrainedByCutoff` and the holdout check, which use one cutoff.

### Migrations and ServiceLifecycle

`UpgradesAlwaysWhole` rests on `OneLockHolder`, `JobsAreInOrder` (what a job has run is
an initial part of what it found pending) and `LedgerIsTrue`. `DrainAlwaysGraceful` rests
on `PoolFollowsRun` and `NothingInFlight`: the deferred calls of `Run` come in the order
in which the pool can be closed. `TypeCorrect` includes that the connections in use are
never more than the pool may open, which the proof counts.

### Induction

The induction theorems of the library take a predicate, which the provers cannot
instantiate. `InductionLemmas` states induction over sets instead: a set of numbers with
zero and successors is all of them, a nonempty set of numbers has a least element, a
nonempty set of finite sets a smallest. From these follow the facts on `RetryDelay` and
on sums over finite sets (`SumIsInteger` and the split of a sum) that the proofs use.

## 7. What is only model-checked

The liveness properties `EveryTicketEnds`, `DeliveredUnlessBuried`, `RoomsEnd`,
`EveryResultIsRated`, `TimelineDrains` and `ServiceStops`: they hold under fairness, and
liveness and `ENABLED` are out of the prover's reach. The two runs that expect a
violation are counterexamples.

## 8. What is not modelled

The arithmetic of the rating models and of the features and scores around them
(floating point), whether a model takes given values (a choice of the model here), HTTP decoding and authentication, read-only queries, configuration, metrics and logs, the simulator
and the example backend; the reasons are in `PROJECT.json`. Forming rooms whose fill
deadline has passed are left alone by all code of the repository; the model shows
that nobody joins them, and nothing more can be said.

## 9. Plan

Every safety property of the runs is proved. What is left:

* Lemmas about `MatchingPolicy` alone: `NextRetryBoundary` never passes the deadline and
  lies after the time of the attempt, the skill window never shrinks.
* A composition of tickets, results and outbox, in which an assigned ticket's session
  ends and the game backend hears a prefix of what happened.
