----------------------------- MODULE RatingQueue -----------------------------
(***************************************************************************)
(* Rating of verified results: the queue of                                *)
(* internal/postgres/rating_queue.go and the runner of                     *)
(* internal/worker/rating.go.                                              *)
(*                                                                         *)
(* ProcessRatingResult is one transaction, and not one step: it locks the  *)
(* result, reads the ratings of the participants one after the other, and  *)
(* writes.  A rating that exists is locked when it is read; one that does  *)
(* not exist yet cannot be.  What an estimate is worth is abstracted to    *)
(* the set of results that went into it.                                   *)
(***************************************************************************)
EXTENDS Integers

CONSTANTS
    Results,         \* event_id of results
    Players,         \* their participants
    PlayersOf,       \* the participants of a result
    AvailableAt,     \* available_at of a result, as the game backend states it
    Position,        \* the order of event identities
    Rank,            \* the order of player identities
    ReportDelay,     \* how long after available_at a result may be stored
    Workers,         \* rating runner processes
    Skew,            \* each worker's clock minus the database clock
    NoResult,        \* an idle worker
    LeaseDuration,   \* RatingRunnerOptions.LeaseDuration
    FailureBackoff,  \* RatingRunnerOptions.FailureBackoff
    MaxTime,         \* bound: the clock stops here
    LastFault,       \* bound: no fault after this time
    MaxFaults        \* bound: number of faults in a behaviour

ASSUME RatingAssumption ==
    /\ PlayersOf \in [Results -> SUBSET Players]
    /\ AvailableAt \in [Results -> Nat]
    /\ Position \in [Results -> Nat]
    /\ \A d, e \in Results : Position[d] = Position[e] => d = e
    /\ Rank \in [Players -> Nat]
    /\ \A p, q \in Players : Rank[p] = Rank[q] => p = q
    /\ ReportDelay \in Nat
    /\ Skew \in [Workers -> Int]
    /\ NoResult \notin Results
    /\ LeaseDuration \in Nat \ {0}
    /\ FailureBackoff \in Nat \ {0}
    /\ MaxTime \in Nat
    /\ LastFault \in Int
    /\ MaxFaults \in Nat

VARIABLES
    clock,    \* clock_timestamp() of the database
    row,      \* verified_results: the columns of the rating queue
    rating,   \* player_ratings
    updates,  \* rating_updates
    rated,    \* results with a result.rated event
    late,     \* history: results stored when a later one was claimed or processed
    work,     \* work[w]: what worker w does
    faults    \* faults so far

vars == <<clock, row, rating, updates, rated, late, work, faults>>

-----------------------------------------------------------------------------
(***************************************************************************)
(* State.  The token of a claim is the attempt number the same UPDATE      *)
(* writes; zero stands for NULL.                                           *)
(***************************************************************************)
ResultRow ==
    [status : {"none", "pending", "processed"}, nextAttemptAt : Int, token : Nat,
     claimedUntil : Int, attempts : Nat, processedAt : Int]

\* counted is empty while the player has no row in player_ratings; the estimate is
\* then the snapshot of the ticket.
Estimate == [counted : SUBSET Results, updatedAt : Int]

Update == [player : Players, result : Results, before : SUBSET Results]

\* RunOnce of a worker.
\*   claimed  it holds a claim
\*   reading  its transaction holds the lock of the result and of the ratings in
\*            locked; before[p] is what it read for each p in read
\*   retry    processing failed: it will schedule a retry at retryAt
Handler ==
    [phase : {"idle", "claimed", "reading", "retry"}, result : Results \cup {NoResult},
     token : Nat, at : Int, read : SUBSET Players, locked : SUBSET Players,
     before : [Players -> Estimate], retryAt : Int]

NoRow ==
    [status |-> "none", nextAttemptAt |-> 0, token |-> 0, claimedUntil |-> 0,
     attempts |-> 0, processedAt |-> 0]

NoEstimate == [counted |-> {}, updatedAt |-> 0]

Idle ==
    [phase |-> "idle", result |-> NoResult, token |-> 0, at |-> 0, read |-> {},
     locked |-> {}, before |-> [p \in Players |-> NoEstimate], retryAt |-> 0]

TypeOK ==
    /\ clock \in Nat
    /\ row \in [Results -> ResultRow]
    /\ rating \in [Players -> Estimate]
    /\ updates \subseteq Update
    /\ rated \subseteq Results
    /\ late \subseteq Results
    /\ work \in [Workers -> Handler]
    /\ faults \in Nat

Init ==
    /\ clock = 0
    /\ row = [e \in Results |-> NoRow]
    /\ rating = [p \in Players |-> NoEstimate]
    /\ updates = {}
    /\ rated = {}
    /\ late = {}
    /\ work = [w \in Workers |-> Idle]
    /\ faults = 0

-----------------------------------------------------------------------------
(***************************************************************************)
(* Helpers.                                                                *)
(***************************************************************************)
Now(w) == clock + Skew[w]

CanFault == faults < MaxFaults /\ clock <= LastFault

\* ORDER BY available_at, event_id.
Precedes(d, e) ==
    \/ AvailableAt[d] < AvailableAt[e]
    \/ AvailableAt[d] = AvailableAt[e] /\ Position[d] < Position[e]

\* Mutant of Head: a claimed result no longer holds back the next one.
HeadUnclaimed(e) ==
    /\ row[e].status = "pending"
    /\ \A d \in Results :
         row[d].status = "pending" /\ Precedes(d, e) => row[d].token # 0

\* The first unprocessed result.
Head(e) ==
    /\ row[e].status = "pending"
    /\ \A d \in Results : row[d].status = "pending" => ~Precedes(d, e)

\* A later result is claimed or processed.
Overtaken(e) ==
    \E d \in Results : Precedes(e, d) /\ (row[d].status = "processed" \/ row[d].token # 0)

\* Mutant of Claimable: a claim is never taken over.
ClaimableOnce(e, at) == row[e].nextAttemptAt <= at /\ row[e].token = 0

\* The head may be claimed at this time.
Claimable(e, at) ==
    /\ row[e].nextAttemptAt <= at
    /\ row[e].token = 0 \/ row[e].claimedUntil <= at

\* The fence of lockClaimedRatingResult and of ScheduleRatingRetry.
OwnsClaim(e, token) ==
    /\ row[e].status = "pending"
    /\ row[e].token = token
    /\ row[e].claimedUntil > clock

\* The transaction of another worker holds the lock of the result or the rating.
ResultLocked(w, e) ==
    \E v \in Workers \ {w} : work[v].phase = "reading" /\ work[v].result = e

RatingLocked(w, p) ==
    \E v \in Workers \ {w} : work[v].phase = "reading" /\ p \in work[v].locked

\* Mutant of Released: an ill-typed token is left behind.
ReleasedWithMinusOne(r) == [r EXCEPT !.token = -1, !.claimedUntil = 0]

\* claim_token and claimed_until are set to NULL.
Released(r) == [r EXCEPT !.token = 0, !.claimedUntil = 0]

\* RunOnce after ProcessRatingResult failed; the transaction is rolled back.
WillRetry(w) ==
    [Idle EXCEPT !.phase = "retry", !.result = work[w].result, !.token = work[w].token,
                 !.retryAt = Now(w) + FailureBackoff]

Goes(w, h) == work' = [work EXCEPT ![w] = h]

-----------------------------------------------------------------------------
(***************************************************************************)
(* Results arrive and are claimed.                                         *)
(***************************************************************************)

\* FinalizeResult stores the result; available_at is the game backend's, and not
\* after the acceptance.
Store(e) ==
    /\ row[e].status = "none"
    /\ clock >= AvailableAt[e]
    /\ clock <= AvailableAt[e] + ReportDelay
    /\ row' = [row EXCEPT ![e] =
                 [NoRow EXCEPT !.status = "pending", !.nextAttemptAt = AvailableAt[e]]]
    /\ late' = IF Overtaken(e) THEN late \cup {e} ELSE late
    /\ UNCHANGED <<clock, rating, updates, rated, work, faults>>

\* ClaimNextRatingResult, which waits for the lock of the head.
Claim(w, e) ==
    /\ work[w].phase = "idle"
    /\ Head(e)
    /\ ~ResultLocked(w, e)
    /\ Claimable(e, Now(w))
    /\ row' = [row EXCEPT ![e] =
                 [row[e] EXCEPT !.token = row[e].attempts + 1,
                                !.attempts = row[e].attempts + 1,
                                !.claimedUntil = Now(w) + LeaseDuration]]
    /\ Goes(w, [Idle EXCEPT !.phase = "claimed", !.result = e,
                            !.token = row[e].attempts + 1, !.at = Now(w)])
    /\ UNCHANGED <<clock, rating, updates, rated, late, faults>>

-----------------------------------------------------------------------------
(***************************************************************************)
(* ProcessRatingResult.                                                    *)
(***************************************************************************)

\* lockClaimedRatingResult.
Begin(w) ==
    /\ work[w].phase = "claimed"
    /\ ~ResultLocked(w, work[w].result)
    /\ IF OwnsClaim(work[w].result, work[w].token)
         THEN Goes(w, [work[w] EXCEPT !.phase = "reading"])
         ELSE Goes(w, WillRetry(w))
    /\ UNCHANGED <<clock, row, rating, updates, rated, late, faults>>

\* lockCurrentRating for the next participant, in the order of player_id.  The row is
\* locked if there is one.
Read(w, p) ==
    LET unread == PlayersOf[work[w].result] \ work[w].read
    IN  /\ work[w].phase = "reading"
        /\ p \in unread
        /\ \A q \in unread : Rank[p] <= Rank[q]
        /\ ~RatingLocked(w, p)
        /\ Goes(w, [work[w] EXCEPT
                      !.read = work[w].read \cup {p},
                      !.before = [work[w].before EXCEPT ![p] = rating[p]],
                      !.locked = IF rating[p].counted # {} THEN work[w].locked \cup {p}
                                                           ELSE work[w].locked])
        /\ UNCHANGED <<clock, row, rating, updates, rated, late, faults>>

AllRead(w) == work[w].phase = "reading" /\ work[w].read = PlayersOf[work[w].result]

\* The schema's rating_updates_time_order: a player's ratings do not go back in time.
TimeOrdered(w) ==
    \A p \in work[w].read : work[w].at >= work[w].before[p].updatedAt

\* Mutant of UpdatesOf: a player without a rating yet is skipped.
UpdatesOfRated(e, before) ==
    {[player |-> p, result |-> e, before |-> before[p].counted] :
       p \in {q \in PlayersOf[e] : before[q].counted # {}}}

\* The rows of rating_updates for a result.
UpdatesOf(e, before) ==
    {[player |-> p, result |-> e, before |-> before[p].counted] : p \in PlayersOf[e]}

\* The WHERE clause of the UPDATE that ends the transaction; it always holds, since
\* the result has been locked since Begin.
StillClaimed(e, token) == row[e].status = "pending" /\ row[e].token = token

\* persistRatingUpdate for every participant overwrites the rating, whatever is stored
\* by now; the result is marked processed and result.rated is announced.  The answer
\* to the commit may be lost.
Commit(w) ==
    LET e == work[w].result
        before == work[w].before
    IN  /\ AllRead(w)
        /\ TimeOrdered(w)
        /\ \A p \in PlayersOf[e] : ~RatingLocked(w, p)
        /\ StillClaimed(e, work[w].token)
        /\ updates' = updates \cup UpdatesOf(e, before)
        /\ rating' = [p \in Players |->
             IF p \in PlayersOf[e]
               THEN [counted |-> before[p].counted \cup {e}, updatedAt |-> work[w].at]
               ELSE rating[p]]
        /\ row' = [row EXCEPT ![e] =
                     Released([row[e] EXCEPT !.status = "processed",
                                             !.processedAt = work[w].at])]
        /\ rated' = rated \cup {e}
        /\ \/ Goes(w, Idle) /\ UNCHANGED faults
           \/ CanFault /\ Goes(w, WillRetry(w)) /\ faults' = faults + 1
        /\ UNCHANGED <<clock, late>>

\* The insertion into rating_updates fails: another worker's clock is ahead.
RefusedByTime(w) ==
    /\ AllRead(w)
    /\ ~TimeOrdered(w)
    /\ Goes(w, WillRetry(w))
    /\ UNCHANGED <<clock, row, rating, updates, rated, late, faults>>

\* ScheduleRatingRetry; a lost claim is not an error.
ScheduleRetry(w) ==
    LET e == work[w].result
    IN  /\ work[w].phase = "retry"
        /\ ~ResultLocked(w, e)
        /\ row' = IF OwnsClaim(e, work[w].token)
                    THEN [row EXCEPT ![e] =
                            Released([row[e] EXCEPT !.nextAttemptAt = work[w].retryAt])]
                    ELSE row
        /\ Goes(w, Idle)
        /\ UNCHANGED <<clock, rating, updates, rated, late, faults>>

-----------------------------------------------------------------------------
(***************************************************************************)
(* Faults and time.                                                        *)
(***************************************************************************)

\* A statement of the transaction fails, and it is rolled back.
StatementFails(w) ==
    /\ CanFault
    /\ work[w].phase \in {"claimed", "reading"}
    /\ Goes(w, WillRetry(w))
    /\ faults' = faults + 1
    /\ UNCHANGED <<clock, row, rating, updates, rated, late>>

\* The process dies, or the retry cannot be scheduled: the claim is left to expire.
Crash(w) ==
    /\ CanFault
    /\ work[w].phase # "idle"
    /\ Goes(w, Idle)
    /\ faults' = faults + 1
    /\ UNCHANGED <<clock, row, rating, updates, rated, late>>

Tick ==
    /\ clock < MaxTime
    /\ clock' = clock + 1
    /\ UNCHANGED <<row, rating, updates, rated, late, work, faults>>

WorkerStep(w) ==
    \/ \E e \in Results : Claim(w, e)
    \/ Begin(w)
    \/ \E p \in Players : Read(w, p)
    \/ Commit(w)
    \/ RefusedByTime(w)
    \/ ScheduleRetry(w)

Next ==
    \/ \E e \in Results : Store(e)
    \/ \E w \in Workers : WorkerStep(w) \/ StatementFails(w) \/ Crash(w)
    \/ Tick

Spec == Init /\ [][Next]_vars

\* Runners poll and finish what they start, and time passes.
FairSpec == Spec /\ WF_vars(Tick) /\ \A w \in Workers : WF_vars(WorkerStep(w))

-----------------------------------------------------------------------------
(***************************************************************************)
(* Properties.                                                             *)
(***************************************************************************)

\* A result is rated once and completely, however often it was claimed: one update
\* for each participant and one event if it is processed, and neither otherwise.
RatedOnce ==
    \A e \in Results :
      /\ e \in rated <=> row[e].status = "processed"
      /\ \A p \in Players :
           LET ofPlayer == {u \in updates : u.result = e /\ u.player = p}
           IN  IF e \in rated /\ p \in PlayersOf[e]
                 THEN \E u \in ofPlayer : ofPlayer = {u}
                 ELSE ofPlayer = {}

\* No result up to this one was stored late.
Timely(e) == \A d \in late : Precedes(e, d)

\* "Rating results are processed in availability order" (README.md:60), as far as the
\* order in which they are stored allows it: up to the first result that was stored when
\* a later one (by available_at, then event_id) was claimed or processed, the estimate
\* a result starts from contains exactly the participant's earlier results.
InAvailabilityOrder ==
    \A u \in updates : Timely(u.result) =>
        u.before = {d \in Results : /\ row[d].status # "none"
                                   /\ Precedes(d, u.result)
                                   /\ u.player \in PlayersOf[d]}

\* "RatingQueue serializes verified results" (rating_queue.go:19): a rating is what
\* some serial execution gives, so that it contains every processed result of its
\* player.
RatingsAreSerial ==
    \A p \in Players :
        rating[p].counted =
            {e \in Results : p \in PlayersOf[e] /\ row[e].status = "processed"}

\* Every stored result is rated although leases expire, workers fail and their clocks
\* disagree.
EveryResultIsRated ==
    \A e \in Results : (row[e].status = "pending") ~> (row[e].status = "processed")
=============================================================================
