----------------------------- MODULE RatingShadow -----------------------------
(***************************************************************************)
(* Shadow evaluation of candidate rating models: the timeline of           *)
(* internal/postgres/rating_shadow_queue.go and the runner of              *)
(* internal/worker/rating_shadow.go.                                       *)
(*                                                                         *)
(* A filled room and a finalized result are items of one timeline, ordered *)
(* by the time of the event and not by the time it was stored: an item may *)
(* be stored late, before items that are already processed.  The item of a *)
(* room predicts with the candidate that was deployed when it was filled;  *)
(* the item of a result scores that prediction and advances the candidate's*)
(* player states.  What a state is worth is abstracted to the set of       *)
(* results that went into it.  A room has at most one result, which is     *)
(* named by its room.                                                      *)
(***************************************************************************)
EXTENDS Integers, FiniteSets

CONSTANTS
    Rooms,           \* room_id of rooms
    Finished,        \* rooms whose result is finalized
    Players,
    PlayersOf,       \* the participants of a room
    FilledAt,        \* filled_at, by the clock of the matchmaking worker
    AvailableAt,     \* available_at of the result, as the game backend states it
    Position,        \* the order of source identities
    RoomBaseline,    \* rating_model_version of a room
    RoomDeck,        \* its mode, scoring rules and deck version, or NoDeck
    NoDeck,          \* deck_version is NULL
    Candidates,      \* candidate_version of deployments
    Baseline,        \* baseline_version of a deployment
    Deck,            \* its mode, scoring rules and deck version
    Cutoff,          \* its training_cutoff; trained_through is not after it
    NoCandidate,
    ActivatedAt,     \* its activated_at
    EndedAt,         \* its ended_at, once the operator sets one
    FillDelay,       \* how long after filled_at the item of a room may be stored
    ResultDelay,     \* how long after available_at the item of a result may be stored
    Extreme,         \* items whose values may be more than a model takes
    Workers,         \* shadow runner processes
    Skew,            \* each worker's clock minus the database clock
    NoItem,          \* an idle worker
    LeaseDuration,   \* RatingShadowRunnerOptions.LeaseDuration
    FailureBackoff,  \* RatingShadowRunnerOptions.FailureBackoff
    MaxTime,         \* bound: the clock stops here
    LastSlow,        \* bound: after this time workers are fast
    LastFault,       \* bound: after this time no fault and no operator
    MaxFaults        \* bound: number of faults in a behaviour

ASSUME ShadowAssumption ==
    /\ Finished \subseteq Rooms
    /\ PlayersOf \in [Rooms -> SUBSET Players]
    /\ FilledAt \in [Rooms -> Nat]
    /\ AvailableAt \in [Rooms -> Nat]
    /\ \A r \in Rooms : FilledAt[r] <= AvailableAt[r]
    /\ Position \in [Rooms -> Nat]
    /\ \A q, r \in Rooms : Position[q] = Position[r] => q = r
    /\ \A c \in Candidates : Deck[c] # NoDeck
    /\ Cutoff \in [Candidates -> Int]
    /\ NoCandidate \notin Candidates
    /\ ActivatedAt \in [Candidates -> Nat]
    /\ EndedAt \in [Candidates -> Nat]
    /\ \A c \in Candidates : Cutoff[c] < ActivatedAt[c] /\ ActivatedAt[c] < EndedAt[c]
    /\ FillDelay \in [Rooms -> Nat]
    /\ ResultDelay \in [Rooms -> Nat]
    /\ IsFiniteSet(Workers)
    /\ Skew \in [Workers -> Int]
    /\ LeaseDuration \in Nat \ {0}
    /\ FailureBackoff \in Nat \ {0}
    /\ MaxTime \in Nat
    /\ LastSlow \in Int
    /\ LastFault \in Int
    /\ MaxFaults \in Nat

VARIABLES
    clock,        \* clock_timestamp() of the database
    deployment,   \* rating_shadow_deployments
    row,          \* rating_shadow_work
    prediction,   \* rating_shadow_predictions, by room
    state,        \* rating_shadow_player_states, by candidate and player
    updates,      \* rating_shadow_updates
    observations, \* rating_shadow_observations
    late,         \* history: items stored when a later one was claimed or processed
    work,         \* work[w]: what worker w does
    faults        \* faults so far

evidence == <<prediction, state, updates, observations>>

vars == <<clock, deployment, row, prediction, state, updates, observations, late,
          work, faults>>

-----------------------------------------------------------------------------
(***************************************************************************)
(* State.  The token of a claim is random: here the least one that nobody  *)
(* holds for the item; zero stands for NULL.  attempt_count and            *)
(* skip_reason are only reported.                                          *)
(***************************************************************************)
RoomItem(r) == [kind |-> "room", room |-> r]

ResultItem(r) == [kind |-> "result", room |-> r]

Items == {RoomItem(r) : r \in Rooms} \cup {ResultItem(r) : r \in Finished}

\* ended is FALSE while ended_at is NULL.  sound: the definition decodes and agrees
\* with its metadata, and NewExtended takes it.
Deployment == [created : BOOLEAN, ended : BOOLEAN, sound : BOOLEAN]

\* fit is about the room or the result behind the item: the models take its values.
WorkRow ==
    [status : {"none", "pending", "processed"}, nextAttemptAt : Int, token : Nat,
     claimedUntil : Int, fit : BOOLEAN]

\* counted is empty while the player has no row; the estimate is then the prior.
PlayerState == [counted : SUBSET Rooms, updatedAt : Nat]

\* seen[p] is what the candidate knew of p.
Prediction == [candidate : Candidates \cup {NoCandidate}, seen : [Players -> SUBSET Rooms]]

Update == [player : Players, result : Rooms, candidate : Candidates, before : SUBSET Rooms]

Observation == [result : Rooms, candidate : Candidates]

\* RunOnce of a worker.
\*   claimed  it holds a claim
\*   reading  its transaction holds the lock of the item and of the player states in
\*            locked; before[p] is what it read for each p in read
\*   skipping its transaction holds the lock of an item it will skip
\*   retry    processing failed: it will schedule a retry
Handler ==
    [phase : {"idle", "claimed", "reading", "skipping", "retry"},
     item : Items \cup {NoItem}, token : Nat, candidate : Candidates \cup {NoCandidate},
     read : SUBSET Players, locked : SUBSET Players,
     before : [Players -> SUBSET Rooms]]

NoDeployment == [created |-> FALSE, ended |-> FALSE, sound |-> FALSE]

NoRow ==
    [status |-> "none", nextAttemptAt |-> 0, token |-> 0, claimedUntil |-> 0,
     fit |-> TRUE]

\* The columns of the queue are not read again.
ProcessedRow == [NoRow EXCEPT !.status = "processed"]

Prior == [counted |-> {}, updatedAt |-> 0]

NothingSeen == [p \in Players |-> {}]

NoPrediction == [candidate |-> NoCandidate, seen |-> NothingSeen]

Idle ==
    [phase |-> "idle", item |-> NoItem, token |-> 0, candidate |-> NoCandidate,
     read |-> {}, locked |-> {}, before |-> NothingSeen]

TypeOK ==
    /\ clock \in Nat
    /\ deployment \in [Candidates -> Deployment]
    /\ row \in [Items -> WorkRow]
    /\ prediction \in [Rooms -> Prediction]
    /\ state \in [Candidates -> [Players -> PlayerState]]
    /\ updates \subseteq Update
    /\ observations \subseteq Observation
    /\ late \subseteq Items
    /\ work \in [Workers -> Handler]
    /\ faults \in Nat

Init ==
    /\ clock = 0
    /\ deployment = [c \in Candidates |-> NoDeployment]
    /\ row = [i \in Items |-> NoRow]
    /\ prediction = [r \in Rooms |-> NoPrediction]
    /\ state = [c \in Candidates |-> [p \in Players |-> Prior]]
    /\ updates = {}
    /\ observations = {}
    /\ late = {}
    /\ work = [w \in Workers |-> Idle]
    /\ faults = 0

-----------------------------------------------------------------------------
(***************************************************************************)
(* Helpers.                                                                *)
(***************************************************************************)
Now(w) == clock + Skew[w]

CanFault == faults < MaxFaults /\ clock <= LastFault

\* timeline_position.
At(i) == IF i.kind = "room" THEN FilledAt[i.room] ELSE AvailableAt[i.room]

\* The time between the event and the commit that stores it.
Delay(i) == IF i.kind = "room" THEN FillDelay[i.room] ELSE ResultDelay[i.room]

\* Mutant of Precedes: a tie is broken by the source identity alone.
PrecedesBySource(i, j) ==
    \/ At(i) < At(j)
    \/ At(i) = At(j) /\ Position[i.room] < Position[j.room]

\* ORDER BY timeline_position, ordering_priority, source_id.
Precedes(i, j) ==
    \/ At(i) < At(j)
    \/ At(i) = At(j) /\ i.kind = "room" /\ j.kind = "result"
    \/ At(i) = At(j) /\ i.kind = j.kind /\ Position[i.room] < Position[j.room]

\* The first unprocessed item.
Head(i) ==
    /\ row[i].status = "pending"
    /\ \A j \in Items : row[j].status = "pending" => ~Precedes(j, i)

\* Mutant of Claimable: a claim is never taken over.
ClaimableOnce(i, at) == row[i].nextAttemptAt <= at /\ row[i].token = 0

\* The head may be claimed at this time.
Claimable(i, at) ==
    /\ row[i].nextAttemptAt <= at
    /\ row[i].token = 0 \/ row[i].claimedUntil <= at

\* The fence of lockRatingShadowClaim and of ScheduleRatingShadowRetry.
OwnsClaim(i, token) ==
    /\ row[i].status = "pending"
    /\ row[i].token = token
    /\ row[i].claimedUntil > clock

\* Mutant of Released: an ill-typed token is left behind.
ReleasedWithMinusOne(r) == [r EXCEPT !.token = -1, !.claimedUntil = 0]

\* claim_token and claimed_until are set to NULL.
Released(r) == [r EXCEPT !.token = 0, !.claimedUntil = 0]

\* A transaction of ProcessRatingShadowWork is open.
InTransaction(w) == work[w].phase \in {"reading", "skipping"}

\* The transaction of another worker holds the lock of the item or the player's state.
ItemLocked(w, i) == \E v \in Workers \ {w} : InTransaction(v) /\ work[v].item = i

HoldsState(v, c, p) == work[v].candidate = c /\ p \in work[v].locked

StateLocked(w, p) == \E v \in Workers \ {w} : HoldsState(v, work[w].candidate, p)

\* loadShadowDeployment: among the deployments for the room's context that cover
\* filled_at, the ones activated last.
DeployedFor(r) ==
    LET covering == {c \in Candidates :
                       /\ deployment[c].created
                       /\ Deck[c] = RoomDeck[r]
                       /\ Baseline[c] = RoomBaseline[r]
                       /\ ActivatedAt[c] <= FilledAt[r]
                       /\ deployment[c].ended => EndedAt[c] > FilledAt[r]}
    IN  {c \in covering : \A d \in covering : ActivatedAt[d] <= ActivatedAt[c]}

\* Mutant of CandidatesFor: a result goes to the candidate that is deployed now.
CandidatesForDeployed(i) ==
    IF DeployedFor(i.room) = {} THEN {NoCandidate} ELSE DeployedFor(i.room)

\* The candidate of an item: for a room the deployed one, for a result the one that
\* predicted its room.  NoCandidate stands for the reasons to skip: no deck version,
\* no active deployment, no prediction.
CandidatesFor(i) ==
    CASE i.kind = "result"                               -> {prediction[i.room].candidate}
      [] i.kind = "room" /\ DeployedFor(i.room) # {}     -> DeployedFor(i.room)
      [] OTHER                                           -> {NoCandidate}

\* The deployment is loaded and validated, and its model constructed.
Loads(c) == c # NoCandidate => deployment[c].sound

\* EvaluateHoldoutCalibration accepts the pair of prediction and result.
HoldoutAccepts(i, c) ==
    i.kind = "result" /\ c # NoCandidate =>
        AvailableAt[i.room] > Cutoff[c] /\ FilledAt[i.room] >= Cutoff[c]

\* A random token.
NewToken(i) ==
    LET held == {row[i].token} \cup {work[w].token : w \in {v \in Workers : work[v].item = i}}
    IN  CHOOSE t \in 1 .. Cardinality(Workers) + 2 :
          t \notin held /\ \A u \in 1 .. t - 1 : u \in held

\* RunOnce after ProcessRatingShadowWork failed; the transaction is rolled back.
WillRetry(w) ==
    [Idle EXCEPT !.phase = "retry", !.item = work[w].item, !.token = work[w].token]

Goes(w, h) == work' = [work EXCEPT ![w] = h]

-----------------------------------------------------------------------------
(***************************************************************************)
(* The operator's deployments, which only the schema guards.               *)
(***************************************************************************)

\* A row is inserted before its activation; at most one deployment of a context has
\* no end.  Nothing compares the definition with the other columns.
Deploy(c) ==
    /\ clock <= LastFault
    /\ ~deployment[c].created
    /\ clock <= ActivatedAt[c]
    /\ \A d \in Candidates :
         deployment[d].created /\ Deck[d] = Deck[c] => deployment[d].ended
    /\ \E sound \in BOOLEAN : deployment' = [deployment EXCEPT ![c] =
         [created |-> TRUE, ended |-> FALSE, sound |-> sound]]
    /\ UNCHANGED <<clock, row, evidence, late, work, faults>>

\* ended_at is set, once; it may be a time that has passed.
EndDeployment(c) ==
    /\ clock <= LastFault
    /\ deployment[c].created
    /\ ~deployment[c].ended
    /\ deployment' = [deployment EXCEPT ![c].ended = TRUE]
    /\ UNCHANGED <<clock, row, evidence, late, work, faults>>

-----------------------------------------------------------------------------
(***************************************************************************)
(* Items are stored and claimed.                                           *)
(***************************************************************************)

\* insertShadowWork, in the transaction that fills the room or finalizes its result.
\* The API accepts values that no model takes, as an integer beyond 2^53.
Store(i) ==
    /\ row[i].status = "none"
    /\ i.kind = "result" => row[RoomItem(i.room)].status # "none"
    /\ clock >= At(i)
    /\ clock <= At(i) + Delay(i)
    /\ \E fit \in BOOLEAN :
         /\ i \in Extreme \/ fit
         /\ row' = [row EXCEPT ![i] =
              [NoRow EXCEPT !.status = "pending", !.nextAttemptAt = At(i), !.fit = fit]]
    /\ late' = IF \E j \in Items : /\ row[j].status = "processed" \/ row[j].token # 0
                                  /\ Precedes(i, j)
                 THEN late \cup {i} ELSE late
    /\ UNCHANGED <<clock, deployment, evidence, work, faults>>

\* ClaimNextRatingShadowWork, which waits for the lock of the head.
Claim(w, i) ==
    /\ work[w].phase = "idle"
    /\ Head(i)
    /\ ~ItemLocked(w, i)
    /\ Claimable(i, Now(w))
    /\ row' = [row EXCEPT ![i] =
                 [row[i] EXCEPT !.token = NewToken(i),
                                !.claimedUntil = Now(w) + LeaseDuration]]
    /\ Goes(w, [Idle EXCEPT !.phase = "claimed", !.item = i, !.token = NewToken(i)])
    /\ UNCHANGED <<clock, deployment, evidence, late, faults>>

-----------------------------------------------------------------------------
(***************************************************************************)
(* ProcessRatingShadowWork.                                                *)
(***************************************************************************)

\* lockRatingShadowClaim, then the first reads of processShadowRoom or of
\* processShadowResult: the candidate, or a reason to skip.  A deployment that cannot be
\* loaded is an error.
Begin(w) ==
    LET i == work[w].item
    IN  /\ work[w].phase = "claimed"
        /\ ~ItemLocked(w, i)
        /\ \E c \in CandidatesFor(i) :
             Goes(w, IF OwnsClaim(i, work[w].token) /\ Loads(c) /\ HoldoutAccepts(i, c)
                       THEN [work[w] EXCEPT
                               !.phase = IF c = NoCandidate THEN "skipping" ELSE "reading",
                               !.candidate = c]
                       ELSE WillRetry(w))
        /\ UNCHANGED <<clock, deployment, row, evidence, late, faults>>

\* Mutant of Newer: the state may come from a later result.
NewerNever(s, i) == FALSE

\* The state was written by an item after this one.
Newer(s, i) == s.updatedAt > At(i)

\* loadShadowStates for one more player; a Go map gives them in any order.  The row is
\* locked if there is one.  A newer state is an error.
Read(w, p) ==
    LET h == work[w]
        s == state[h.candidate][p]
    IN  /\ h.phase = "reading"
        /\ p \in PlayersOf[h.item.room] \ h.read
        /\ ~StateLocked(w, p)
        /\ Goes(w, IF Newer(s, h.item)
                     THEN WillRetry(w)
                     ELSE [h EXCEPT
                             !.read = h.read \cup {p},
                             !.before = [h.before EXCEPT ![p] = s.counted],
                             !.locked = IF s.counted = {} THEN h.locked
                                                          ELSE h.locked \cup {p}])
        /\ UNCHANGED <<clock, deployment, row, evidence, late, faults>>

AllRead(w) ==
    work[w].phase = "reading" /\ work[w].read = PlayersOf[work[w].item.room]

\* What the transaction still has to lock.
Wanted(w) ==
    LET h == work[w]
        players == PlayersOf[h.item.room]
    IN  CASE h.phase = "reading" /\ h.read # players          -> players \ h.read
          [] AllRead(w) /\ h.item.kind = "result" /\ row[h.item].fit
                                                              -> players \ h.locked
          [] OTHER                                            -> {}

WaitsFor(w, v) ==
    w # v /\ \E p \in Wanted(w) : HoldsState(v, work[w].candidate, p)

\* PostgreSQL ends one of the transactions that wait for each other.
DeadlockVictim(w) ==
    /\ \E S \in SUBSET Workers :
         w \in S /\ \A u \in S : \E v \in S : WaitsFor(u, v)
    /\ Goes(w, WillRetry(w))
    /\ UNCHANGED <<clock, deployment, row, evidence, late, faults>>

\* The item is marked processed and the transaction commits.  The answer to the commit
\* may be lost.
Finish(w) ==
    LET i == work[w].item
    IN  /\ row[i].status = "pending" /\ row[i].token = work[w].token
        /\ row' = [row EXCEPT ![i] = ProcessedRow]
        /\ \/ Goes(w, Idle) /\ UNCHANGED faults
           \/ CanFault /\ Goes(w, WillRetry(w)) /\ faults' = faults + 1
        /\ UNCHANGED <<clock, deployment, late>>

\* Predict of a room, or Update or Observe of a result, returns an error.
ModelRefuses(w) ==
    /\ AllRead(w)
    /\ ~row[work[w].item].fit
    /\ Goes(w, WillRetry(w))
    /\ UNCHANGED <<clock, deployment, row, evidence, late, faults>>

\* processShadowRoom stores the paired prediction.
CommitRoom(w) ==
    /\ AllRead(w)
    /\ row[work[w].item].fit
    /\ work[w].item.kind = "room"
    /\ prediction' = [prediction EXCEPT ![work[w].item.room] =
                        [candidate |-> work[w].candidate, seen |-> work[w].before]]
    /\ Finish(w)
    /\ UNCHANGED <<state, updates, observations>>

\* The state after a result, dated by its availability.
Advanced(r, before) == [counted |-> before \cup {r}, updatedAt |-> AvailableAt[r]]

\* processShadowResult: persistShadowUpdate overwrites the state of every participant,
\* whatever is stored by now, and the pair is scored.
CommitResult(w) ==
    LET h == work[w]
        r == h.item.room
        c == h.candidate
    IN  /\ AllRead(w)
        /\ row[h.item].fit
        /\ h.item.kind = "result"
        /\ \A p \in PlayersOf[r] : ~StateLocked(w, p)
        /\ updates' = updates \cup
             {[player |-> p, result |-> r, candidate |-> c, before |-> h.before[p]] :
                p \in PlayersOf[r]}
        /\ state' = [state EXCEPT ![c] = [p \in Players |->
             IF p \in PlayersOf[r] THEN Advanced(r, h.before[p]) ELSE state[c][p]]]
        /\ observations' = observations \cup {[result |-> r, candidate |-> c]}
        /\ Finish(w)
        /\ UNCHANGED prediction

\* A reason to skip is recorded and nothing else.
CommitSkip(w) ==
    /\ work[w].phase = "skipping"
    /\ Finish(w)
    /\ UNCHANGED evidence

\* ScheduleRatingShadowRetry; a lost claim is not an error.
ScheduleRetry(w) ==
    LET i == work[w].item
    IN  /\ work[w].phase = "retry"
        /\ ~ItemLocked(w, i)
        /\ row' = IF OwnsClaim(i, work[w].token)
                    THEN [row EXCEPT ![i] =
                            Released([row[i] EXCEPT !.nextAttemptAt = Now(w) + FailureBackoff])]
                    ELSE row
        /\ Goes(w, Idle)
        /\ UNCHANGED <<clock, deployment, evidence, late, faults>>

-----------------------------------------------------------------------------
(***************************************************************************)
(* Faults and time.                                                        *)
(***************************************************************************)

\* A statement of the transaction fails, and it is rolled back.
StatementFails(w) ==
    /\ CanFault
    /\ work[w].phase = "claimed" \/ InTransaction(w)
    /\ Goes(w, WillRetry(w))
    /\ faults' = faults + 1
    /\ UNCHANGED <<clock, deployment, row, evidence, late>>

\* The process dies, or the retry cannot be scheduled: the claim is left to expire.
Crash(w) ==
    /\ CanFault
    /\ work[w].phase # "idle"
    /\ Goes(w, Idle)
    /\ faults' = faults + 1
    /\ UNCHANGED <<clock, deployment, row, evidence, late>>

\* Until LastSlow a worker may take any time for any step.
Tick ==
    /\ clock < MaxTime
    /\ clock <= LastSlow \/ \A w \in Workers : work[w].phase = "idle"
    /\ clock' = clock + 1
    /\ UNCHANGED <<deployment, row, evidence, late, work, faults>>

WorkerStep(w) ==
    \/ \E i \in Items : Claim(w, i)
    \/ Begin(w)
    \/ \E p \in Players : Read(w, p)
    \/ DeadlockVictim(w)
    \/ ModelRefuses(w)
    \/ CommitRoom(w)
    \/ CommitResult(w)
    \/ CommitSkip(w)
    \/ ScheduleRetry(w)

Next ==
    \/ \E c \in Candidates : Deploy(c) \/ EndDeployment(c)
    \/ \E i \in Items : Store(i)
    \/ \E w \in Workers : WorkerStep(w) \/ StatementFails(w) \/ Crash(w)
    \/ Tick

Spec == Init /\ [][Next]_vars

\* Runners poll and finish what they start, deadlocks are broken, and time passes.
FairSpec == Spec /\ WF_vars(Tick) /\ \A w \in Workers : WF_vars(WorkerStep(w))

-----------------------------------------------------------------------------
(***************************************************************************)
(* Properties.                                                             *)
(***************************************************************************)

\* "Outcome leakage into shadow evidence" (docs/project-map.md:39) does not happen,
\* however late items are stored and however transactions interleave: a room is
\* predicted by a candidate that was deployed when it was filled, from results that
\* were available by then and never from its own; and only results after the training
\* cutoff are scored.
NoLeakage ==
    /\ \A r \in Rooms : prediction[r].candidate # NoCandidate =>
         /\ ActivatedAt[prediction[r].candidate] <= FilledAt[r]
         /\ \A p \in Players : \A d \in prediction[r].seen[p] :
              d # r /\ AvailableAt[d] <= FilledAt[r]
    /\ \A o \in observations : AvailableAt[o.result] > Cutoff[o.candidate]

\* Every processed result of a predicted room is scored once, for the candidate that
\* predicted it, with one update per participant; nothing else leaves evidence.
\* Retries, lost answers and a deployment that ends in between do not change that.
EvidenceIsPaired ==
    \A r \in Rooms :
      LET c == prediction[r].candidate
          scored == r \in Finished /\ row[ResultItem(r)].status = "processed"
                    /\ c # NoCandidate
          updatesOf(p) == {u \in updates : u.result = r /\ u.player = p}
      IN  /\ {o \in observations : o.result = r} =
               IF scored THEN {[result |-> r, candidate |-> c]} ELSE {}
          /\ \A p \in Players :
               IF scored /\ p \in PlayersOf[r]
                 THEN \E u \in updatesOf(p) : updatesOf(p) = {u} /\ u.candidate = c
                 ELSE updatesOf(p) = {}

\* No item up to this one was stored late.
Timely(i) == \A j \in late : Precedes(i, j)

\* The results the candidate c has learned of p from.
Learned(c, p) ==
    {d \in Rooms : p \in PlayersOf[d] /\ [result |-> d, candidate |-> c] \in observations}

\* "A room item wins a timestamp tie" (docs/data-model.md:78), and "one logical
\* timeline makes the replay boundary explicit" (docs/architecture.md:118): as long as
\* nothing was stored late, a prediction knows exactly the results that were available
\* before the room was filled, and an update exactly the earlier results.
FollowsTimeline ==
    /\ \A r \in Rooms : prediction[r].candidate # NoCandidate /\ Timely(RoomItem(r)) =>
         \A p \in PlayersOf[r] :
           prediction[r].seen[p] =
             {d \in Learned(prediction[r].candidate, p) : AvailableAt[d] < FilledAt[r]}
    /\ \A u \in updates : Timely(ResultItem(u.result)) =>
         u.before =
           {d \in Learned(u.candidate, u.player) :
              \/ AvailableAt[d] < AvailableAt[u.result]
              \/ /\ AvailableAt[d] = AvailableAt[u.result]
                 /\ Position[d] < Position[u.result]}

\* The item fails whenever it is processed: its deployment cannot be loaded, the model
\* does not take its values, or a state of a participant is newer.
Poisoned(i) ==
    /\ row[i].status = "pending"
    /\ \E c \in CandidatesFor(i) \ {NoCandidate} :
         \/ ~deployment[c].sound
         \/ ~row[i].fit
         \/ \E p \in PlayersOf[i.room] : state[c][p].updatedAt > At(i)

\* "One poisoned head blocks later shadow evidence until retry or operator
\* intervention" (docs/architecture.md:124): when no more is stored, every item is
\* processed although leases expire and workers fail and deadlock, unless it or an item
\* before it cannot be: it was stored too late, its deployment has a definition that
\* does not match, or it has values that the model refuses.
TimelineDrains ==
    <>[](\A i \in Items : row[i].status = "pending" =>
            \E j \in Items : Poisoned(j) /\ ~Precedes(i, j))
=============================================================================
