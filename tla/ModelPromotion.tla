---------------------------- MODULE ModelPromotion ----------------------------
(***************************************************************************)
(* How a rating model becomes the active one: it is trained on a           *)
(* time-ordered split of verified results (pkg/rating/dataset.go), scored  *)
(* on later rooms as a shadow candidate, compared with the baseline        *)
(* (pkg/rating/comparison.go, internal/postgres/rating_shadow_report.go)   *)
(* and activated or rolled back by operators under a revision fence        *)
(* (pkg/rating/lifecycle.go).                                              *)
(*                                                                         *)
(* The shadow timeline itself is RatingShadow; here a stored result may be *)
(* scored at any time.  Models, features and scores are abstracted to what *)
(* the decisions need: which results a model was trained on, and by how    *)
(* much a room's scores change from the baseline to the candidate.         *)
(***************************************************************************)
EXTENDS Integers, Sequences, FiniteSets, FiniteSetsExt, Functions

CONSTANTS
    Versions,            \* rating model versions
    InitialVersion,      \* active at first
    NoVersion,           \* the empty version
    Events,              \* verified results, each of its own room
    FilledAt,            \* when the room was filled
    AvailableAt,         \* when the result became available
    RoomBaseline,        \* the version that rated the room
    Segments,
    SegmentOf,           \* the stable segment of a room
    RoomSize,            \* the number of players of its rooms
    BrierChange,         \* candidate minus baseline, summed over the players of a
    LogLossChange,       \*   room: by event and version
    CalibrationChange,   \* of the expected calibration error: by events and version
    Cutoff,              \* the training cutoff the operator uses for a version
    MinimumRooms,        \* ModelComparisonPolicy.MinimumRoomsPerSegment
    MinimumImprovement,  \* MinimumOverallBrierImprovement
    MaximumBrier,        \* MaximumSegmentBrierRegression
    MaximumLogLoss,      \* MaximumSegmentLogLossRegression
    MaximumCalibration,  \* MaximumSegmentCalibrationRegression
    Operators,           \* callers of ActivateModel and RollbackModel
    MaxTime,             \* bound: the clock stops here
    MaxRevision          \* the largest revision: math.MaxUint64

ASSUME PromotionAssumption ==
    /\ InitialVersion \in Versions
    /\ NoVersion \notin Versions
    /\ FilledAt \in [Events -> Nat]
    /\ AvailableAt \in [Events -> Nat]
    /\ \A e \in Events : FilledAt[e] <= AvailableAt[e]
    /\ RoomBaseline \in [Events -> Versions]
    /\ SegmentOf \in [Events -> Segments]
    /\ RoomSize \in [Segments -> Nat \ {0}]
    /\ BrierChange \in [Events -> [Versions -> Int]]
    /\ LogLossChange \in [Events -> [Versions -> Int]]
    /\ CalibrationChange \in [SUBSET Events -> [Versions -> Int]]
    /\ Cutoff \in [Versions -> Nat]
    /\ MinimumRooms \in Nat \ {0}
    /\ {MinimumImprovement, MaximumBrier, MaximumLogLoss, MaximumCalibration} \subseteq Nat
    /\ MaxTime \in Nat
    /\ MaxRevision \in Nat \ {0}

VARIABLES
    clock,
    stored,      \* results that are verified and stored
    scored,      \* scored[e]: the candidate with an observation of e
    model,       \* what is known of each version
    deployment,  \* ModelDeployment
    audit,       \* the sequence of ModelTransitions
    hand         \* hand[o]: the command operator o prepares

vars == <<clock, stored, scored, model, deployment, audit, hand>>

-----------------------------------------------------------------------------
(***************************************************************************)
(* State.                                                                  *)
(***************************************************************************)

\* trainedOn is the training partition; a candidate is a shadow from activatedAt, and
\* until endedAt once it is ended, for rooms that baseline rates.
Model ==
    [stage : {"none", "trained", "shadow", "ended"}, trainedOn : SUBSET Events,
     baseline : Versions \cup {NoVersion}, activatedAt : Nat, endedAt : Nat]

NoModel ==
    [stage |-> "none", trainedOn |-> {}, baseline |-> NoVersion, activatedAt |-> 0,
     endedAt |-> 0]

ModelDeployment ==
    [active : Versions, rollback : Versions \cup {NoVersion},
     revision : 1 .. MaxRevision, changedAt : Nat]

\* seen and evidence are history: how many transitions the operator knew of, and the
\* results behind the comparison.
ModelTransition ==
    [kind : {"activation", "rollback"}, from : Versions, to : Versions,
     revision : 1 .. MaxRevision, changedAt : Nat, seen : Nat,
     evidence : SUBSET Events]

\* SegmentComparison: the mean Brier change is brier / players, the mean log-loss change
\* logLoss / players; calibration is the change itself.
SegmentComparison ==
    [rooms : Nat, players : Nat, size : Nat, brier : Int, logLoss : Int,
     calibration : Int, passed : BOOLEAN]

NoMetrics == [brier |-> 0, logLoss |-> 0, calibration |-> 0]

\* ModelComparisonReport; evidence is history.
NoReport ==
    [baseline |-> NoVersion, candidate |-> NoVersion, availableThrough |-> 0,
     segments |-> << >>, rooms |-> 0, players |-> 0,
     total |-> NoMetrics, eligible |-> FALSE, evidence |-> {}]

\* A prepared ActivateModelCommand or RollbackModelCommand.
NoCommand ==
    [kind |-> "none", expected |-> 0, seen |-> 0, report |-> NoReport]

CommandOK(c) ==
    /\ c.kind \in {"none", "activation", "rollback"}
    /\ c.expected \in 0 .. MaxRevision
    /\ c.seen \in 0 .. Len(audit)
    /\ DOMAIN c.report.segments \subseteq Segments
    /\ \A s \in DOMAIN c.report.segments : c.report.segments[s] \in SegmentComparison

\* The deployment has the form ModelDeployment.Validate requires, its revision does
\* not overflow, and everything else has its type.
TypeOK ==
    /\ clock \in Nat
    /\ stored \subseteq Events
    /\ scored \in [Events -> Versions \cup {NoVersion}]
    /\ model \in [Versions -> Model]
    /\ deployment \in ModelDeployment
    /\ deployment.rollback # deployment.active
    /\ audit \in Seq(ModelTransition)
    /\ \A o \in Operators : CommandOK(hand[o])

\* NewModelDeployment.
Init ==
    /\ clock = 1
    /\ stored = {}
    /\ scored = [e \in Events |-> NoVersion]
    /\ model = [v \in Versions |-> NoModel]
    /\ deployment = [active |-> InitialVersion, rollback |-> NoVersion,
                     revision |-> 1, changedAt |-> 0]
    /\ audit = << >>
    /\ hand = [o \in Operators |-> NoCommand]

-----------------------------------------------------------------------------
(***************************************************************************)
(* Training data.                                                          *)
(***************************************************************************)

\* Mutant of TrainingSet: the standardizer is fitted on both partitions.
TrainingSetAll(v) == stored

\* SplitFeatureBatches: what was available by the cutoff, and what came later.
TrainingSet(v) == {e \in stored : AvailableAt[e] <= Cutoff[v]}

HoldoutSet(v) == {e \in stored : AvailableAt[e] > Cutoff[v]}

\* FitFeatureStandardizer on the split; both partitions must have data.
Train(v) ==
    /\ model[v].stage = "none"
    /\ v # InitialVersion
    /\ TrainingSet(v) # {}
    /\ HoldoutSet(v) # {}
    /\ model' = [model EXCEPT ![v].stage = "trained", ![v].trainedOn = TrainingSet(v)]
    /\ UNCHANGED <<clock, stored, scored, deployment, audit, hand>>

-----------------------------------------------------------------------------
(***************************************************************************)
(* Shadow evidence.                                                        *)
(***************************************************************************)

\* A row of rating_shadow_deployments, against the version that is active now.
StartShadow(v) ==
    /\ model[v].stage = "trained"
    /\ clock > Cutoff[v]
    /\ v # deployment.active
    /\ \A u \in Versions : model[u].stage # "shadow"
    /\ model' = [model EXCEPT ![v].stage = "shadow", ![v].activatedAt = clock,
                              ![v].baseline = deployment.active]
    /\ UNCHANGED <<clock, stored, scored, deployment, audit, hand>>

EndShadow(v) ==
    /\ model[v].stage = "shadow"
    /\ clock > model[v].activatedAt
    /\ model' = [model EXCEPT ![v].stage = "ended", ![v].endedAt = clock]
    /\ UNCHANGED <<clock, stored, scored, deployment, audit, hand>>

\* The candidate that predicted the room of e.
Predicts(v, e) ==
    /\ model[v].stage \in {"shadow", "ended"}
    /\ model[v].baseline = RoomBaseline[e]
    /\ model[v].activatedAt <= FilledAt[e]
    /\ model[v].stage = "ended" => FilledAt[e] < model[v].endedAt

\* A verified result is stored, any time after it became available.
StoreResult(e) ==
    /\ e \notin stored
    /\ clock >= AvailableAt[e]
    /\ stored' = stored \cup {e}
    /\ UNCHANGED <<clock, scored, model, deployment, audit, hand>>

\* The shadow worker reaches it and stores an observation for the candidate.
Score(v, e) ==
    /\ e \in stored
    /\ scored[e] = NoVersion
    /\ Predicts(v, e)
    /\ scored' = [scored EXCEPT ![e] = v]
    /\ UNCHANGED <<clock, stored, model, deployment, audit, hand>>

-----------------------------------------------------------------------------
(***************************************************************************)
(* Comparison.                                                             *)
(***************************************************************************)

\* compareSegment: enough rooms, and no mean above its allowed regression.
Passes(s) ==
    /\ s.rooms >= MinimumRooms
    /\ s.brier <= MaximumBrier * s.players
    /\ s.logLoss <= MaximumLogLoss * s.players
    /\ s.calibration <= MaximumCalibration

\* The sums over the segments of a report: rooms, players and metricTotals, in which
\* the calibration error is weighted by cells.
TotalRooms(segments) == SumFunction([s \in DOMAIN segments |-> segments[s].rooms])

TotalPlayers(segments) == SumFunction([s \in DOMAIN segments |-> segments[s].players])

Total(segments) ==
    [brier       |-> SumFunction([s \in DOMAIN segments |-> segments[s].brier]),
     logLoss     |-> SumFunction([s \in DOMAIN segments |-> segments[s].logLoss]),
     calibration |-> SumFunction([s \in DOMAIN segments |->
                       segments[s].calibration * segments[s].players * segments[s].size])]

\* The mean Brier score improves as the policy requires.
Improves(segments) ==
    -Total(segments).brier >= MinimumImprovement * TotalPlayers(segments)

\* EvaluateCalibration of both models on the results es of segment s.
Calibration(es, s, v) ==
    [rooms       |-> Cardinality(es),
     players     |-> Cardinality(es) * RoomSize[s],
     size        |-> RoomSize[s],
     brier       |-> SumFunction([e \in es |-> BrierChange[e][v]]),
     logLoss     |-> SumFunction([e \in es |-> LogLossChange[e][v]]),
     calibration |-> CalibrationChange[es][v],
     passed      |-> FALSE]

\* EvaluateHoldoutCalibration accepts a result of the candidate v.
InHoldout(e, v) == AvailableAt[e] > Cutoff[v] /\ FilledAt[e] >= Cutoff[v]

\* CompareHoldoutModels.
Compare(es, v) ==
    LET segments ==
          [s \in {SegmentOf[e] : e \in es} |->
             LET c == Calibration({e \in es : SegmentOf[e] = s}, s, v)
             IN  [c EXCEPT !.passed = Passes(c)]]
    IN  [baseline |-> model[v].baseline, candidate |-> v,
         availableThrough |-> Max({AvailableAt[e] : e \in es}),
         segments |-> segments, rooms |-> TotalRooms(segments),
         players |-> TotalPlayers(segments), total |-> Total(segments),
         eligible |-> /\ \A s \in DOMAIN segments : segments[s].passed
                      /\ Improves(segments),
         evidence |-> es]

\* Mutant of ValidateForActivation: the flags of the report are trusted.
ValidateFlagsOnly(r) ==
    r.eligible /\ \A s \in DOMAIN r.segments : r.segments[s].passed

\* ValidateForActivation recomputes what the report says from its segments.
ValidateForActivation(r) ==
    /\ r.eligible
    /\ r.baseline # r.candidate
    /\ r.availableThrough > Cutoff[r.candidate]
    /\ DOMAIN r.segments # {}
    /\ \A s \in DOMAIN r.segments : Passes(r.segments[s]) /\ r.segments[s].passed
    /\ Improves(r.segments)
    /\ r.rooms = TotalRooms(r.segments)
    /\ r.players = TotalPlayers(r.segments)
    /\ r.total = Total(r.segments)

-----------------------------------------------------------------------------
(***************************************************************************)
(* Operators prepare commands from what they see.                          *)
(***************************************************************************)
Evidence(v) == {e \in Events : scored[e] = v}

\* A report is a document that is kept and handed on: what it says may no longer agree
\* with its segments.
MarkedEligible(r) ==
    [r EXCEPT !.eligible = TRUE,
              !.segments = [s \in DOMAIN r.segments |->
                              [r.segments[s] EXCEPT !.passed = TRUE]]]

WithoutSegment(r, s) ==
    [r EXCEPT !.segments = [t \in DOMAIN r.segments \ {s} |-> r.segments[t]]]

Editions(r) ==
    {r, MarkedEligible(r)} \cup {MarkedEligible(WithoutSegment(r, s)) : s \in Segments}

\* The operator reads the deployment and builds the report of BuildComparison.
PrepareActivation(o, v) ==
    /\ hand[o].kind = "none"
    /\ Evidence(v) # {}
    /\ \A e \in Evidence(v) : InHoldout(e, v)
    /\ \E r \in Editions(Compare(Evidence(v), v)) :
         hand' = [hand EXCEPT ![o] =
                    [kind |-> "activation", expected |-> deployment.revision,
                     seen |-> Len(audit), report |-> r]]
    /\ UNCHANGED <<clock, stored, scored, model, deployment, audit>>

PrepareRollback(o) ==
    /\ hand[o].kind = "none"
    /\ deployment.rollback # NoVersion
    /\ hand' = [hand EXCEPT ![o] =
                  [kind |-> "rollback", expected |-> deployment.revision,
                   seen |-> Len(audit), report |-> NoReport]]
    /\ UNCHANGED <<clock, stored, scored, model, deployment, audit>>

-----------------------------------------------------------------------------
(***************************************************************************)
(* ActivateModel and RollbackModel.                                        *)
(***************************************************************************)

\* Mutant of ValidChange: the revision is not compared.
ValidChangeUnfenced(expected, at) ==
    deployment.revision < MaxRevision /\ at > deployment.changedAt

\* Mutant of ValidChange: the last revision is incremented too.
ValidChangeUnbounded(expected, at) ==
    expected = deployment.revision /\ at > deployment.changedAt

\* validateModelChange.
ValidChange(expected, at) ==
    /\ expected = deployment.revision
    /\ deployment.revision < MaxRevision
    /\ at > deployment.changedAt

\* uint64 arithmetic: the largest revision is followed by zero.
Increment(revision) == (revision + 1) % (MaxRevision + 1)

\* Mutant of AfterRollback: the version that is left becomes the next target.
AfterRollbackToggle(at) ==
    [active |-> deployment.rollback, rollback |-> deployment.active,
     revision |-> Increment(deployment.revision), changedAt |-> at]

\* The deployment after each change.
AfterActivation(v, at) ==
    [active |-> v, rollback |-> deployment.active,
     revision |-> Increment(deployment.revision), changedAt |-> at]

AfterRollback(at) ==
    [active |-> deployment.rollback, rollback |-> NoVersion,
     revision |-> Increment(deployment.revision), changedAt |-> at]

\* The next deployment and its transition are stored together, as the caller must.
Changes(o, kind, next) ==
    /\ deployment' = next
    /\ audit' = Append(audit,
         [kind |-> kind, from |-> deployment.active, to |-> next.active,
          revision |-> next.revision, changedAt |-> next.changedAt,
          seen |-> hand[o].seen, evidence |-> hand[o].report.evidence])
    /\ hand' = [hand EXCEPT ![o] = NoCommand]
    /\ UNCHANGED <<clock, stored, scored, model>>

ActivationAllowed(c) ==
    /\ c.kind = "activation"
    /\ ValidChange(c.expected, clock)
    /\ ValidateForActivation(c.report)
    /\ c.report.baseline = deployment.active
    /\ c.report.candidate # deployment.active
    /\ c.report.availableThrough <= clock

RollbackAllowed(c) ==
    /\ c.kind = "rollback"
    /\ ValidChange(c.expected, clock)
    /\ deployment.rollback # NoVersion

ActivateModel(o) ==
    /\ ActivationAllowed(hand[o])
    /\ Changes(o, "activation", AfterActivation(hand[o].report.candidate, clock))

RollbackModel(o) ==
    /\ RollbackAllowed(hand[o])
    /\ Changes(o, "rollback", AfterRollback(clock))

\* The command is refused, and the operator starts again.
Refused(o) ==
    /\ hand[o].kind # "none"
    /\ ~ActivationAllowed(hand[o])
    /\ ~RollbackAllowed(hand[o])
    /\ hand' = [hand EXCEPT ![o] = NoCommand]
    /\ UNCHANGED <<clock, stored, scored, model, deployment, audit>>

Tick ==
    /\ clock < MaxTime
    /\ clock' = clock + 1
    /\ UNCHANGED <<stored, scored, model, deployment, audit, hand>>

Next ==
    \/ \E v \in Versions : Train(v) \/ StartShadow(v) \/ EndShadow(v)
    \/ \E e \in Events : StoreResult(e)
    \/ \E v \in Versions, e \in Events : Score(v, e)
    \/ \E o \in Operators, v \in Versions : PrepareActivation(o, v)
    \/ \E o \in Operators :
         PrepareRollback(o) \/ ActivateModel(o) \/ RollbackModel(o) \/ Refused(o)
    \/ Tick

Spec == Init /\ [][Next]_vars

-----------------------------------------------------------------------------
(***************************************************************************)
(* Properties.                                                             *)
(***************************************************************************)
Activations == {i \in DOMAIN audit : audit[i].kind = "activation"}

\* "A stale or internally inconsistent report cannot promote a model"
\* (pkg/rating/comparison.go:223): however old the report and whatever became of its
\* flags and segments, the results behind it make the candidate eligible against the version that was active.
ActivationIsEarned ==
    \A i \in Activations :
      LET t == audit[i]
          r == Compare(t.evidence, t.to)
      IN  /\ t.evidence # {}
          /\ r.eligible
          /\ r.baseline = t.from
          /\ r.availableThrough <= t.changedAt

\* "Private partitions prevent a standardizer from accidentally fitting on holdout
\* observations" (pkg/rating/dataset.go:12): no result behind an activation was used to
\* train the model, however late results were stored.
EvidenceIsUnseen ==
    \A i \in Activations : audit[i].evidence \cap model[audit[i].to].trainedOn = {}

\* The transitions are one chain of revisions from the first version to the active one,
\* with increasing times, and each was decided by an operator who knew all the ones
\* before it: of two operators who prepare changes at once, one is refused.
AuditIsAChain ==
    LET before(i) == IF i = 1 THEN InitialVersion ELSE audit[i - 1].to
    IN  /\ deployment.revision = Len(audit) + 1
        /\ deployment.active = before(Len(audit) + 1)
        /\ \A i \in DOMAIN audit :
             /\ audit[i].from = before(i)
             /\ audit[i].seen = i - 1
             /\ audit[i].revision = i + 1
             /\ i > 1 => audit[i].changedAt > audit[i - 1].changedAt

\* "Repeated calls cannot toggle versions accidentally" (pkg/rating/lifecycle.go:116):
\* a rollback undoes the activation right before it, and nothing else.
RollbackUndoesActivation ==
    \A i \in DOMAIN audit : audit[i].kind = "rollback" =>
        /\ i > 1
        /\ audit[i - 1].kind = "activation"
        /\ audit[i].to = audit[i - 1].from
        /\ audit[i].from = audit[i - 1].to
=============================================================================
