------------------------- MODULE ModelPromotionProofs -------------------------
(***************************************************************************)
(* Proofs about ModelPromotion, for every set of versions, results,        *)
(* segments and operators, every comparison policy and every score, and    *)
(* without the bound on the clock that TLC needs.                          *)
(***************************************************************************)
EXTENDS ModelPromotion, InductionLemmas

-----------------------------------------------------------------------------
(***************************************************************************)
(* Reports.                                                                *)
(***************************************************************************)

\* The results of a report that belong to a segment.
InSegment(es, s) == {e \in es : SegmentOf[e] = s}

\* The segments of a comparison are those of its results, finitely many.
LEMMA SegmentsOfComparison ==
    ASSUME NEW es \in SUBSET Events, NEW v \in Versions
    PROVE  LET segments == Compare(es, v).segments
           IN  /\ DOMAIN segments = {SegmentOf[e] : e \in es}
               /\ DOMAIN segments \subseteq Segments
               /\ IsFiniteSet(es) => IsFiniteSet(DOMAIN segments)
<1>1. DOMAIN Compare(es, v).segments = {SegmentOf[e] : e \in es}
  BY DEF Compare
<1>2. {SegmentOf[e] : e \in es} \subseteq Segments
  BY PromotionAssumption
<1>3. ASSUME IsFiniteSet(es)
      PROVE  IsFiniteSet({SegmentOf[e] : e \in es})
  <2> DEFINE f == [e \in es |-> SegmentOf[e]]
             T == {SegmentOf[e] : e \in es}
  <2>1. f \in Surjection(es, T)
    BY DEF Surjection
  <2> HIDE DEF f, T
  <2>2. IsFiniteSet(T)
    BY <1>3, <2>1, FS_Surjection
  <2>3. QED
    BY <2>2 DEF T
<1>4. QED
  BY <1>1, <1>2, <1>3

\* One segment of a comparison has its type, counts at least one room, and is marked as
\* passed exactly when it passes.
LEMMA SegmentOfComparison ==
    ASSUME NEW es \in SUBSET Events, IsFiniteSet(es), NEW v \in Versions,
           NEW s \in DOMAIN Compare(es, v).segments
    PROVE  LET c == Compare(es, v).segments[s]
           IN  /\ c \in SegmentComparison
               /\ c.rooms >= 1
               /\ c.passed = Passes(c)
<1> DEFINE ss == InSegment(es, s)
           c == Calibration(ss, s, v)
<1>1. s \in Segments /\ s \in {SegmentOf[e] : e \in es}
  BY SegmentsOfComparison
<1>2. ss \in SUBSET Events /\ IsFiniteSet(ss) /\ ss # {}
  <2>1. ss \in SUBSET es
    BY DEF InSegment
  <2>2. ss # {}
    BY <1>1 DEF InSegment
  <2>3. IsFiniteSet(ss)
    BY <2>1, FS_Subset
  <2>4. QED
    BY <2>1, <2>2, <2>3
<1> HIDE DEF ss
<1>3. Cardinality(ss) \in Nat /\ Cardinality(ss) >= 1
  BY <1>2, FS_CardinalityType, FS_EmptySet
<1>4. RoomSize[s] \in Nat /\ Cardinality(ss) * RoomSize[s] \in Nat
  <2>1. RoomSize[s] \in Nat
    BY <1>1, PromotionAssumption
  <2>2. QED
    BY <1>3, <2>1
<1>5. /\ SumFunction([e \in ss |-> BrierChange[e][v]]) \in Int
      /\ SumFunction([e \in ss |-> LogLossChange[e][v]]) \in Int
  <2>1. /\ \A e \in ss : [x \in ss |-> BrierChange[x][v]][e] \in Int
        /\ \A e \in ss : [x \in ss |-> LogLossChange[x][v]][e] \in Int
    BY <1>2, PromotionAssumption
  <2>2. /\ SumFunctionOnSet([e \in ss |-> BrierChange[e][v]], ss) \in Int
        /\ SumFunctionOnSet([e \in ss |-> LogLossChange[e][v]], ss) \in Int
    BY <1>2, <2>1, SumIsInteger
  <2>3. QED
    BY <2>2 DEF SumFunction
<1>6. CalibrationChange[ss][v] \in Int
  BY <1>2, PromotionAssumption
<1>7. c = [rooms |-> Cardinality(ss), players |-> Cardinality(ss) * RoomSize[s],
           size |-> RoomSize[s], brier |-> SumFunction([e \in ss |-> BrierChange[e][v]]),
           logLoss |-> SumFunction([e \in ss |-> LogLossChange[e][v]]),
           calibration |-> CalibrationChange[ss][v], passed |-> FALSE]
  BY DEF Calibration
<1>8. c \in SegmentComparison /\ c.rooms >= 1
  BY <1>3, <1>4, <1>5, <1>6, <1>7 DEF SegmentComparison
<1>9. Compare(es, v).segments[s] = [c EXCEPT !.passed = Passes(c)]
  BY <1>1 DEF Compare, ss, InSegment
<1> HIDE DEF c
<1>10. Passes(c) \in BOOLEAN
  BY DEF Passes
<1>11. LET d == [c EXCEPT !.passed = Passes(c)]
       IN  /\ d \in SegmentComparison
           /\ d.rooms = c.rooms /\ d.players = c.players /\ d.brier = c.brier
           /\ d.logLoss = c.logLoss /\ d.calibration = c.calibration
           /\ d.passed = Passes(c)
  BY <1>8, <1>10 DEF SegmentComparison
<1>12. QED
  BY <1>8, <1>9, <1>11 DEF Passes

\* The segments of an edited report: some of the report's, all marked as passed.
Marked(segments, D) == [s \in D |-> [segments[s] EXCEPT !.passed = TRUE]]

\* A record with the fields of a ModelComparisonReport.
IsReport(r) ==
    r = [baseline |-> r.baseline, candidate |-> r.candidate,
         availableThrough |-> r.availableThrough, segments |-> r.segments,
         rooms |-> r.rooms, players |-> r.players, total |-> r.total,
         eligible |-> r.eligible, evidence |-> r.evidence]

\* The fields of a report that no edition touches.
SameFields(r, b) ==
    /\ r.candidate = b.candidate
    /\ r.baseline = b.baseline
    /\ r.availableThrough = b.availableThrough
    /\ r.evidence = b.evidence
    /\ r.rooms = b.rooms

LEMMA MarkedFields ==
    ASSUME NEW r, IsReport(r)
    PROVE  /\ SameFields(MarkedEligible(r), r)
           /\ MarkedEligible(r).segments = Marked(r.segments, DOMAIN r.segments)
<1> DEFINE g == [s \in DOMAIN r.segments |-> [r.segments[s] EXCEPT !.passed = TRUE]]
<1>1. MarkedEligible(r) = [r EXCEPT !.eligible = TRUE, !.segments = g]
  BY Zenon DEF MarkedEligible
<1>2. g = Marked(r.segments, DOMAIN r.segments)
  BY Zenon DEF Marked
<1> HIDE DEF g
<1>3. LET y == [r EXCEPT !.eligible = TRUE, !.segments = g]
      IN  SameFields(y, r) /\ y.segments = g
  BY Zenon DEF SameFields, IsReport
<1>4. QED
  BY <1>1, <1>2, <1>3, Zenon

LEMMA WithoutSegmentFields ==
    ASSUME NEW r, IsReport(r), NEW s
    PROVE  /\ IsReport(WithoutSegment(r, s))
           /\ SameFields(WithoutSegment(r, s), r)
           /\ WithoutSegment(r, s).segments = [t \in DOMAIN r.segments \ {s} |-> r.segments[t]]
<1> DEFINE g == [t \in DOMAIN r.segments \ {s} |-> r.segments[t]]
<1>1. WithoutSegment(r, s) = [r EXCEPT !.segments = g]
  BY Zenon DEF WithoutSegment
<1> HIDE DEF g
<1>2. [r EXCEPT !.segments = g] =
        [baseline |-> r.baseline, candidate |-> r.candidate,
         availableThrough |-> r.availableThrough, segments |-> g, rooms |-> r.rooms,
         players |-> r.players, total |-> r.total, eligible |-> r.eligible,
         evidence |-> r.evidence]
  BY DEF IsReport
<1>3. LET y == [r EXCEPT !.segments = g]
      IN  IsReport(y) /\ SameFields(y, r) /\ y.segments = g
  BY <1>2 DEF SameFields, IsReport
<1>4. QED
  BY <1>1, <1>3, Zenon DEF g

\* What the editions of a report have in common with it, and how they differ.
LEMMA EditionFields ==
    ASSUME NEW b, IsReport(b), NEW r \in Editions(b)
    PROVE  /\ SameFields(r, b)
           /\ \/ r = b
              \/ r.segments = Marked(b.segments, DOMAIN b.segments)
              \/ \E s \in DOMAIN b.segments :
                   r.segments = Marked(b.segments, DOMAIN b.segments \ {s})
<1>1. CASE r = b
  BY <1>1 DEF SameFields
<1>2. CASE r = MarkedEligible(b)
  BY <1>2, MarkedFields
<1>3. ASSUME NEW s \in Segments, r = MarkedEligible(WithoutSegment(b, s))
      PROVE  /\ SameFields(r, b)
             /\ r.segments = Marked(b.segments, DOMAIN b.segments \ {s})
  <2> DEFINE w == WithoutSegment(b, s)
  <2>1. /\ IsReport(w) /\ SameFields(w, b)
        /\ w.segments = [t \in DOMAIN b.segments \ {s} |-> b.segments[t]]
    BY WithoutSegmentFields
  <2>2. SameFields(r, w) /\ r.segments = Marked(w.segments, DOMAIN w.segments)
    BY <1>3, <2>1, MarkedFields
  <2>3. Marked(w.segments, DOMAIN w.segments) = Marked(b.segments, DOMAIN b.segments \ {s})
    BY <2>1 DEF Marked
  <2>4. QED
    BY <2>1, <2>2, <2>3 DEF SameFields
<1>4. ASSUME NEW s \in Segments, s \notin DOMAIN b.segments
      PROVE  DOMAIN b.segments \ {s} = DOMAIN b.segments
  BY <1>4
<1>5. QED
  BY <1>1, <1>2, <1>3, <1>4 DEF Editions

LEMMA ComparisonIsReport ==
    ASSUME NEW es, NEW v
    PROVE  /\ IsReport(Compare(es, v))
           /\ Compare(es, v).candidate = v
           /\ Compare(es, v).baseline = model[v].baseline
           /\ Compare(es, v).evidence = es
           /\ Compare(es, v).rooms = TotalRooms(Compare(es, v).segments)
           /\ Compare(es, v).eligible <=>
                /\ \A s \in DOMAIN Compare(es, v).segments : Compare(es, v).segments[s].passed
                /\ Improves(Compare(es, v).segments)
  BY DEF Compare, IsReport

\* Marking a segment as passed changes nothing that the totals or Passes look at.
LEMMA MarkedSegment ==
    ASSUME NEW c \in SegmentComparison
    PROVE  LET d == [c EXCEPT !.passed = TRUE]
           IN  d.rooms = c.rooms /\ d.players = c.players /\ d.brier = c.brier
                 /\ (Passes(d) <=> Passes(c))
<1>1. LET d == [c EXCEPT !.passed = TRUE]
      IN  d.rooms = c.rooms /\ d.players = c.players /\ d.brier = c.brier
            /\ d.logLoss = c.logLoss /\ d.calibration = c.calibration
  BY DEF SegmentComparison
<1>2. QED
  BY <1>1 DEF Passes

\* The totals of a report in which all segments are kept do not change, and those of one
\* in which a segment is left out do.
LEMMA MarkedTotals ==
    ASSUME NEW segments, IsFiniteSet(DOMAIN segments),
           \A s \in DOMAIN segments : segments[s] \in SegmentComparison
    PROVE  /\ LET all == Marked(segments, DOMAIN segments)
              IN  Improves(all) <=> Improves(segments)
           /\ \A s \in DOMAIN segments : segments[s].rooms >= 1 =>
                TotalRooms(Marked(segments, DOMAIN segments \ {s})) # TotalRooms(segments)
<1> DEFINE D == DOMAIN segments
           all == Marked(segments, D)
<1>1. ASSUME NEW s \in D
      PROVE  all[s].players = segments[s].players /\ all[s].brier = segments[s].brier
  BY MarkedSegment DEF Marked
<1>2. Improves(all) <=> Improves(segments)
  <2>1. DOMAIN all = D
    BY DEF Marked
  <2> HIDE DEF all
  <2>2. /\ [s \in DOMAIN all |-> all[s].players] = [s \in D |-> segments[s].players]
        /\ [s \in DOMAIN all |-> all[s].brier] = [s \in D |-> segments[s].brier]
    BY <1>1, <2>1
  <2>3. TotalPlayers(all) = TotalPlayers(segments) /\ Total(all).brier = Total(segments).brier
    BY <2>2 DEF TotalPlayers, Total
  <2>4. QED
    BY <2>3 DEF Improves
<1>3. ASSUME NEW s \in D, segments[s].rooms >= 1
      PROVE  TotalRooms(Marked(segments, D \ {s})) # TotalRooms(segments)
  <2> DEFINE E == D \ {s}
             part == Marked(segments, E)
             f == [t \in D |-> segments[t].rooms]
             h == [t \in DOMAIN part |-> part[t].rooms]
  <2>1. DOMAIN part = E /\ \A t \in E : part[t].rooms = segments[t].rooms
    BY MarkedSegment DEF Marked
  <2>2. IsFiniteSet(E)
    BY FS_RemoveElement
  <2>3. \A t \in D : f[t] \in Int
    BY DEF SegmentComparison
  <2>4. SumFunctionOnSet(f, D) = f[s] + SumFunctionOnSet(f, E)
    <3> HIDE DEF f
    <3>1. QED
      BY <2>3, SumWithout
  <2>5. \A t \in E : h[t] = f[t]
    BY <2>1
  <2>6. SumFunctionOnSet(h, E) = SumFunctionOnSet(f, E)
    <3> HIDE DEF f, h, E
    <3>1. QED
      BY <2>2, <2>5, SumCongruence
  <2>7. SumFunctionOnSet(f, E) \in Int
    <3>1. \A t \in E : f[t] \in Int
      BY <2>3
    <3> HIDE DEF f, E
    <3>2. QED
      BY <2>2, <3>1, SumIsInteger
  <2>8. TotalRooms(segments) = SumFunctionOnSet(f, D)
    BY DEF TotalRooms, SumFunction
  <2>9. TotalRooms(part) = SumFunctionOnSet(h, E)
    BY <2>1 DEF TotalRooms, SumFunction
  <2>10. f[s] \in Int /\ f[s] >= 1
    BY <1>3, <2>3
  <2> HIDE DEF f, h, E, part
  <2>11. TotalRooms(part) # TotalRooms(segments)
    BY <2>4, <2>6, <2>7, <2>8, <2>9, <2>10
  <2>12. QED
    BY <2>11 DEF part, E
<1>4. QED
  BY <1>2, <1>3

\* Whatever edition of a comparison ValidateForActivation accepts, the comparison itself
\* makes the candidate eligible.
LEMMA ValidatedIsEligible ==
    ASSUME NEW es \in SUBSET Events, IsFiniteSet(es), NEW v \in Versions,
           NEW r \in Editions(Compare(es, v)), ValidateForActivation(r)
    PROVE  Compare(es, v).eligible
<1> DEFINE b == Compare(es, v)
           D == DOMAIN b.segments
<1>1. /\ IsReport(b) /\ b.rooms = TotalRooms(b.segments)
      /\ b.eligible <=> /\ \A s \in D : b.segments[s].passed
                        /\ Improves(b.segments)
  BY ComparisonIsReport
<1>2. /\ IsFiniteSet(D)
      /\ \A s \in D : /\ b.segments[s] \in SegmentComparison
                      /\ b.segments[s].rooms >= 1
                      /\ b.segments[s].passed = Passes(b.segments[s])
  BY SegmentsOfComparison, SegmentOfComparison
<1> HIDE DEF b
<1>3. /\ SameFields(r, b)
      /\ \/ r = b
         \/ r.segments = Marked(b.segments, D)
         \/ \E s \in D : r.segments = Marked(b.segments, D \ {s})
  BY <1>1, EditionFields DEF b
<1>4. CASE r = b
  BY <1>4 DEF ValidateForActivation, b
<1>5. CASE r.segments = Marked(b.segments, D)
  <2>1. Improves(b.segments)
    BY <1>2, <1>5, MarkedTotals DEF ValidateForActivation
  <2>2. ASSUME NEW s \in D
        PROVE  b.segments[s].passed
    <3>1. s \in DOMAIN r.segments /\ r.segments[s] = [b.segments[s] EXCEPT !.passed = TRUE]
      BY <1>5 DEF Marked
    <3>2. Passes(r.segments[s])
      BY <3>1 DEF ValidateForActivation
    <3>3. Passes(b.segments[s])
      <4> DEFINE c == b.segments[s]
      <4>1. c \in SegmentComparison
        BY <1>2
      <4>2. Passes([c EXCEPT !.passed = TRUE])
        BY <3>1, <3>2, Zenon
      <4> HIDE DEF c
      <4>3. Passes(c)
        BY <4>1, <4>2, MarkedSegment
      <4>4. QED
        BY <4>3 DEF c
    <3>4. QED
      BY <1>2, <3>3
  <2>3. QED
    BY <1>1, <2>1, <2>2 DEF b
<1>6. ASSUME NEW s \in D, r.segments = Marked(b.segments, D \ {s})
      PROVE  FALSE
  <2>1. r.rooms = TotalRooms(b.segments)
    BY <1>1, <1>3 DEF SameFields
  <2>2. r.rooms = TotalRooms(r.segments)
    BY DEF ValidateForActivation
  <2>3. QED
    BY <1>2, <1>6, <2>1, <2>2, MarkedTotals
<1>7. QED
  BY <1>3, <1>4, <1>5, <1>6 DEF b

-----------------------------------------------------------------------------
(***************************************************************************)
(* The inductive invariant.                                                *)
(***************************************************************************)

\* The tables, without the commands; only finitely many results are ever stored.
TablesOK ==
    /\ clock \in Nat
    /\ stored \in SUBSET Events
    /\ IsFiniteSet(stored)
    /\ scored \in [Events -> Versions \cup {NoVersion}]
    /\ model \in [Versions -> Model]
    /\ deployment \in ModelDeployment
    /\ deployment.rollback # deployment.active
    /\ audit \in Seq(ModelTransition)
    /\ hand = [o \in Operators |-> hand[o]]

\* An observation is of a stored result, for a version that is or was a shadow
\* candidate: its baseline is decided.
ScoresAreSettled ==
    \A e \in Events : scored[e] # NoVersion =>
        e \in stored /\ model[scored[e]].stage \in {"shadow", "ended"}

\* A model is trained only on results available by its cutoff.
TrainedByCutoff ==
    \A v \in Versions : \A e \in model[v].trainedOn : AvailableAt[e] <= Cutoff[v]

\* The results behind a decision about v are observations of v in its holdout.
HoldoutEvidence(es, v) ==
    /\ v \in Versions
    /\ es \in SUBSET Events
    /\ es # {}
    /\ \A e \in es : scored[e] = v /\ InHoldout(e, v)

\* A prepared command was prepared at the revision it expects, after the transitions that
\* revision counts; the report of an activation is an edition of a comparison.
CommandIsSound(c) ==
    /\ c.kind \in {"none", "activation", "rollback"}
    /\ c.expected \in 0 .. MaxRevision
    /\ c.seen \in 0 .. Len(audit)
    /\ c.kind # "none" => c.expected = c.seen + 1
    /\ c.kind # "activation" => c.report = NoReport
    /\ c.kind = "activation" =>
         /\ HoldoutEvidence(c.report.evidence, c.report.candidate)
         /\ c.report \in Editions(Compare(c.report.evidence, c.report.candidate))

CommandsAreSound == \A o \in Operators : CommandIsSound(hand[o])

\* The results behind an activation in the audit.
ActivationsAreEvidenced ==
    \A i \in Activations : HoldoutEvidence(audit[i].evidence, audit[i].to)

\* The deployment continues the last transition; its rollback target is what the last
\* transition replaced, if that was an activation.
DeploymentFollows ==
    LET n == Len(audit)
    IN  /\ n > 0 => audit[n].changedAt = deployment.changedAt
        /\ deployment.rollback # NoVersion =>
             n > 0 /\ audit[n].kind = "activation" /\ audit[n].from = deployment.rollback

PromotionInvariant ==
    /\ TablesOK
    /\ ScoresAreSettled
    /\ TrainedByCutoff
    /\ CommandsAreSound
    /\ ActivationsAreEvidenced
    /\ ActivationIsEarned
    /\ AuditIsAChain
    /\ DeploymentFollows
    /\ RollbackUndoesActivation

-----------------------------------------------------------------------------
(***************************************************************************)
(* Evidence stands.                                                        *)
(***************************************************************************)

\* An observation is never overwritten, and the version it is of keeps its baseline.
LEMMA ScoresStand ==
    ASSUME PromotionInvariant, [Next]_vars
    PROVE  /\ \A e \in Events : scored[e] # NoVersion =>
                /\ scored'[e] = scored[e]
                /\ model'[scored[e]].baseline = model[scored[e]].baseline
                /\ model'[scored[e]].stage \in {"shadow", "ended"}
           /\ stored \subseteq stored'
<1> SUFFICES ASSUME NEW e \in Events, scored[e] # NoVersion
             PROVE  /\ scored'[e] = scored[e]
                    /\ model'[scored[e]].baseline = model[scored[e]].baseline
                    /\ model'[scored[e]].stage \in {"shadow", "ended"}
  <2>1. stored \subseteq stored'
    BY DEF Next, vars, Train, StartShadow, EndShadow, StoreResult, Score, PrepareActivation,
           PrepareRollback, ActivateModel, RollbackModel, Changes, Refused, Tick
  <2>2. QED
    BY <2>1
<1>0. /\ scored \in [Events -> Versions \cup {NoVersion}] /\ model \in [Versions -> Model]
      /\ scored[e] \in Versions
      /\ model[scored[e]].stage \in {"shadow", "ended"}
  BY DEF PromotionInvariant, TablesOK, ScoresAreSettled
<1>1. ASSUME NEW v \in Versions, Train(v) \/ StartShadow(v) \/ EndShadow(v)
      PROVE  /\ scored'[e] = scored[e]
             /\ model'[scored[e]].baseline = model[scored[e]].baseline
             /\ model'[scored[e]].stage \in {"shadow", "ended"}
  <2>1. scored' = scored
    BY <1>1 DEF Train, StartShadow, EndShadow
  <2>2. CASE v # scored[e]
    BY <1>0, <1>1, <2>1, <2>2 DEF Train, StartShadow, EndShadow
  <2>3. CASE v = scored[e]
    <3>1. EndShadow(v)
      BY <1>0, <1>1, <2>3 DEF Train, StartShadow
    <3>2. model'[v] = [model[v] EXCEPT !.stage = "ended", !.endedAt = clock]
      BY <1>0, <3>1, Zenon DEF EndShadow
    <3>3. model'[v].stage = "ended" /\ model'[v].baseline = model[v].baseline
      <4>1. model[v] \in Model
        BY <1>0
      <4>2. QED
        BY <3>2, <4>1, Zenon DEF Model
    <3>4. QED
      BY <2>1, <2>3, <3>3
  <2>4. QED
    BY <2>2, <2>3
<1>2. ASSUME NEW v \in Versions, NEW d \in Events, Score(v, d)
      PROVE  scored'[e] = scored[e] /\ model' = model
  BY <1>0, <1>2 DEF Score
<1>3. CASE UNCHANGED <<scored, model>>
  BY <1>0, <1>3
<1>4. QED
  BY <1>0, <1>1, <1>2, <1>3
  DEF Next, vars, StoreResult, PrepareActivation, PrepareRollback, ActivateModel,
      RollbackModel, Changes, Refused, Tick

\* What the results behind a decision say does not change any more.
LEMMA EvidenceStands ==
    ASSUME PromotionInvariant, [Next]_vars, NEW es, NEW v, HoldoutEvidence(es, v)
    PROVE  /\ HoldoutEvidence(es, v)'
           /\ Compare(es, v)' = Compare(es, v)
           /\ IsFiniteSet(es)
<1>1. PICK e \in es : e \in Events /\ scored[e] = v
  BY DEF HoldoutEvidence
<1>2. v \in Versions /\ v # NoVersion
  BY PromotionAssumption DEF HoldoutEvidence
<1>3. model'[v].baseline = model[v].baseline
  BY <1>1, <1>2, ScoresStand
<1>4. HoldoutEvidence(es, v)'
  <2>1. es \in SUBSET Events /\ es # {} /\ \A d \in es : scored[d] = v /\ InHoldout(d, v)
    BY DEF HoldoutEvidence
  <2>2. \A d \in es : scored'[d] = v
    BY <1>2, <2>1, ScoresStand
  <2>3. QED
    BY <1>2, <2>1, <2>2 DEF HoldoutEvidence, InHoldout
<1>5. Compare(es, v)' = Compare(es, v)
  BY <1>3 DEF Compare
<1>6. es \in SUBSET stored
  BY <1>2 DEF HoldoutEvidence, PromotionInvariant, ScoresAreSettled
<1>7. IsFiniteSet(es)
  BY <1>6, FS_Subset DEF PromotionInvariant, TablesOK
<1>8. QED
  BY <1>4, <1>5, <1>7

-----------------------------------------------------------------------------
(***************************************************************************)
(* ActivateModel and RollbackModel.                                        *)
(***************************************************************************)

\* Below its largest value a revision is followed by the next number.
LEMMA IncrementIsSuccessor ==
    ASSUME NEW n \in Nat, n < MaxRevision
    PROVE  Increment(n) = n + 1
<1>1. \A k, m \in Nat : k < m => k % m = k
  OBVIOUS
<1>2. n + 1 \in Nat /\ MaxRevision + 1 \in Nat /\ n + 1 < MaxRevision + 1
  BY PromotionAssumption
<1>3. QED
  BY <1>1, <1>2 DEF Increment

\* The transition that a change appends, with everything the invariant needs of it.
ChangeMade(o, t) ==
    /\ t \in ModelTransition
    /\ audit' = Append(audit, t)
    /\ t.from = deployment.active /\ t.to = deployment'.active
    /\ t.seen = Len(audit)
    /\ deployment.revision < MaxRevision
    /\ t.revision = deployment.revision + 1 /\ deployment'.revision = deployment.revision + 1
    /\ t.changedAt = clock /\ deployment'.changedAt = clock /\ clock > deployment.changedAt
    /\ deployment' \in ModelDeployment /\ deployment'.rollback # deployment'.active
    /\ hand' = [hand EXCEPT ![o] = NoCommand]
    /\ UNCHANGED <<clock, stored, scored, model>>

\* An activation switches to a candidate whose evidence makes it eligible against the
\* version it replaces, which becomes the rollback target.
LEMMA ActivateMakes ==
    ASSUME PromotionInvariant, NEW o \in Operators, ActivateModel(o)
    PROVE  \E t : /\ ChangeMade(o, t)
                  /\ t.kind = "activation"
                  /\ deployment'.rollback = deployment.active
                  /\ HoldoutEvidence(t.evidence, t.to)
                  /\ Compare(t.evidence, t.to).eligible
                  /\ Compare(t.evidence, t.to).baseline = t.from
                  /\ Compare(t.evidence, t.to).availableThrough <= t.changedAt
<1> DEFINE c == hand[o]
           v == c.report.candidate
           es == c.report.evidence
           next == AfterActivation(v, clock)
           t == [kind |-> "activation", from |-> deployment.active, to |-> next.active,
                 revision |-> next.revision, changedAt |-> next.changedAt, seen |-> c.seen,
                 evidence |-> es]
<1>1. ActivationAllowed(c) /\ Changes(o, "activation", next)
  BY DEF ActivateModel
<1>2. c.kind = "activation" /\ c.expected = deployment.revision
        /\ deployment.revision < MaxRevision /\ clock > deployment.changedAt
        /\ ValidateForActivation(c.report) /\ c.report.baseline = deployment.active
        /\ v # deployment.active /\ c.report.availableThrough <= clock
  BY <1>1 DEF ActivationAllowed, ValidChange
<1>3. /\ c.seen \in 0 .. Len(audit) /\ c.expected = c.seen + 1
      /\ HoldoutEvidence(es, v) /\ c.report \in Editions(Compare(es, v))
  BY <1>2 DEF PromotionInvariant, CommandsAreSound, CommandIsSound
<1>4. /\ deployment \in ModelDeployment /\ clock \in Nat /\ audit \in Seq(ModelTransition)
      /\ deployment.revision = Len(audit) + 1 /\ Len(audit) \in Nat
  BY DEF PromotionInvariant, TablesOK, AuditIsAChain
<1>5. deployment.revision \in Nat /\ Increment(deployment.revision) = deployment.revision + 1
  BY <1>2, <1>4, IncrementIsSuccessor DEF ModelDeployment
<1>6. next = [active |-> v, rollback |-> deployment.active,
              revision |-> deployment.revision + 1, changedAt |-> clock]
  BY <1>5 DEF AfterActivation
<1>7. v \in Versions /\ es \in SUBSET Events /\ deployment.active \in Versions
        /\ deployment.revision + 1 \in 1 .. MaxRevision
  <2>1. v \in Versions /\ es \in SUBSET Events
    BY <1>3, Zenon DEF HoldoutEvidence
  <2>2. deployment.active \in Versions /\ deployment.revision + 1 \in 1 .. MaxRevision
    BY <1>2, <1>4, PromotionAssumption DEF ModelDeployment
  <2>3. QED
    BY <2>1, <2>2
<1>8. next \in ModelDeployment /\ next.rollback # next.active
  BY <1>2, <1>4, <1>6, <1>7 DEF ModelDeployment
<1>9. c.seen = Len(audit)
  <2>1. c.seen \in 0 .. Len(audit)
    BY <1>3, Zenon
  <2>2. c.expected = c.seen + 1 /\ c.expected = deployment.revision
    BY <1>2, <1>3, Zenon
  <2> HIDE DEF c
  <2>3. QED
    BY <1>4, <2>1, <2>2
<1>10. /\ deployment' = next /\ audit' = Append(audit, t)
       /\ hand' = [hand EXCEPT ![o] = NoCommand]
       /\ UNCHANGED <<clock, stored, scored, model>>
  BY <1>1, Zenon DEF Changes
<1>11. t = [kind |-> "activation", from |-> deployment.active, to |-> v,
            revision |-> deployment.revision + 1, changedAt |-> clock, seen |-> Len(audit),
            evidence |-> es]
  BY <1>6, <1>9
<1>12. t \in ModelTransition
  BY <1>4, <1>7, <1>11 DEF ModelTransition
<1>13. IsFiniteSet(es) /\ es \in SUBSET Events
  <2>1. es \in SUBSET stored
    BY <1>3, PromotionAssumption DEF HoldoutEvidence, PromotionInvariant, ScoresAreSettled
  <2>2. QED
    BY <1>7, <2>1, FS_Subset DEF PromotionInvariant, TablesOK
<1>14. Compare(es, v).eligible
  BY <1>2, <1>3, <1>7, <1>13, ValidatedIsEligible
<1>15. SameFields(c.report, Compare(es, v))
  BY <1>3, ComparisonIsReport, EditionFields
<1>16. /\ Compare(es, v).baseline = deployment.active
       /\ Compare(es, v).availableThrough <= clock
  BY <1>2, <1>15 DEF SameFields
<1> HIDE DEF c, v, es, next, t
<1>17. ChangeMade(o, t)
  BY <1>2, <1>6, <1>8, <1>10, <1>11, <1>12 DEF ChangeMade
<1>18. /\ t.kind = "activation" /\ deployment'.rollback = deployment.active
       /\ t.evidence = es /\ t.to = v /\ t.from = deployment.active /\ t.changedAt = clock
  BY <1>6, <1>10, <1>11
<1>19. QED
  BY <1>3, <1>14, <1>16, <1>17, <1>18

\* A rollback goes back to what the last activation replaced, and leaves no target.
LEMMA RollbackMakes ==
    ASSUME PromotionInvariant, NEW o \in Operators, RollbackModel(o)
    PROVE  \E t : /\ ChangeMade(o, t)
                  /\ t.kind = "rollback"
                  /\ deployment'.rollback = NoVersion
                  /\ deployment.rollback # NoVersion
                  /\ t.to = deployment.rollback
<1> DEFINE c == hand[o]
           next == AfterRollback(clock)
           t == [kind |-> "rollback", from |-> deployment.active, to |-> next.active,
                 revision |-> next.revision, changedAt |-> next.changedAt, seen |-> c.seen,
                 evidence |-> c.report.evidence]
<1>1. RollbackAllowed(c) /\ Changes(o, "rollback", next)
  BY DEF RollbackModel
<1>2. c.kind = "rollback" /\ c.expected = deployment.revision
        /\ deployment.revision < MaxRevision /\ clock > deployment.changedAt
        /\ deployment.rollback # NoVersion
  BY <1>1 DEF RollbackAllowed, ValidChange
<1>3. /\ c.seen \in 0 .. Len(audit) /\ c.expected = c.seen + 1 /\ c.report = NoReport
  BY <1>2 DEF PromotionInvariant, CommandsAreSound, CommandIsSound
<1>4. /\ deployment \in ModelDeployment /\ clock \in Nat /\ audit \in Seq(ModelTransition)
      /\ deployment.revision = Len(audit) + 1 /\ Len(audit) \in Nat
  BY DEF PromotionInvariant, TablesOK, AuditIsAChain
<1>5. deployment.revision \in Nat /\ Increment(deployment.revision) = deployment.revision + 1
  BY <1>2, <1>4, IncrementIsSuccessor DEF ModelDeployment
<1>6. next = [active |-> deployment.rollback, rollback |-> NoVersion,
              revision |-> deployment.revision + 1, changedAt |-> clock]
  BY <1>5 DEF AfterRollback
<1>7. deployment.rollback \in Versions /\ deployment.active \in Versions
        /\ deployment.revision + 1 \in 1 .. MaxRevision
  BY <1>2, <1>4, PromotionAssumption DEF ModelDeployment
<1>8. next \in ModelDeployment /\ next.rollback # next.active
  BY <1>2, <1>4, <1>6, <1>7 DEF ModelDeployment
<1>9. c.seen = Len(audit)
  <2>1. c.seen \in 0 .. Len(audit)
    BY <1>3, Zenon
  <2>2. c.expected = c.seen + 1 /\ c.expected = deployment.revision
    BY <1>2, <1>3, Zenon
  <2> HIDE DEF c
  <2>3. QED
    BY <1>4, <2>1, <2>2
<1>10. /\ deployment' = next /\ audit' = Append(audit, t)
       /\ hand' = [hand EXCEPT ![o] = NoCommand]
       /\ UNCHANGED <<clock, stored, scored, model>>
  BY <1>1, Zenon DEF Changes
<1>11. t = [kind |-> "rollback", from |-> deployment.active, to |-> deployment.rollback,
            revision |-> deployment.revision + 1, changedAt |-> clock, seen |-> Len(audit),
            evidence |-> {}]
  BY <1>3, <1>6, <1>9 DEF NoReport
<1>12. t \in ModelTransition
  BY <1>4, <1>7, <1>11 DEF ModelTransition
<1> HIDE DEF c, next, t
<1>13. ChangeMade(o, t)
  BY <1>2, <1>6, <1>8, <1>10, <1>11, <1>12 DEF ChangeMade
<1>14. t.kind = "rollback" /\ deployment'.rollback = NoVersion /\ t.to = deployment.rollback
  BY <1>6, <1>10, <1>11
<1>15. QED
  BY <1>2, <1>13, <1>14

-----------------------------------------------------------------------------
(***************************************************************************)
(* Every step keeps every part of the invariant.                           *)
(***************************************************************************)

\* The steps of a model keep its row a row.
LEMMA ModelRowType ==
    ASSUME NEW m \in Model, NEW es \in SUBSET Events, NEW v \in Versions, NEW at \in Nat
    PROVE  /\ [m EXCEPT !.stage = "trained", !.trainedOn = es] \in Model
           /\ [m EXCEPT !.stage = "shadow", !.activatedAt = at, !.baseline = v] \in Model
           /\ [m EXCEPT !.stage = "ended", !.endedAt = at] \in Model
  BY Zenon DEF Model

LEMMA TablesStep ==
    ASSUME PromotionInvariant, [Next]_vars
    PROVE  TablesOK'
<1> TablesOK
  BY DEF PromotionInvariant
<1>1. ASSUME NEW v \in Versions, Train(v) \/ StartShadow(v) \/ EndShadow(v)
      PROVE  TablesOK'
  <2>0. model[v] \in Model /\ clock \in Nat /\ deployment.active \in Versions
          /\ TrainingSet(v) \in SUBSET Events
    BY DEF TablesOK, ModelDeployment, TrainingSet
  <2>1. CASE Train(v)
    <3>1. model' = [model EXCEPT ![v] =
                      [model[v] EXCEPT !.stage = "trained", !.trainedOn = TrainingSet(v)]]
      BY <2>1, Zenon DEF Train, TablesOK
    <3>2. model' \in [Versions -> Model]
      BY <2>0, <3>1, ModelRowType DEF TablesOK
    <3>3. QED
      BY <2>1, <3>2 DEF Train, TablesOK
  <2>2. CASE StartShadow(v)
    <3>1. model' = [model EXCEPT ![v] =
                      [model[v] EXCEPT !.stage = "shadow", !.activatedAt = clock,
                                       !.baseline = deployment.active]]
      BY <2>2, Zenon DEF StartShadow, TablesOK
    <3>2. model' \in [Versions -> Model]
      BY <2>0, <3>1, ModelRowType DEF TablesOK
    <3>3. QED
      BY <2>2, <3>2 DEF StartShadow, TablesOK
  <2>3. CASE EndShadow(v)
    <3>1. model' = [model EXCEPT ![v] =
                      [model[v] EXCEPT !.stage = "ended", !.endedAt = clock]]
      BY <2>3, Zenon DEF EndShadow, TablesOK
    <3>2. model' \in [Versions -> Model]
      BY <2>0, <3>1, ModelRowType DEF TablesOK
    <3>3. QED
      BY <2>3, <3>2 DEF EndShadow, TablesOK
  <2>4. QED
    BY <1>1, <2>1, <2>2, <2>3
<1>2. ASSUME NEW e \in Events, StoreResult(e)
      PROVE  TablesOK'
  BY <1>2, FS_AddElement DEF StoreResult, TablesOK
<1>3. ASSUME NEW v \in Versions, NEW e \in Events, Score(v, e)
      PROVE  TablesOK'
  BY <1>3 DEF Score, TablesOK
<1>4. ASSUME NEW o \in Operators, NEW c, hand' = [hand EXCEPT ![o] = c]
      PROVE  /\ hand' = [p \in Operators |-> hand'[p]]
             /\ hand'[o] = c
             /\ \A p \in Operators \ {o} : hand'[p] = hand[p]
  BY <1>4 DEF TablesOK
<1>5. ASSUME NEW o \in Operators, NEW v \in Versions, PrepareActivation(o, v)
      PROVE  TablesOK'
  BY <1>4, <1>5 DEF PrepareActivation, TablesOK
<1>6. ASSUME NEW o \in Operators, PrepareRollback(o) \/ Refused(o)
      PROVE  TablesOK'
  BY <1>4, <1>6 DEF PrepareRollback, Refused, TablesOK
<1>7. ASSUME NEW o \in Operators, ActivateModel(o) \/ RollbackModel(o)
      PROVE  TablesOK'
  <2>1. PICK t : ChangeMade(o, t)
    BY <1>7, ActivateMakes, RollbackMakes
  <2>2. audit' \in Seq(ModelTransition)
    BY <2>1 DEF ChangeMade, TablesOK
  <2>3. QED
    BY <1>4, <2>1, <2>2 DEF ChangeMade, TablesOK
<1>8. CASE Tick
  BY <1>8 DEF Tick, TablesOK
<1>9. CASE UNCHANGED vars
  BY <1>9 DEF vars, TablesOK
<1>10. QED
  BY <1>1, <1>2, <1>3, <1>5, <1>6, <1>7, <1>8, <1>9 DEF Next

LEMMA ScoresStep ==
    ASSUME PromotionInvariant, [Next]_vars
    PROVE  ScoresAreSettled'
<1> SUFFICES ASSUME NEW e \in Events, scored'[e] # NoVersion
             PROVE  e \in stored' /\ model'[scored'[e]].stage \in {"shadow", "ended"}
  BY DEF ScoresAreSettled
<1>1. CASE scored[e] # NoVersion
  BY <1>1, ScoresStand DEF PromotionInvariant, ScoresAreSettled
<1>2. CASE scored[e] = NoVersion
  <2>1. PICK v \in Versions, d \in Events : Score(v, d)
    BY <1>2 DEF Next, vars, Train, StartShadow, EndShadow, StoreResult, PrepareActivation,
                PrepareRollback, ActivateModel, RollbackModel, Changes, Refused, Tick
  <2>2. d = e /\ scored'[e] = v
    BY <1>2, <2>1 DEF Score, PromotionInvariant, TablesOK
  <2>3. QED
    BY <2>1, <2>2 DEF Score, Predicts
<1>3. QED
  BY <1>1, <1>2

LEMMA TrainedStep ==
    ASSUME PromotionInvariant, [Next]_vars
    PROVE  TrainedByCutoff'
<1> SUFFICES ASSUME NEW u \in Versions, NEW e \in model'[u].trainedOn
             PROVE  AvailableAt[e] <= Cutoff[u]
  BY DEF TrainedByCutoff
<1>0. model \in [Versions -> Model] /\ \A d \in model[u].trainedOn : AvailableAt[d] <= Cutoff[u]
  BY DEF PromotionInvariant, TablesOK, TrainedByCutoff
<1>1. ASSUME NEW v \in Versions, Train(v)
      PROVE  AvailableAt[e] <= Cutoff[u]
  <2>1. CASE u # v
    BY <1>0, <1>1, <2>1 DEF Train
  <2>2. CASE u = v
    <3>1. model'[v] = [model[v] EXCEPT !.stage = "trained", !.trainedOn = TrainingSet(v)]
      BY <1>0, <1>1, Zenon DEF Train
    <3>2. model[v] \in Model
      BY <1>0
    <3>3. model'[v].trainedOn = TrainingSet(v)
      BY <3>1, <3>2, Zenon DEF Model
    <3>4. QED
      BY <2>2, <3>3 DEF TrainingSet
  <2>3. QED
    BY <2>1, <2>2
<1>2. ASSUME NEW v \in Versions, StartShadow(v) \/ EndShadow(v)
      PROVE  model'[u].trainedOn = model[u].trainedOn
  <2>1. CASE u # v
    BY <1>0, <1>2, <2>1 DEF StartShadow, EndShadow
  <2>2. CASE u = v
    <3>1. model[v] \in Model
      BY <1>0
    <3>2. \/ model'[v] = [model[v] EXCEPT !.stage = "shadow", !.activatedAt = clock,
                                          !.baseline = deployment.active]
          \/ model'[v] = [model[v] EXCEPT !.stage = "ended", !.endedAt = clock]
      BY <1>0, <1>2, Zenon DEF StartShadow, EndShadow
    <3>3. QED
      BY <2>2, <3>1, <3>2, Zenon DEF Model
  <2>3. QED
    BY <2>1, <2>2
<1>3. CASE UNCHANGED model
  BY <1>0, <1>3
<1>4. QED
  BY <1>0, <1>1, <1>2, <1>3
  DEF Next, vars, StoreResult, Score, PrepareActivation, PrepareRollback, ActivateModel,
      RollbackModel, Changes, Refused, Tick

\* The audit only grows.
LEMMA AuditGrows ==
    ASSUME PromotionInvariant, [Next]_vars
    PROVE  \/ UNCHANGED <<deployment, audit>>
           \/ \E o \in Operators : ActivateModel(o) \/ RollbackModel(o)
  BY DEF Next, vars, Train, StartShadow, EndShadow, StoreResult, Score, PrepareActivation,
         PrepareRollback, Refused, Tick

\* The audit after a change: the old transitions and the new one.
LEMMA AuditAfter ==
    ASSUME PromotionInvariant, NEW o, NEW t, ChangeMade(o, t)
    PROVE  /\ Len(audit) \in Nat /\ Len(audit') = Len(audit) + 1
           /\ DOMAIN audit = 1 .. Len(audit) /\ DOMAIN audit' = 1 .. Len(audit) + 1
           /\ \A i \in 1 .. Len(audit) : audit'[i] = audit[i]
           /\ audit'[Len(audit) + 1] = t
<1>1. audit \in Seq(ModelTransition) /\ t \in ModelTransition /\ audit' = Append(audit, t)
  BY DEF PromotionInvariant, TablesOK, ChangeMade
<1>2. QED
  BY <1>1

\* A report that was built from evidence that stands is still an edition of the comparison.
LEMMA EditionsStand ==
    ASSUME PromotionInvariant, [Next]_vars, NEW es, NEW v, HoldoutEvidence(es, v),
           NEW r \in Editions(Compare(es, v))
    PROVE  (r \in Editions(Compare(es, v)))'
<1>1. Compare(es, v)' = Compare(es, v)
  BY EvidenceStands
<1>2. ASSUME NEW b, NEW c, b = c, r \in Editions(b)
      PROVE  r \in Editions(c)
  BY <1>2, Zenon
<1>3. r \in Editions(Compare(es, v)')
  BY <1>1, <1>2
<1>4. QED
  BY <1>3, Zenon

LEMMA CommandsStep ==
    ASSUME PromotionInvariant, [Next]_vars
    PROVE  CommandsAreSound'
<1> SUFFICES ASSUME NEW p \in Operators
             PROVE  CommandIsSound(hand[p])'
  BY DEF CommandsAreSound
<1>0. /\ hand = [o \in Operators |-> hand[o]] /\ CommandIsSound(hand[p])
      /\ deployment \in ModelDeployment /\ audit \in Seq(ModelTransition)
      /\ deployment.revision = Len(audit) + 1
      /\ scored \in [Events -> Versions \cup {NoVersion}]
  BY DEF PromotionInvariant, TablesOK, CommandsAreSound, AuditIsAChain
<1>1. Len(audit) \in Nat /\ Len(audit') \in Nat /\ Len(audit) <= Len(audit')
  <2>1. CASE UNCHANGED audit
    BY <1>0, <2>1
  <2>2. ASSUME NEW o \in Operators, ActivateModel(o) \/ RollbackModel(o)
        PROVE  Len(audit) \in Nat /\ Len(audit') \in Nat /\ Len(audit) <= Len(audit')
    <3>1. PICK t : ChangeMade(o, t)
      BY <2>2, ActivateMakes, RollbackMakes
    <3>2. QED
      BY <3>1, AuditAfter
  <2>3. QED
    BY <2>1, <2>2, AuditGrows
<1>2. CASE hand'[p] = hand[p]
  <2> DEFINE c == hand[p]
  <2>1. c.seen \in 0 .. Len(audit')
    BY <1>0, <1>1 DEF CommandIsSound
  <2>2. ASSUME c.kind = "activation"
        PROVE  /\ HoldoutEvidence(c.report.evidence, c.report.candidate)'
               /\ c.report \in Editions(Compare(c.report.evidence, c.report.candidate))'
    <3> DEFINE es == c.report.evidence
               v == c.report.candidate
    <3>1. HoldoutEvidence(es, v) /\ c.report \in Editions(Compare(es, v))
      BY <1>0, <2>2 DEF CommandIsSound
    <3> DEFINE rep == c.report
    <3>2. ASSUME NEW ds, NEW u, HoldoutEvidence(ds, u), NEW x \in Editions(Compare(ds, u))
          PROVE  HoldoutEvidence(ds, u)' /\ x \in Editions(Compare(ds, u))'
      BY <3>2, EvidenceStands, EditionsStand
    <3>3. QED
      BY <1>2, <3>1, <3>2
  <2>3. QED
    BY <1>0, <1>2, <2>1, <2>2, Zenon DEF CommandIsSound
<1>3. CASE hand'[p] = NoCommand
  BY <1>1, <1>3, PromotionAssumption DEF NoCommand, CommandIsSound
<1>4. ASSUME NEW o \in Operators, NEW v \in Versions, PrepareActivation(o, v), p = o
      PROVE  CommandIsSound(hand[p])'
  <2>1. PICK r \in Editions(Compare(Evidence(v), v)) :
          hand' = [hand EXCEPT ![o] =
                     [kind |-> "activation", expected |-> deployment.revision,
                      seen |-> Len(audit), report |-> r]]
    BY <1>4 DEF PrepareActivation
  <2>2. hand'[p] = [kind |-> "activation", expected |-> deployment.revision,
                    seen |-> Len(audit), report |-> r]
    BY <1>0, <1>4, <2>1
  <2>3. HoldoutEvidence(Evidence(v), v)
    BY <1>4 DEF PrepareActivation, HoldoutEvidence, Evidence
  <2>4. r.evidence = Evidence(v) /\ r.candidate = v
    BY ComparisonIsReport, EditionFields DEF SameFields
  <2>5. HoldoutEvidence(r.evidence, r.candidate) /\ r \in Editions(Compare(r.evidence, r.candidate))
    BY <2>3, <2>4
  <2>6. UNCHANGED <<clock, stored, scored, model, deployment, audit>>
    BY <1>4 DEF PrepareActivation
  <2>7. deployment.revision \in 0 .. MaxRevision /\ Len(audit) \in 0 .. Len(audit)
    BY <1>0, <1>1, PromotionAssumption DEF ModelDeployment
  <2>8. HoldoutEvidence(r.evidence, r.candidate)'
          /\ r \in Editions(Compare(r.evidence, r.candidate))'
    BY <2>5, EvidenceStands, EditionsStand
  <2>9. QED
    BY <1>0, <2>2, <2>6, <2>7, <2>8 DEF CommandIsSound
<1>5. ASSUME NEW o \in Operators, PrepareRollback(o), p = o
      PROVE  CommandIsSound(hand[p])'
  <2>1. hand'[p] = [kind |-> "rollback", expected |-> deployment.revision,
                    seen |-> Len(audit), report |-> NoReport]
    BY <1>0, <1>5 DEF PrepareRollback
  <2>2. deployment.revision \in 0 .. MaxRevision /\ Len(audit) \in 0 .. Len(audit)
    BY <1>0, <1>1, PromotionAssumption DEF ModelDeployment
  <2>3. UNCHANGED audit
    BY <1>5 DEF PrepareRollback
  <2>4. QED
    BY <1>0, <2>1, <2>2, <2>3 DEF CommandIsSound
<1>6. ASSUME NEW o \in Operators, NEW c, hand' = [hand EXCEPT ![o] = c]
      PROVE  (p # o => hand'[p] = hand[p]) /\ (p = o => hand'[p] = c)
  BY <1>0, <1>6
<1>7. ASSUME NEW o \in Operators, NEW v \in Versions, PrepareActivation(o, v)
      PROVE  CommandIsSound(hand[p])'
  BY <1>2, <1>4, <1>6, <1>7 DEF PrepareActivation
<1>8. ASSUME NEW o \in Operators,
             PrepareRollback(o) \/ ActivateModel(o) \/ RollbackModel(o) \/ Refused(o)
      PROVE  CommandIsSound(hand[p])'
  BY <1>2, <1>3, <1>5, <1>6, <1>8 DEF PrepareRollback, ActivateModel, RollbackModel, Changes,
                                      Refused
<1>9. CASE UNCHANGED hand
  BY <1>2, <1>9
<1>10. QED
  BY <1>7, <1>8, <1>9
  DEF Next, vars, Train, StartShadow, EndShadow, StoreResult, Score, Tick
\* Every activation in the audit rests on observations of the version it activates.
LEMMA EvidencedStep ==
    ASSUME PromotionInvariant, [Next]_vars
    PROVE  ActivationsAreEvidenced' /\ ActivationIsEarned'
<1> DEFINE Earned(t) ==
             /\ HoldoutEvidence(t.evidence, t.to)
             /\ Compare(t.evidence, t.to).eligible
             /\ Compare(t.evidence, t.to).baseline = t.from
             /\ Compare(t.evidence, t.to).availableThrough <= t.changedAt
<1>1. ASSUME NEW i \in DOMAIN audit, audit[i].kind = "activation"
      PROVE  Earned(audit[i])
  BY <1>1 DEF PromotionInvariant, ActivationsAreEvidenced, ActivationIsEarned, Activations
<1>2. ASSUME NEW t, Earned(t)
      PROVE  /\ HoldoutEvidence(t.evidence, t.to)'
             /\ Compare(t.evidence, t.to)'.eligible
             /\ Compare(t.evidence, t.to)'.baseline = t.from
             /\ Compare(t.evidence, t.to)'.availableThrough <= t.changedAt
  BY <1>2, EvidenceStands
<1> HIDE DEF Earned
<1>3. ASSUME NEW i \in DOMAIN audit', audit'[i].kind = "activation"
      PROVE  Earned(audit'[i])
  <2>1. CASE UNCHANGED audit
    BY <1>1, <1>3, <2>1
  <2>2. ASSUME NEW o \in Operators, ActivateModel(o)
        PROVE  Earned(audit'[i])
    <3>1. PICK t : ChangeMade(o, t) /\ Earned(t)
      BY <2>2, ActivateMakes DEF Earned
    <3>2. QED
      BY <1>1, <1>3, <3>1, AuditAfter
  <2>3. ASSUME NEW o \in Operators, RollbackModel(o)
        PROVE  Earned(audit'[i])
    <3>1. PICK t : ChangeMade(o, t) /\ t.kind = "rollback"
      BY <2>3, RollbackMakes
    <3>2. QED
      BY <1>1, <1>3, <3>1, AuditAfter
  <2>4. QED
    BY <2>1, <2>2, <2>3, AuditGrows
<1>4. ActivationsAreEvidenced'
  BY <1>2, <1>3 DEF ActivationsAreEvidenced, Activations
<1>5. ActivationIsEarned'
  BY <1>2, <1>3 DEF ActivationIsEarned, Activations, Earned, HoldoutEvidence
<1>6. QED
  BY <1>4, <1>5

\* A change extends the chain of transitions by one that its operator had seen to the end.
LEMMA ChainStep ==
    ASSUME PromotionInvariant, [Next]_vars
    PROVE  AuditIsAChain' /\ DeploymentFollows'
<1>0. AuditIsAChain /\ DeploymentFollows
  BY DEF PromotionInvariant
<1>1. CASE UNCHANGED <<deployment, audit>>
  BY <1>0, <1>1 DEF AuditIsAChain, DeploymentFollows
<1>2. ASSUME NEW o \in Operators, NEW t, ChangeMade(o, t)
      PROVE  AuditIsAChain' /\ (Len(audit') > 0 => audit'[Len(audit')].changedAt = deployment'.changedAt)
  <2> DEFINE n == Len(audit)
  <2>1. /\ n \in Nat /\ Len(audit') = n + 1
        /\ DOMAIN audit = 1 .. n /\ DOMAIN audit' = 1 .. n + 1
        /\ \A i \in 1 .. n : audit'[i] = audit[i]
        /\ audit'[n + 1] = t
    BY <1>2, AuditAfter
  <2> HIDE DEF n
  <2>2. /\ deployment.revision = n + 1
        /\ deployment.active = IF n = 0 THEN InitialVersion ELSE audit[n].to
        /\ n > 0 => audit[n].changedAt = deployment.changedAt
    BY <1>0, <2>1 DEF AuditIsAChain, DeploymentFollows, n
  <2>3. \A i \in 1 .. n :
          /\ audit[i].from = IF i = 1 THEN InitialVersion ELSE audit[i - 1].to
          /\ audit[i].seen = i - 1
          /\ audit[i].revision = i + 1
          /\ i > 1 => audit[i].changedAt > audit[i - 1].changedAt
    BY <1>0, <2>1 DEF AuditIsAChain
  <2>4. /\ t.from = deployment.active /\ t.to = deployment'.active /\ t.seen = n
        /\ t.revision = deployment.revision + 1
        /\ deployment'.revision = deployment.revision + 1
        /\ t.changedAt = clock /\ deployment'.changedAt = clock
        /\ clock > deployment.changedAt
    BY <1>2 DEF ChangeMade, n
  <2>5. \A i \in 1 .. n + 1 :
          /\ audit'[i].from = IF i = 1 THEN InitialVersion ELSE audit'[i - 1].to
          /\ audit'[i].seen = i - 1
          /\ audit'[i].revision = i + 1
          /\ i > 1 => audit'[i].changedAt > audit'[i - 1].changedAt
    <3> SUFFICES ASSUME NEW i \in 1 .. n + 1
                 PROVE  /\ audit'[i].from = IF i = 1 THEN InitialVersion ELSE audit'[i - 1].to
                        /\ audit'[i].seen = i - 1
                        /\ audit'[i].revision = i + 1
                        /\ i > 1 => audit'[i].changedAt > audit'[i - 1].changedAt
      OBVIOUS
    <3>1. CASE i \in 1 .. n
      <4>1. audit'[i] = audit[i] /\ (i > 1 => audit'[i - 1] = audit[i - 1])
        BY <2>1, <3>1
      <4>2. QED
        BY <2>3, <3>1, <4>1
    <3>2. CASE i = n + 1
      <4>1. n > 0 => audit'[n] = audit[n]
        BY <2>1
      <4>2. QED
        BY <2>1, <2>2, <2>4, <3>2, <4>1
    <3>3. QED
      BY <2>1, <3>1, <3>2
  <2>6. /\ deployment'.revision = Len(audit') + 1
        /\ deployment'.active = audit'[n + 1].to
        /\ audit'[n + 1].changedAt = deployment'.changedAt
    BY <2>1, <2>2, <2>4
  <2>7. AuditIsAChain'
    <3>1. /\ deployment'.revision = Len(audit') + 1
          /\ deployment'.active = IF Len(audit') + 1 = 1 THEN InitialVersion
                                                       ELSE audit'[(Len(audit') + 1) - 1].to
      <4>1. (Len(audit') + 1) - 1 = n + 1 /\ Len(audit') + 1 # 1
        BY <2>1
      <4>2. QED
        BY <2>6, <4>1
    <3>2. QED
      BY <2>1, <2>5, <3>1 DEF AuditIsAChain
  <2>8. QED
    BY <2>1, <2>6, <2>7
<1>3. ASSUME NEW o \in Operators, ActivateModel(o)
      PROVE  AuditIsAChain' /\ DeploymentFollows'
  <2>1. PICK t : ChangeMade(o, t) /\ t.kind = "activation"
                   /\ deployment'.rollback = deployment.active
    BY <1>3, ActivateMakes
  <2>2. QED
    <3>1. /\ Len(audit') = Len(audit) + 1 /\ Len(audit) \in Nat
          /\ audit'[Len(audit')] = t /\ t.from = deployment.active
      BY <2>1, AuditAfter DEF ChangeMade
    <3>2. AuditIsAChain' /\ audit'[Len(audit')].changedAt = deployment'.changedAt
      BY <1>2, <2>1, <3>1
    <3>3. QED
      BY <2>1, <3>1, <3>2 DEF DeploymentFollows
<1>4. ASSUME NEW o \in Operators, RollbackModel(o)
      PROVE  AuditIsAChain' /\ DeploymentFollows'
  <2>1. PICK t : ChangeMade(o, t) /\ deployment'.rollback = NoVersion
    BY <1>4, RollbackMakes
  <2>2. QED
    BY <1>2, <2>1 DEF DeploymentFollows
<1>5. QED
  BY <1>1, <1>3, <1>4, AuditGrows

\* A rollback has a target only right after an activation, and goes back to what that
\* activation replaced.
LEMMA RollbackStep ==
    ASSUME PromotionInvariant, [Next]_vars
    PROVE  RollbackUndoesActivation'
<1>0. AuditIsAChain /\ DeploymentFollows /\ RollbackUndoesActivation
  BY DEF PromotionInvariant
<1>1. CASE UNCHANGED audit
  BY <1>0, <1>1 DEF RollbackUndoesActivation
<1>2. ASSUME NEW o \in Operators, NEW t, ChangeMade(o, t),
             t.kind = "rollback" =>
               /\ Len(audit) > 0 /\ audit[Len(audit)].kind = "activation"
               /\ t.to = audit[Len(audit)].from
               /\ t.from = audit[Len(audit)].to
      PROVE  RollbackUndoesActivation'
  <2> DEFINE n == Len(audit)
  <2>1. /\ n \in Nat /\ DOMAIN audit = 1 .. n /\ DOMAIN audit' = 1 .. n + 1
        /\ \A i \in 1 .. n : audit'[i] = audit[i]
        /\ audit'[n + 1] = t
    BY <1>2, AuditAfter
  <2>2. t.kind = "rollback" =>
          n > 0 /\ audit[n].kind = "activation" /\ t.to = audit[n].from /\ t.from = audit[n].to
    BY <1>2
  <2> HIDE DEF n
  <2>3. SUFFICES ASSUME NEW i \in 1 .. n + 1, audit'[i].kind = "rollback"
                 PROVE  /\ i > 1
                        /\ audit'[i - 1].kind = "activation"
                        /\ audit'[i].to = audit'[i - 1].from
                        /\ audit'[i].from = audit'[i - 1].to
    BY <2>1 DEF RollbackUndoesActivation
  <2>4. CASE i \in 1 .. n
    <3>1. audit'[i] = audit[i] /\ (i > 1 => audit'[i - 1] = audit[i - 1])
      BY <2>1, <2>4
    <3>2. QED
      BY <1>0, <2>1, <2>3, <2>4, <3>1 DEF RollbackUndoesActivation
  <2>5. CASE i = n + 1
    <3>1. n > 0 => audit'[n] = audit[n]
      BY <2>1
    <3>2. QED
      BY <2>1, <2>2, <2>3, <2>5, <3>1
  <2>6. QED
    BY <2>1, <2>4, <2>5
<1>3. ASSUME NEW o \in Operators, ActivateModel(o)
      PROVE  RollbackUndoesActivation'
  <2>1. PICK t : ChangeMade(o, t) /\ t.kind = "activation"
    BY <1>3, ActivateMakes
  <2>2. QED
    BY <1>2, <2>1
<1>4. ASSUME NEW o \in Operators, RollbackModel(o)
      PROVE  RollbackUndoesActivation'
  <2>1. PICK t : /\ ChangeMade(o, t) /\ deployment.rollback # NoVersion
                 /\ t.to = deployment.rollback
    BY <1>4, RollbackMakes
  <2>2. /\ Len(audit) > 0 /\ audit[Len(audit)].kind = "activation"
        /\ t.to = audit[Len(audit)].from
    BY <1>0, <2>1 DEF DeploymentFollows
  <2>3. t.from = audit[Len(audit)].to
    <3>1. t.from = deployment.active /\ Len(audit) \in Nat
      BY <2>1, AuditAfter DEF ChangeMade
    <3>2. deployment.active = audit[Len(audit)].to
      BY <1>0, <2>2, <3>1 DEF AuditIsAChain
    <3>3. QED
      BY <3>1, <3>2
  <2>4. QED
    BY <1>2, <2>1, <2>2, <2>3
<1>5. QED
  BY <1>1, <1>3, <1>4, AuditGrows

LEMMA InitEstablishes ==
    ASSUME Init
    PROVE  PromotionInvariant
<1>1. TablesOK
  <2>1. NoModel \in Model
    BY DEF NoModel, Model
  <2>2. deployment \in ModelDeployment /\ deployment.rollback # deployment.active
    BY PromotionAssumption DEF Init, ModelDeployment
  <2>3. QED
    BY <2>1, <2>2, FS_EmptySet DEF Init, TablesOK
<1>2. ScoresAreSettled /\ TrainedByCutoff
  BY DEF Init, ScoresAreSettled, TrainedByCutoff, NoModel
<1>3. CommandsAreSound
  BY PromotionAssumption DEF Init, CommandsAreSound, CommandIsSound, NoCommand
<1>4. /\ ActivationsAreEvidenced /\ ActivationIsEarned /\ RollbackUndoesActivation
      /\ DeploymentFollows
  BY DEF Init, ActivationsAreEvidenced, ActivationIsEarned, RollbackUndoesActivation,
         DeploymentFollows, Activations
<1>5. AuditIsAChain
  BY DEF Init, AuditIsAChain
<1>6. QED
  BY <1>1, <1>2, <1>3, <1>4, <1>5 DEF PromotionInvariant

-----------------------------------------------------------------------------
(***************************************************************************)
(* Theorems.                                                               *)
(***************************************************************************)

\* The inductive invariant: whatever operators, training runs and the shadow worker do in
\* whatever order, prepared commands stay what they were prepared as, the evidence behind
\* them stands, and ActivateModel and RollbackModel (pkg/rating/lifecycle.go) keep the
\* deployment at the end of the audit.
THEOREM InvariantHolds == Spec => []PromotionInvariant
<1>1. Init => PromotionInvariant
  BY InitEstablishes
<1>2. PromotionInvariant /\ [Next]_vars => PromotionInvariant'
  <2> SUFFICES ASSUME PromotionInvariant, [Next]_vars
               PROVE  PromotionInvariant'
    OBVIOUS
  <2>1. QED
    BY TablesStep, ScoresStep, TrainedStep, CommandsStep, EvidencedStep, ChainStep,
       RollbackStep DEF PromotionInvariant
<1>3. QED
  BY <1>1, <1>2, PTL DEF Spec

\* The segments of a prepared command's report have their type: an edition keeps or drops
\* the segments of a comparison and marks them.
LEMMA CommandsHaveType ==
    ASSUME PromotionInvariant, NEW o \in Operators
    PROVE  CommandOK(hand[o])
<1> DEFINE c == hand[o]
<1>1. /\ c.kind \in {"none", "activation", "rollback"}
      /\ c.expected \in 0 .. MaxRevision /\ c.seen \in 0 .. Len(audit)
      /\ c.kind # "activation" => c.report = NoReport
      /\ c.kind = "activation" =>
           /\ HoldoutEvidence(c.report.evidence, c.report.candidate)
           /\ c.report \in Editions(Compare(c.report.evidence, c.report.candidate))
  BY DEF PromotionInvariant, CommandsAreSound, CommandIsSound
<1> DEFINE SegmentsOK(r) ==
             /\ DOMAIN r.segments \subseteq Segments
             /\ \A s \in DOMAIN r.segments : r.segments[s] \in SegmentComparison
<1>2. SegmentsOK(NoReport)
  BY DEF NoReport
<1>3. ASSUME NEW es, NEW v, HoldoutEvidence(es, v), NEW r \in Editions(Compare(es, v))
      PROVE  SegmentsOK(r)
  <2> DEFINE b == Compare(es, v)
  <2>1. es \in SUBSET Events /\ v \in Versions /\ IsFiniteSet(es)
    <3>1. es \in SUBSET Events /\ v \in Versions
      BY <1>3 DEF HoldoutEvidence
    <3>2. es \in SUBSET stored
      BY <1>3, PromotionAssumption DEF HoldoutEvidence, PromotionInvariant, ScoresAreSettled
    <3>3. QED
      BY <3>1, <3>2, FS_Subset DEF PromotionInvariant, TablesOK
  <2>2. DOMAIN b.segments \subseteq Segments
    BY <2>1, SegmentsOfComparison
  <2>3. \A s \in DOMAIN b.segments : b.segments[s] \in SegmentComparison
    BY <2>1, SegmentOfComparison
  <2>4. \/ r = b
        \/ r.segments = Marked(b.segments, DOMAIN b.segments)
        \/ \E s \in DOMAIN b.segments : r.segments = Marked(b.segments, DOMAIN b.segments \ {s})
    <3>1. IsReport(b) /\ r \in Editions(b)
      BY <1>3, ComparisonIsReport
    <3> HIDE DEF b
    <3>2. QED
      BY <3>1, EditionFields, Zenon
  <2> HIDE DEF b
  <2>5. ASSUME NEW D \in SUBSET DOMAIN b.segments, r.segments = Marked(b.segments, D)
        PROVE  SegmentsOK(r)
    <3>1. DOMAIN r.segments = D
      BY <2>5 DEF Marked
    <3>2. \A d \in SegmentComparison : [d EXCEPT !.passed = TRUE] \in SegmentComparison
      BY DEF SegmentComparison
    <3>3. \A s \in D : r.segments[s] \in SegmentComparison
      BY <2>3, <2>5, <3>2, Zenon DEF Marked
    <3>4. QED
      BY <2>2, <3>1, <3>3
  <2>6. QED
    BY <2>2, <2>3, <2>4, <2>5
<1>4. SegmentsOK(c.report)
  BY <1>1, <1>2, <1>3
<1>5. QED
  BY <1>1, <1>4, Zenon DEF CommandOK

\* The deployment always has the form ModelDeployment.Validate (pkg/rating/lifecycle.go)
\* requires and its revision never wraps around; every audit entry, every model and every
\* prepared command has its type.
THEOREM TypeCorrect == Spec => []TypeOK
<1>1. PromotionInvariant => TypeOK
  BY CommandsHaveType DEF PromotionInvariant, TablesOK, TypeOK
<1>2. QED
  BY <1>1, InvariantHolds, PTL

\* For every comparison policy, however old the report, and although its flags may be
\* changed and a segment dropped after it was built:
\* ValidateForActivation (pkg/rating/comparison.go) lets only a candidate through whose
\* results make it eligible against the version it replaces.
THEOREM ActivationsAlwaysEarned == Spec => []ActivationIsEarned
<1>1. PromotionInvariant => ActivationIsEarned
  BY DEF PromotionInvariant
<1>2. QED
  BY <1>1, InvariantHolds, PTL

\* SplitFeatureBatches (pkg/rating/dataset.go) and the holdout check of
\* EvaluateHoldoutCalibration use the same cutoff: no result behind an activation was
\* trained on, however late results are stored.
THEOREM EvidenceAlwaysUnseen == Spec => []EvidenceIsUnseen
<1>1. PromotionInvariant => EvidenceIsUnseen
  <2> SUFFICES ASSUME PromotionInvariant, NEW i \in Activations,
                      NEW e \in audit[i].evidence, e \in model[audit[i].to].trainedOn
               PROVE  FALSE
    BY DEF EvidenceIsUnseen
  <2>1. /\ audit[i].to \in Versions /\ e \in Events
        /\ AvailableAt[e] > Cutoff[audit[i].to]
    BY DEF PromotionInvariant, ActivationsAreEvidenced, HoldoutEvidence, InHoldout
  <2>2. AvailableAt[e] <= Cutoff[audit[i].to]
    BY <2>1 DEF PromotionInvariant, TrainedByCutoff
  <2>3. QED
    BY <2>1, <2>2, PromotionAssumption
<1>2. QED
  BY <1>1, InvariantHolds, PTL

\* The revision fence of validateModelChange (pkg/rating/lifecycle.go): however many
\* operators prepare changes at once, the transitions form one chain and each was decided
\* with all earlier ones in view.
THEOREM AuditAlwaysAChain == Spec => []AuditIsAChain
<1>1. PromotionInvariant => AuditIsAChain
  BY DEF PromotionInvariant
<1>2. QED
  BY <1>1, InvariantHolds, PTL

\* RollbackModel clears the rollback target, so a second rollback is refused and versions
\* are never toggled.
THEOREM RollbacksAlwaysUndo == Spec => []RollbackUndoesActivation
<1>1. PromotionInvariant => RollbackUndoesActivation
  BY DEF PromotionInvariant
<1>2. QED
  BY <1>1, InvariantHolds, PTL
===============================================================================
