-------------------------- MODULE RatingQueueProofs --------------------------
(***************************************************************************)
(* Proofs about RatingQueue, for every set of results, players and         *)
(* workers, every skew of their clocks, and without the bounds TLC needs   *)
(* (MaxTime, LastFault and MaxFaults are arbitrary).                       *)
(*                                                                         *)
(* Two invariants, and both hold however late results are reported.  The   *)
(* first says that a result is rated once.  The second says that the       *)
(* ratings are exact up to the first result that was stored when a later   *)
(* one was claimed or processed; from there on a rating may lose a result, *)
(* as the run of MCRatingQueue_late shows.                                 *)
(***************************************************************************)
EXTENDS RatingQueue, TLAPS

-----------------------------------------------------------------------------
(***************************************************************************)
(* The inductive invariants.                                               *)
(***************************************************************************)

\* A worker that is not idle is at work on a result, which was stored; before its
\* transaction starts it has read nothing.
WorkIsReal ==
    \A w \in Workers : work[w].phase # "idle" =>
        /\ work[w].result \in Results
        /\ row[work[w].result].status # "none"
        /\ work[w].phase = "claimed" => work[w].read = {}

\* The lock of the result lasts: while a transaction reads, its claim stands and nobody
\* else reads the result.
ReadersHold ==
    \A w \in Workers : work[w].phase = "reading" =>
        /\ row[work[w].result].status = "pending"
        /\ row[work[w].result].token = work[w].token
        /\ ~ResultLocked(w, work[w].result)

\* The token of a claim is not NULL.
TokensAreReal ==
    \A w \in Workers : work[w].phase \in {"claimed", "reading"} => work[w].token # 0

QueueInvariant ==
    /\ TypeOK
    /\ WorkIsReal
    /\ ReadersHold
    /\ TokensAreReal
    /\ RatedOnce

\* A result that waits although a later one is claimed or processed was stored late.
OvertakenAreLate == \A e \in Results : row[e].status = "pending" /\ Overtaken(e) => e \in late

\* What a transaction on a timely result has read is still what is stored.
TimelyReadsAreFresh ==
    \A w \in Workers : work[w].phase = "reading" /\ Timely(work[w].result) =>
        \A p \in work[w].read : work[w].before[p] = rating[p]

\* While everything that was processed was timely, no rating has lost a result.
TimelyRatingsAreSerial ==
    (\A e \in Results : row[e].status = "processed" => Timely(e)) => RatingsAreSerial

OrderInvariant ==
    /\ QueueInvariant
    /\ OvertakenAreLate
    /\ TimelyReadsAreFresh
    /\ TimelyRatingsAreSerial
    /\ InAvailabilityOrder

-----------------------------------------------------------------------------
(***************************************************************************)
(* Rows and handlers.                                                      *)
(***************************************************************************)

\* What the queue writes into the row of a result.
StoredRow(e) == [NoRow EXCEPT !.status = "pending", !.nextAttemptAt = AvailableAt[e]]

ClaimedRow(r, until) ==
    [r EXCEPT !.token = r.attempts + 1, !.attempts = r.attempts + 1, !.claimedUntil = until]

ProcessedRow(r, at) == Released([r EXCEPT !.status = "processed", !.processedAt = at])

RetriedRow(r, at) == Released([r EXCEPT !.nextAttemptAt = at])

LEMMA WrittenRows ==
    ASSUME NEW r \in ResultRow, NEW at \in Int
    PROVE  /\ ClaimedRow(r, at) \in ResultRow /\ ClaimedRow(r, at).status = r.status
           /\ ClaimedRow(r, at).token = r.attempts + 1 /\ r.attempts + 1 \in Nat
           /\ ProcessedRow(r, at) \in ResultRow /\ ProcessedRow(r, at).status = "processed"
           /\ RetriedRow(r, at) \in ResultRow /\ RetriedRow(r, at).status = r.status
           /\ ProcessedRow(r, at).token = 0 /\ RetriedRow(r, at).token = 0
<1>1. r.attempts + 1 \in Nat /\ 0 \in Nat /\ 0 \in Int
  BY DEF ResultRow
<1>2. QED
  BY <1>1, Zenon DEF ClaimedRow, ProcessedRow, RetriedRow, Released, ResultRow

LEMMA StoredRows ==
    ASSUME NEW e \in Results
    PROVE  StoredRow(e) \in ResultRow /\ StoredRow(e).status = "pending"
           /\ StoredRow(e).token = 0
<1>1. AvailableAt[e] \in Int /\ 0 \in Nat /\ 0 \in Int
  BY RatingAssumption
<1>2. QED
  BY <1>1, Zenon DEF StoredRow, NoRow, ResultRow

LEMMA EmptyHandler ==
    /\ Idle \in Handler /\ Idle.phase = "idle" /\ Idle.read = {}
    /\ NoEstimate \in Estimate /\ NoEstimate.counted = {}
<1>1. NoEstimate \in Estimate /\ NoEstimate.counted = {}
  BY DEF NoEstimate, Estimate
<1>2. [p \in Players |-> NoEstimate] \in [Players -> Estimate]
  BY <1>1
<1>3. QED
  BY <1>1, <1>2 DEF Idle, Handler

\* What a worker becomes.
ClaimedBy(e, token, at) ==
    [Idle EXCEPT !.phase = "claimed", !.result = e, !.token = token, !.at = at]

HasRead(h, p) ==
    [h EXCEPT !.read = h.read \cup {p},
              !.before = [h.before EXCEPT ![p] = rating[p]],
              !.locked = IF rating[p].counted # {} THEN h.locked \cup {p} ELSE h.locked]

LEMMA ClaimedHandler ==
    ASSUME NEW e \in Results, NEW token \in Nat, NEW at \in Int
    PROVE  /\ ClaimedBy(e, token, at) \in Handler
           /\ ClaimedBy(e, token, at).phase = "claimed" /\ ClaimedBy(e, token, at).result = e
           /\ ClaimedBy(e, token, at).read = {} /\ ClaimedBy(e, token, at).token = token
BY EmptyHandler, Zenon DEF ClaimedBy, Handler, Idle

LEMMA ReadingHandler ==
    ASSUME NEW h \in Handler
    PROVE  LET g == [h EXCEPT !.phase = "reading"]
           IN  /\ g \in Handler /\ g.phase = "reading" /\ g.result = h.result
               /\ g.token = h.token /\ g.read = h.read
BY Zenon DEF Handler

LEMMA ReadHandler ==
    ASSUME NEW h \in Handler, NEW p \in Players, rating \in [Players -> Estimate]
    PROVE  /\ HasRead(h, p) \in Handler /\ HasRead(h, p).phase = h.phase
           /\ HasRead(h, p).result = h.result /\ HasRead(h, p).token = h.token
           /\ HasRead(h, p).read = h.read \cup {p} /\ HasRead(h, p).at = h.at
           /\ HasRead(h, p).before[p] = rating[p]
           /\ \A q \in Players \ {p} : HasRead(h, p).before[q] = h.before[q]
<1> DEFINE before == [h.before EXCEPT ![p] = rating[p]]
           locked == IF rating[p].counted # {} THEN h.locked \cup {p} ELSE h.locked
<1>1. /\ before \in [Players -> Estimate] /\ before[p] = rating[p]
      /\ \A q \in Players \ {p} : before[q] = h.before[q]
  BY DEF Handler
<1>2. locked \in SUBSET Players /\ h.read \cup {p} \in SUBSET Players
  BY DEF Handler
<1>3. HasRead(h, p) = [h EXCEPT !.read = h.read \cup {p}, !.before = before, !.locked = locked]
  BY DEF HasRead
<1> HIDE DEF before, locked
<1>4. /\ HasRead(h, p) \in Handler /\ HasRead(h, p).phase = h.phase
      /\ HasRead(h, p).result = h.result /\ HasRead(h, p).token = h.token
      /\ HasRead(h, p).read = h.read \cup {p} /\ HasRead(h, p).at = h.at
      /\ HasRead(h, p).before = before
  BY <1>2, <1>1, <1>3, Zenon DEF Handler
<1>5. QED
  BY <1>1, <1>4, Zenon

LEMMA RetryHandler ==
    ASSUME TypeOK, NEW w \in Workers
    PROVE  /\ Now(w) \in Int /\ WillRetry(w) \in Handler /\ WillRetry(w).phase = "retry"
           /\ WillRetry(w).result = work[w].result
<1>1. Now(w) \in Int /\ Now(w) + FailureBackoff \in Int
  BY RatingAssumption DEF TypeOK, Now
<1>2. work[w] \in Handler
  BY DEF TypeOK
<1>3. QED
  BY <1>1, <1>2, EmptyHandler, Zenon DEF WillRetry, Handler, Idle

-----------------------------------------------------------------------------
(***************************************************************************)
(* What a step may do.  h is what the worker becomes and r what the row of *)
(* its result becomes.                                                     *)
(***************************************************************************)
Moves(w, h) == h \in Handler /\ Goes(w, h)

Writes(e, r) == r \in ResultRow /\ row' = [row EXCEPT ![e] = r]

StoreEffect(e) ==
    /\ row[e].status = "none"
    /\ \E r : Writes(e, r) /\ r.status = "pending" /\ r.token = 0
    /\ late' = IF Overtaken(e) THEN late \cup {e} ELSE late
    /\ UNCHANGED <<clock, rating, updates, rated, work, faults>>

ClaimEffect(w, e) ==
    /\ Head(e) /\ ~ResultLocked(w, e) /\ work[w].phase = "idle"
    /\ \E r : Writes(e, r) /\ r.status = "pending"
    /\ \E h : Moves(w, h) /\ h.phase = "claimed" /\ h.result = e /\ h.read = {} /\ h.token # 0
    /\ UNCHANGED <<clock, rating, updates, rated, late, faults>>

BeginEffect(w) ==
    /\ work[w].phase = "claimed" /\ ~ResultLocked(w, work[w].result)
    /\ row[work[w].result].status = "pending" /\ row[work[w].result].token = work[w].token
    /\ \E h : /\ Moves(w, h) /\ h.phase = "reading" /\ h.result = work[w].result
              /\ h.token = work[w].token /\ h.read = work[w].read
    /\ UNCHANGED <<clock, row, rating, updates, rated, late, faults>>

ReadEffect(w, p) ==
    /\ work[w].phase = "reading" /\ p \in Players
    /\ \E h : /\ Moves(w, h) /\ h.phase = "reading" /\ h.result = work[w].result
              /\ h.token = work[w].token /\ h.read = work[w].read \cup {p}
              /\ h.before[p] = rating[p]
              /\ \A q \in Players \ {p} : h.before[q] = work[w].before[q]
    /\ UNCHANGED <<clock, row, rating, updates, rated, late, faults>>

\* The worker gives up or is done, without a commit; only the retry writes the row.
LeaveEffect(w) ==
    /\ work[w].phase # "idle"
    /\ \E h : /\ Moves(w, h)
              /\ h.phase = "idle" \/ (h.phase = "retry" /\ h.result = work[w].result)
    /\ \/ UNCHANGED row
       \/ /\ ~ResultLocked(w, work[w].result)
          /\ work[w].phase = "retry"
          /\ \E r : Writes(work[w].result, r) /\ r.status = row[work[w].result].status /\ r.token = 0
    /\ faults' \in Nat
    /\ UNCHANGED <<clock, rating, updates, rated, late>>

CommitEffect(w) ==
    LET e == work[w].result
    IN  /\ AllRead(w) /\ row[e].status = "pending"
        /\ updates' = updates \cup UpdatesOf(e, work[w].before)
        /\ rating' = [p \in Players |->
             IF p \in PlayersOf[e]
               THEN [counted |-> work[w].before[p].counted \cup {e}, updatedAt |-> work[w].at]
               ELSE rating[p]]
        /\ \E r : Writes(e, r) /\ r.status = "processed" /\ r.token = 0
        /\ rated' = rated \cup {e}
        /\ \E h : /\ Moves(w, h)
                  /\ h.phase = "idle" \/ (h.phase = "retry" /\ h.result = e)
        /\ faults' \in Nat
        /\ UNCHANGED <<clock, late>>

TimeEffect ==
    /\ clock' \in Nat /\ clock <= clock'
    /\ UNCHANGED <<row, rating, updates, rated, late, work, faults>>

LEMMA StepEffects ==
    ASSUME TypeOK, WorkIsReal, [Next]_vars
    PROVE  \/ \E e \in Results : StoreEffect(e)
           \/ \E w \in Workers, e \in Results : ClaimEffect(w, e)
           \/ \E w \in Workers : BeginEffect(w)
           \/ \E w \in Workers, p \in Players : ReadEffect(w, p)
           \/ \E w \in Workers : LeaveEffect(w)
           \/ \E w \in Workers : CommitEffect(w)
           \/ TimeEffect
<1>0. /\ clock \in Nat /\ row \in [Results -> ResultRow] /\ rating \in [Players -> Estimate]
      /\ work \in [Workers -> Handler] /\ faults \in Nat /\ faults + 1 \in Nat
  BY DEF TypeOK
<1>1. ASSUME NEW e \in Results, Store(e)
      PROVE  StoreEffect(e)
  <2>1. row' = [row EXCEPT ![e] = StoredRow(e)]
    BY <1>1, Zenon DEF Store, StoredRow
  <2>2. QED
    BY <1>1, <2>1, StoredRows DEF Store, StoreEffect, Writes
<1>2. ASSUME NEW w \in Workers, NEW e \in Results, Claim(w, e)
      PROVE  ClaimEffect(w, e)
  <2>1. Now(w) \in Int /\ Now(w) + LeaseDuration \in Int
    BY <1>0, RatingAssumption DEF Now
  <2>2. row[e] \in ResultRow
    BY <1>0
  <2>3. /\ row' = [row EXCEPT ![e] = ClaimedRow(row[e], Now(w) + LeaseDuration)]
        /\ Goes(w, ClaimedBy(e, row[e].attempts + 1, Now(w)))
    BY <1>2, Zenon DEF Claim, ClaimedRow, ClaimedBy
  <2>4. Writes(e, ClaimedRow(row[e], Now(w) + LeaseDuration))
    BY <2>1, <2>2, <2>3, WrittenRows DEF Writes
  <2>5. /\ ClaimedRow(row[e], Now(w) + LeaseDuration).status = row[e].status
        /\ row[e].attempts + 1 \in Nat
    BY <2>1, <2>2, WrittenRows
  <2>6. row[e].status = "pending"
    BY <1>2 DEF Claim, Head
  <2>7. Moves(w, ClaimedBy(e, row[e].attempts + 1, Now(w)))
    BY <2>1, <2>3, <2>5, ClaimedHandler DEF Moves
  <2>8. \E r : Writes(e, r) /\ r.status = "pending"
    BY <2>4, <2>5, <2>6
  <2>9. \E h : Moves(w, h) /\ h.phase = "claimed" /\ h.result = e /\ h.read = {} /\ h.token # 0
    <3>1. row[e].attempts + 1 # 0
      BY <2>2 DEF ResultRow
    <3>2. QED
      BY <2>1, <2>5, <2>7, <3>1, ClaimedHandler
  <2>10. QED
    BY <1>2, <2>8, <2>9 DEF Claim, ClaimEffect
<1>3. ASSUME NEW w \in Workers
      PROVE  /\ Goes(w, WillRetry(w)) => \E h : Moves(w, h) /\ h.phase = "retry" /\ h.result = work[w].result
             /\ Goes(w, Idle) => \E h : Moves(w, h) /\ h.phase = "idle"
  BY RetryHandler, EmptyHandler DEF Moves
<1>4. ASSUME NEW w \in Workers, Begin(w)
      PROVE  BeginEffect(w) \/ LeaveEffect(w)
  <2>1. CASE OwnsClaim(work[w].result, work[w].token)
    <3>1. Goes(w, [work[w] EXCEPT !.phase = "reading"])
      BY <1>4, <2>1 DEF Begin
    <3>2. work[w] \in Handler
      BY <1>0
    <3>3. \E h : /\ Moves(w, h) /\ h.phase = "reading" /\ h.result = work[w].result
                 /\ h.token = work[w].token /\ h.read = work[w].read
      BY <3>1, <3>2, ReadingHandler DEF Moves
    <3>4. QED
      BY <1>4, <2>1, <3>3 DEF Begin, BeginEffect, OwnsClaim
  <2>2. CASE ~OwnsClaim(work[w].result, work[w].token)
    BY <1>0, <1>3, <1>4, <2>2 DEF Begin, LeaveEffect
  <2>3. QED
    BY <2>1, <2>2
<1>5. ASSUME NEW w \in Workers, NEW p \in Players, Read(w, p)
      PROVE  ReadEffect(w, p)
  <2>1. Goes(w, HasRead(work[w], p))
    BY <1>5, Zenon DEF Read, HasRead
  <2>2. work[w] \in Handler
    BY <1>0
  <2>3. work[w].phase = "reading"
    BY <1>5 DEF Read
  <2>4. \E h : /\ Moves(w, h) /\ h.phase = "reading" /\ h.result = work[w].result
               /\ h.token = work[w].token /\ h.read = work[w].read \cup {p}
               /\ h.before[p] = rating[p]
               /\ \A q \in Players \ {p} : h.before[q] = work[w].before[q]
    <3> DEFINE g == HasRead(work[w], p)
    <3>1. /\ g \in Handler /\ g.phase = "reading" /\ g.result = work[w].result
          /\ g.token = work[w].token /\ g.read = work[w].read \cup {p}
          /\ g.before[p] = rating[p]
          /\ \A q \in Players \ {p} : g.before[q] = work[w].before[q]
      BY <1>0, <2>2, <2>3, ReadHandler
    <3> HIDE DEF g
    <3>2. Moves(w, g)
      BY <2>1, <3>1 DEF Moves, g
    <3>3. QED
      BY <3>1, <3>2, Zenon
  <2>5. UNCHANGED <<clock, row, rating, updates, rated, late, faults>>
    BY <1>5 DEF Read
  <2>6. QED
    BY <2>3, <2>4, <2>5 DEF ReadEffect
<1>6. ASSUME NEW w \in Workers, RefusedByTime(w) \/ StatementFails(w) \/ Crash(w)
      PROVE  LeaveEffect(w)
  <2>1. /\ work[w].phase # "idle"
        /\ Goes(w, WillRetry(w)) \/ Goes(w, Idle)
        /\ faults' = faults \/ faults' = faults + 1
        /\ UNCHANGED <<clock, row, rating, updates, rated, late>>
    BY <1>6 DEF RefusedByTime, StatementFails, Crash, AllRead
  <2>2. \E h : Moves(w, h) /\ (h.phase = "idle" \/ (h.phase = "retry" /\ h.result = work[w].result))
    BY <1>3, <2>1
  <2>3. QED
    BY <1>0, <2>1, <2>2 DEF LeaveEffect
<1>7. ASSUME NEW w \in Workers, ScheduleRetry(w)
      PROVE  LeaveEffect(w)
  <2> DEFINE e == work[w].result
             r == RetriedRow(row[e], work[w].retryAt)
  <2>1. work[w].phase = "retry" /\ ~ResultLocked(w, e) /\ e \in Results
    BY <1>7 DEF ScheduleRetry, WorkIsReal
  <2>2. row[e] \in ResultRow /\ work[w].retryAt \in Int
    BY <1>0, <2>1 DEF Handler
  <2>3. r \in ResultRow /\ r.status = row[e].status /\ r.token = 0
    BY <2>2, WrittenRows
  <2>4. UNCHANGED row \/ row' = [row EXCEPT ![e] = r]
    BY <1>7, Zenon DEF ScheduleRetry, RetriedRow
  <2> HIDE DEF r
  <2>5. UNCHANGED row \/ Writes(e, r)
    BY <2>3, <2>4 DEF Writes
  <2>6. \E h : Moves(w, h) /\ h.phase = "idle"
    BY <1>3, <1>7 DEF ScheduleRetry
  <2>7. UNCHANGED row \/ \E x : Writes(e, x) /\ x.status = row[e].status /\ x.token = 0
    BY <2>3, <2>5
  <2>8. faults' \in Nat /\ UNCHANGED <<clock, rating, updates, rated, late>>
    BY <1>0, <1>7 DEF ScheduleRetry
  <2>9. QED
    BY <2>1, <2>6, <2>7, <2>8, Zenon DEF LeaveEffect
<1>8. ASSUME NEW w \in Workers, Commit(w)
      PROVE  CommitEffect(w)
  <2> DEFINE e == work[w].result
             r == ProcessedRow(row[e], work[w].at)
  <2>1. AllRead(w) /\ row[e].status = "pending" /\ e \in Results
    BY <1>8 DEF Commit, StillClaimed, AllRead, WorkIsReal
  <2>2. row[e] \in ResultRow /\ work[w].at \in Int
    BY <1>0, <2>1 DEF Handler
  <2>3. r \in ResultRow /\ r.status = "processed" /\ r.token = 0
    BY <2>2, WrittenRows
  <2>4. row' = [row EXCEPT ![e] = r]
    BY <1>8, Zenon DEF Commit, ProcessedRow
  <2> HIDE DEF r
  <2>5. Writes(e, r)
    BY <2>3, <2>4 DEF Writes
  <2>6. \/ Goes(w, Idle) /\ UNCHANGED faults
        \/ Goes(w, WillRetry(w)) /\ faults' = faults + 1
    BY <1>8, Zenon DEF Commit
  <2>7. /\ \E h : Moves(w, h) /\ (h.phase = "idle" \/ (h.phase = "retry" /\ h.result = e))
        /\ faults' \in Nat
    BY <1>0, <1>3, <2>6
  <2>8. QED
    BY <1>8, <2>1, <2>3, <2>5, <2>7, Zenon DEF Commit, CommitEffect
<1>9. CASE Tick \/ UNCHANGED vars
  BY <1>0, <1>9 DEF Tick, vars, TimeEffect
<1>10. QED
  BY <1>1, <1>2, <1>4, <1>5, <1>6, <1>7, <1>8, <1>9 DEF Next, WorkerStep

-----------------------------------------------------------------------------
(***************************************************************************)
(* The invariant that holds however late results are reported.             *)
(***************************************************************************)

\* A write leaves the other rows alone, a move the other workers.
LEMMA WriteFacts ==
    ASSUME row \in [Results -> ResultRow], NEW e \in Results, NEW r, Writes(e, r)
    PROVE  row' \in [Results -> ResultRow] /\ row'[e] = r
           /\ \A d \in Results \ {e} : row'[d] = row[d]
BY DEF Writes

LEMMA MoveFacts ==
    ASSUME work \in [Workers -> Handler], NEW w \in Workers, NEW h, Moves(w, h)
    PROVE  work' \in [Workers -> Handler] /\ work'[w] = h
           /\ \A v \in Workers \ {w} : work'[v] = work[v]
BY DEF Moves, Goes

LEMMA TypeStep ==
    ASSUME TypeOK, WorkIsReal, [Next]_vars
    PROVE  TypeOK'
<1>0. /\ row \in [Results -> ResultRow] /\ work \in [Workers -> Handler] /\ late \subseteq Results
      /\ \A w \in Workers : work[w].phase # "idle" => work[w].result \in Results
  BY DEF TypeOK, WorkIsReal
<1>1. ASSUME NEW e \in Results, NEW r, Writes(e, r)
      PROVE  row' \in [Results -> ResultRow]
  BY <1>0, <1>1, WriteFacts
<1>2. ASSUME NEW w \in Workers, NEW h, Moves(w, h)
      PROVE  work' \in [Workers -> Handler]
  BY <1>0, <1>2, MoveFacts
<1>3. ASSUME NEW e \in Results, StoreEffect(e)
      PROVE  TypeOK'
  BY <1>1, <1>3 DEF StoreEffect, TypeOK
<1>4. ASSUME NEW w \in Workers, NEW e \in Results, ClaimEffect(w, e)
      PROVE  TypeOK'
  BY <1>1, <1>2, <1>4 DEF ClaimEffect, TypeOK
<1>5. ASSUME NEW w \in Workers, BeginEffect(w)
      PROVE  TypeOK'
  BY <1>2, <1>5 DEF BeginEffect, TypeOK
<1>6. ASSUME NEW w \in Workers, NEW p \in Players, ReadEffect(w, p)
      PROVE  TypeOK'
  BY <1>2, <1>6 DEF ReadEffect, TypeOK
<1>7. ASSUME NEW w \in Workers, LeaveEffect(w)
      PROVE  TypeOK'
  BY <1>0, <1>1, <1>2, <1>7 DEF LeaveEffect, TypeOK
<1>8. ASSUME NEW w \in Workers, CommitEffect(w)
      PROVE  TypeOK'
  <2> DEFINE e == work[w].result
             before == work[w].before
  <2>1. /\ e \in Results /\ before \in [Players -> Estimate] /\ PlayersOf[e] \subseteq Players
        /\ work[w].at \in Int
    BY <1>0, <1>8, RatingAssumption DEF CommitEffect, AllRead, Handler
  <2>2. \A p \in Players : before[p].counted \subseteq Results
    BY <2>1 DEF Estimate
  <2>3. UpdatesOf(e, before) \subseteq Update
    BY <2>1, <2>2 DEF UpdatesOf, Update
  <2>4. rating' \in [Players -> Estimate]
    <3>1. \A p \in Players :
            [counted |-> before[p].counted \cup {e}, updatedAt |-> work[w].at] \in Estimate
      BY <2>1, <2>2 DEF Estimate
    <3>2. QED
      BY <1>8, <3>1 DEF CommitEffect, TypeOK
  <2>5. row' \in [Results -> ResultRow] /\ work' \in [Workers -> Handler]
    BY <1>1, <1>2, <1>8, <2>1 DEF CommitEffect
  <2>6. /\ updates' \subseteq Update /\ rated' \subseteq Results /\ late' \subseteq Results
        /\ clock' = clock /\ faults' \in Nat
    BY <1>8, <2>1, <2>3 DEF CommitEffect, TypeOK
  <2>7. QED
    BY <2>4, <2>5, <2>6 DEF TypeOK
<1>9. CASE TimeEffect
  BY <1>9 DEF TimeEffect, TypeOK
<1>10. QED
  BY <1>3, <1>4, <1>5, <1>6, <1>7, <1>8, <1>9, StepEffects

\* The status of a row never goes back.
LEMMA StatusMoves ==
    ASSUME TypeOK, WorkIsReal, [Next]_vars, NEW d \in Results
    PROVE  /\ row[d].status # "none" => row'[d].status # "none"
           /\ row[d].status = "processed" => row'[d].status = "processed"
           /\ row'[d].status = "pending" => row[d].status = "pending" \/ StoreEffect(d)
           /\ row'[d].status = "processed" /\ row[d].status # "processed" =>
                \E w \in Workers : CommitEffect(w) /\ work[w].result = d
<1>0. /\ row \in [Results -> ResultRow]
      /\ \A w \in Workers : work[w].phase # "idle" => work[w].result \in Results
      /\ \A e \in Results : row[e].status \in {"none", "pending", "processed"}
  BY DEF TypeOK, WorkIsReal, ResultRow
<1>1. \A r : \A e \in Results : Writes(e, r) => row'[d] = IF d = e THEN r ELSE row[d]
  BY <1>0, WriteFacts
<1>2. ASSUME NEW e \in Results, StoreEffect(e)
      PROVE  \/ row'[d].status = "pending" /\ e = d /\ row[d].status = "none"
             \/ row'[d] = row[d]
  BY <1>1, <1>2 DEF StoreEffect
<1>3. ASSUME NEW w \in Workers, NEW e \in Results, ClaimEffect(w, e)
      PROVE  row'[d].status = row[d].status
  BY <1>1, <1>3 DEF ClaimEffect, Head
<1>4. ASSUME NEW w \in Workers, LeaveEffect(w)
      PROVE  row'[d].status = row[d].status
  BY <1>0, <1>1, <1>4 DEF LeaveEffect
<1>5. ASSUME NEW w \in Workers, CommitEffect(w)
      PROVE  \/ row'[d] = row[d]
             \/ row'[d].status = "processed" /\ work[w].result = d /\ row[d].status = "pending"
  <2>1. work[w].result \in Results
    BY <1>0, <1>5 DEF CommitEffect, AllRead
  <2>2. QED
    BY <1>1, <1>5, <2>1 DEF CommitEffect
<1>6. QED
  BY <1>0, <1>2, <1>3, <1>4, <1>5, StepEffects DEF BeginEffect, ReadEffect, TimeEffect

\* A row gets a token from a claim, and only there.
LEMMA TokenMoves ==
    ASSUME TypeOK, WorkIsReal, [Next]_vars, NEW d \in Results, row'[d].token # 0
    PROVE  row[d].token # 0 \/ \E w \in Workers : ClaimEffect(w, d)
<1>0. /\ row \in [Results -> ResultRow]
      /\ \A w \in Workers : work[w].phase # "idle" => work[w].result \in Results
  BY DEF TypeOK, WorkIsReal
<1>1. \A r : \A e \in Results : Writes(e, r) => row'[d] = IF d = e THEN r ELSE row[d]
  BY <1>0, WriteFacts
<1>2. ASSUME NEW e \in Results, StoreEffect(e)
      PROVE  row'[d] = row[d]
  BY <1>1, <1>2 DEF StoreEffect
<1>3. ASSUME NEW w \in Workers, NEW e \in Results, ClaimEffect(w, e)
      PROVE  row'[d] = row[d] \/ d = e
  BY <1>1, <1>3 DEF ClaimEffect
<1>4. ASSUME NEW w \in Workers, LeaveEffect(w)
      PROVE  row'[d] = row[d]
  BY <1>0, <1>1, <1>4 DEF LeaveEffect
<1>5. ASSUME NEW w \in Workers, CommitEffect(w)
      PROVE  row'[d] = row[d]
  <2>1. work[w].result \in Results
    BY <1>0, <1>5 DEF CommitEffect, AllRead
  <2>2. QED
    BY <1>1, <1>5, <2>1 DEF CommitEffect
<1>6. QED
  BY <1>2, <1>3, <1>4, <1>5, StepEffects DEF BeginEffect, ReadEffect, TimeEffect

LEMMA WorkStep ==
    ASSUME TypeOK, WorkIsReal, [Next]_vars
    PROVE  WorkIsReal'
<1>0. work \in [Workers -> Handler]
  BY DEF TypeOK
<1>1. SUFFICES ASSUME NEW v \in Workers, work'[v].phase # "idle"
               PROVE  /\ work'[v].result \in Results
                      /\ row'[work'[v].result].status # "none"
                      /\ work'[v].phase = "claimed" => work'[v].read = {}
  BY DEF WorkIsReal
<1>2. ASSUME work[v].phase # "idle", work'[v].result = work[v].result,
             work'[v].phase = "claimed" => work'[v].read = {}
      PROVE  /\ work'[v].result \in Results
             /\ row'[work'[v].result].status # "none"
             /\ work'[v].phase = "claimed" => work'[v].read = {}
  BY <1>2, StatusMoves DEF WorkIsReal
<1>3. ASSUME work'[v] = work[v]
      PROVE  /\ work'[v].result \in Results
             /\ row'[work'[v].result].status # "none"
             /\ work'[v].phase = "claimed" => work'[v].read = {}
  BY <1>1, <1>2, <1>3 DEF WorkIsReal
<1>4. ASSUME NEW w \in Workers, NEW h, Moves(w, h)
      PROVE  IF v = w THEN work'[v] = h ELSE work'[v] = work[v]
  BY <1>0, <1>4, MoveFacts
<1>5. ASSUME NEW w \in Workers, NEW e \in Results, ClaimEffect(w, e)
      PROVE  /\ work'[v].result \in Results
             /\ row'[work'[v].result].status # "none"
             /\ work'[v].phase = "claimed" => work'[v].read = {}
  <2>1. row'[e].status # "none"
    BY <1>5, StatusMoves DEF ClaimEffect, Head
  <2>2. QED
    BY <1>3, <1>4, <1>5, <2>1 DEF ClaimEffect
<1>6. ASSUME NEW w \in Workers, BeginEffect(w) \/ LeaveEffect(w) \/ CommitEffect(w)
      PROVE  /\ work'[v].result \in Results
             /\ row'[work'[v].result].status # "none"
             /\ work'[v].phase = "claimed" => work'[v].read = {}
  <2>1. /\ work[w].phase # "idle"
        /\ \E h : /\ Moves(w, h)
                  /\ h.phase = "idle" \/ (h.phase \in {"retry", "reading"} /\ h.result = work[w].result)
    BY <1>6 DEF BeginEffect, LeaveEffect, CommitEffect, AllRead
  <2>2. QED
    BY <1>1, <1>2, <1>3, <1>4, <2>1
<1>7. ASSUME NEW w \in Workers, NEW p \in Players, ReadEffect(w, p)
      PROVE  /\ work'[v].result \in Results
             /\ row'[work'[v].result].status # "none"
             /\ work'[v].phase = "claimed" => work'[v].read = {}
  <2>1. /\ work[w].phase # "idle"
        /\ \E h : Moves(w, h) /\ h.phase = "reading" /\ h.result = work[w].result
    BY <1>7 DEF ReadEffect
  <2>2. QED
    BY <1>2, <1>3, <1>4, <2>1
<1>8. QED
  BY <1>3, <1>5, <1>6, <1>7, StepEffects DEF StoreEffect, TimeEffect

LEMMA TokenStep ==
    ASSUME TypeOK, WorkIsReal, TokensAreReal, [Next]_vars
    PROVE  TokensAreReal'
<1>0. work \in [Workers -> Handler]
  BY DEF TypeOK
<1>1. SUFFICES ASSUME NEW v \in Workers, work'[v].phase \in {"claimed", "reading"}
               PROVE  work'[v].token # 0
  BY DEF TokensAreReal
<1>2. ASSUME NEW w \in Workers, NEW h, Moves(w, h)
      PROVE  IF v = w THEN work'[v] = h ELSE work'[v] = work[v]
  BY <1>0, <1>2, MoveFacts
<1>3. CASE work'[v] = work[v]
  BY <1>1, <1>3 DEF TokensAreReal
<1>4. ASSUME NEW w \in Workers, NEW e \in Results, ClaimEffect(w, e)
      PROVE  work'[v].token # 0
  BY <1>2, <1>3, <1>4 DEF ClaimEffect
<1>5. ASSUME NEW w \in Workers, LeaveEffect(w) \/ CommitEffect(w)
      PROVE  work'[v].token # 0
  BY <1>1, <1>2, <1>3, <1>5 DEF LeaveEffect, CommitEffect
<1>6. ASSUME NEW w \in Workers, BeginEffect(w) \/ \E p \in Players : ReadEffect(w, p)
      PROVE  work'[v].token # 0
  <2>1. /\ work[w].phase \in {"claimed", "reading"}
        /\ \E h : Moves(w, h) /\ h.token = work[w].token
    BY <1>6 DEF BeginEffect, ReadEffect
  <2>2. QED
    BY <1>2, <1>3, <2>1 DEF TokensAreReal
<1>7. QED
  BY <1>3, <1>4, <1>5, <1>6, StepEffects DEF StoreEffect, TimeEffect

\* A transaction reads on, or it starts.
LEMMA WhoReads ==
    ASSUME TypeOK, WorkIsReal, [Next]_vars, NEW v \in Workers, work'[v].phase = "reading"
    PROVE  /\ work[v].phase = "reading" \/ BeginEffect(v)
           /\ work'[v].result = work[v].result /\ work'[v].token = work[v].token
<1>0. work \in [Workers -> Handler]
  BY DEF TypeOK
<1>1. ASSUME NEW w \in Workers, NEW h, Moves(w, h)
      PROVE  IF v = w THEN work'[v] = h ELSE work'[v] = work[v]
  BY <1>0, <1>1, MoveFacts
<1>2. ASSUME NEW w \in Workers, NEW e \in Results, ClaimEffect(w, e)
      PROVE  work'[v] = work[v]
  BY <1>1, <1>2 DEF ClaimEffect
<1>3. ASSUME NEW w \in Workers, LeaveEffect(w) \/ CommitEffect(w)
      PROVE  work'[v] = work[v]
  BY <1>1, <1>3 DEF LeaveEffect, CommitEffect
<1>4. ASSUME NEW w \in Workers, BeginEffect(w)
      PROVE  \/ work'[v] = work[v]
             \/ /\ v = w /\ work'[v].result = work[v].result /\ work'[v].token = work[v].token
  BY <1>1, <1>4 DEF BeginEffect
<1>5. ASSUME NEW w \in Workers, NEW p \in Players, ReadEffect(w, p)
      PROVE  \/ work'[v] = work[v]
             \/ /\ work[v].phase = "reading" /\ work'[v].result = work[v].result
                /\ work'[v].token = work[v].token
  BY <1>1, <1>5 DEF ReadEffect
<1>6. QED
  BY <1>2, <1>3, <1>4, <1>5, StepEffects DEF StoreEffect, TimeEffect

\* The row of a result stays as it is from the start of a transaction to its end.
LEMMA LockedRowStays ==
    ASSUME QueueInvariant, [Next]_vars, NEW v \in Workers, work[v].phase = "reading"
    PROVE  row'[work[v].result] = row[work[v].result] \/ CommitEffect(v)
<1> DEFINE e == work[v].result
<1>0. /\ TypeOK /\ WorkIsReal /\ row \in [Results -> ResultRow] /\ e \in Results
      /\ row[e].status = "pending" /\ ~ResultLocked(v, e)
      /\ \A w \in Workers : work[w].phase # "idle" => work[w].result \in Results
  BY DEF QueueInvariant, TypeOK, WorkIsReal, ReadersHold
<1>1. \A w \in Workers \ {v} : ResultLocked(w, e)
  BY DEF ResultLocked
<1>2. \A r : \A d \in Results : Writes(d, r) => d = e \/ row'[e] = row[e]
  BY <1>0, WriteFacts
<1>3. ASSUME NEW d \in Results, StoreEffect(d)
      PROVE  row'[e] = row[e]
  BY <1>0, <1>2, <1>3 DEF StoreEffect
<1>4. ASSUME NEW w \in Workers, NEW d \in Results, ClaimEffect(w, d)
      PROVE  row'[e] = row[e]
  BY <1>1, <1>2, <1>4 DEF ClaimEffect
<1>5. ASSUME NEW w \in Workers, LeaveEffect(w)
      PROVE  row'[e] = row[e]
  BY <1>0, <1>1, <1>2, <1>5 DEF LeaveEffect
<1>6. ASSUME NEW w \in Workers, CommitEffect(w)
      PROVE  row'[e] = row[e] \/ w = v
  <2>1. work[w].result \in Results /\ work[w].phase = "reading"
    BY <1>0, <1>6 DEF CommitEffect, AllRead
  <2>2. CASE w # v
    <3>1. work[w].result # e
      BY <1>0, <2>1, <2>2 DEF ResultLocked
    <3>2. QED
      BY <1>2, <1>6, <2>1, <3>1 DEF CommitEffect
  <2>3. QED
    BY <2>2
<1>7. QED
  BY <1>0, <1>3, <1>4, <1>5, <1>6, StepEffects DEF BeginEffect, ReadEffect, TimeEffect

\* Who commits is done.
LEMMA CommitEnds ==
    ASSUME TypeOK, NEW w \in Workers, CommitEffect(w)
    PROVE  work'[w].phase \in {"idle", "retry"} /\ \A v \in Workers \ {w} : work'[v] = work[v]
BY MoveFacts DEF TypeOK, CommitEffect

LEMMA ReadersStep ==
    ASSUME QueueInvariant, [Next]_vars
    PROVE  ReadersHold'
<1>0. TypeOK /\ WorkIsReal /\ ReadersHold
  BY DEF QueueInvariant
<1>1. SUFFICES ASSUME NEW v \in Workers, work'[v].phase = "reading"
               PROVE  /\ row'[work'[v].result].status = "pending"
                      /\ row'[work'[v].result].token = work'[v].token
                      /\ ~ResultLocked(v, work[v].result)'
  BY DEF ReadersHold, ResultLocked
<1>2. /\ work[v].phase = "reading" \/ BeginEffect(v)
      /\ work'[v].result = work[v].result /\ work'[v].token = work[v].token
  BY <1>0, <1>1, WhoReads
<1>3. /\ row'[work[v].result] = row[work[v].result]
      /\ row[work[v].result].status = "pending" /\ row[work[v].result].token = work[v].token
  <2>1. CASE work[v].phase = "reading"
    <3>1. ~CommitEffect(v)
      BY <1>0, <1>1, CommitEnds
    <3>2. QED
      BY <1>0, <2>1, <3>1, LockedRowStays DEF ReadersHold
  <2>2. CASE BeginEffect(v)
    BY <2>2 DEF BeginEffect
  <2>3. QED
    BY <1>2, <2>1, <2>2
<1>4. ASSUME NEW u \in Workers \ {v}, work'[u].phase = "reading", work'[u].result = work[v].result
      PROVE  FALSE
  <2>1. /\ work[u].phase = "reading" \/ BeginEffect(u)
        /\ work[u].result = work[v].result
    BY <1>0, <1>4, WhoReads
  <2>2. CASE work[v].phase = "reading" /\ work[u].phase = "reading"
    BY <1>0, <2>1, <2>2 DEF ReadersHold, ResultLocked
  <2>3. CASE BeginEffect(v) /\ work[u].phase = "reading"
    BY <2>1, <2>3 DEF BeginEffect, ResultLocked
  <2>4. CASE BeginEffect(u) /\ work[v].phase = "reading"
    BY <2>1, <2>4 DEF BeginEffect, ResultLocked
  <2>5. CASE BeginEffect(u) /\ BeginEffect(v)
    <3>1. work'[u] = work[u] \/ work'[v] = work[v]
      BY <1>0, <2>5, MoveFacts DEF BeginEffect, TypeOK
    <3>2. QED
      BY <1>1, <1>4, <2>5, <3>1 DEF BeginEffect
  <2>6. QED
    BY <1>2, <2>1, <2>2, <2>3, <2>4, <2>5
<1>5. QED
  BY <1>2, <1>3, <1>4 DEF ResultLocked
\* A commit adds one update for each participant, and to no other result.
LEMMA OnceStep ==
    ASSUME QueueInvariant, [Next]_vars
    PROVE  RatedOnce'
<1> DEFINE Of(us, e, p) == {u \in us : u.result = e /\ u.player = p}
<1>0. /\ TypeOK /\ WorkIsReal /\ RatedOnce
      /\ \A e \in Results : row[e].status \in {"none", "pending", "processed"}
  BY DEF QueueInvariant, TypeOK, ResultRow
<1>1. ASSUME UNCHANGED <<updates, rated>>, \A e \in Results :
               row'[e].status = "processed" <=> row[e].status = "processed"
      PROVE  RatedOnce'
  BY <1>0, <1>1 DEF RatedOnce
<1>2. ASSUME NEW w \in Workers, CommitEffect(w)
      PROVE  RatedOnce'
  <2> DEFINE e == work[w].result
             before == work[w].before
  <2>1. /\ e \in Results /\ row[e].status = "pending" /\ PlayersOf[e] \subseteq Players
        /\ updates' = updates \cup UpdatesOf(e, before) /\ rated' = rated \cup {e}
        /\ row'[e].status = "processed" /\ \A d \in Results \ {e} : row'[d] = row[d]
    <3>1. e \in Results
      BY <1>0, <1>2 DEF CommitEffect, AllRead, WorkIsReal
    <3>2. row'[e].status = "processed" /\ \A d \in Results \ {e} : row'[d] = row[d]
      BY <1>0, <1>2, <3>1, WriteFacts DEF CommitEffect, TypeOK
    <3>3. QED
      BY <1>2, <3>1, <3>2, RatingAssumption DEF CommitEffect
  <2>2. /\ e \notin rated /\ \A p \in Players : Of(updates, e, p) = {}
    BY <1>0, <2>1 DEF RatedOnce
  <2>3. \A d \in Results, p \in Players :
          Of(UpdatesOf(e, before), d, p) =
            IF d = e /\ p \in PlayersOf[e]
              THEN {[player |-> p, result |-> e, before |-> before[p].counted]} ELSE {}
    BY DEF UpdatesOf
  <2>4. \A d, p : Of(updates', d, p) = Of(updates, d, p) \cup Of(UpdatesOf(e, before), d, p)
    BY <2>1
  <2>5. ASSUME NEW d \in Results
        PROVE  /\ d \in rated' <=> row'[d].status = "processed"
               /\ \A p \in Players :
                    IF d \in rated' /\ p \in PlayersOf[d]
                      THEN \E u \in Of(updates', d, p) : Of(updates', d, p) = {u}
                      ELSE Of(updates', d, p) = {}
    <3>1. CASE d = e
      <4>1. \A p \in Players : Of(updates', d, p) =
              IF p \in PlayersOf[e]
                THEN {[player |-> p, result |-> e, before |-> before[p].counted]} ELSE {}
        BY <2>2, <2>3, <2>4, <3>1
      <4>2. d \in rated' /\ row'[d].status = "processed"
        BY <2>1, <3>1
      <4> HIDE DEF Of
      <4>3. QED
        BY <3>1, <4>1, <4>2
    <3>2. CASE d # e
      <4>1. \A p \in Players : Of(updates', d, p) = Of(updates, d, p)
        BY <2>3, <2>4, <3>2
      <4>2. (d \in rated' <=> d \in rated) /\ row'[d] = row[d]
        BY <2>1, <3>2
      <4>3. /\ d \in rated <=> row[d].status = "processed"
            /\ \A p \in Players :
                 IF d \in rated /\ p \in PlayersOf[d]
                   THEN \E u \in Of(updates, d, p) : Of(updates, d, p) = {u}
                   ELSE Of(updates, d, p) = {}
        BY <1>0, Zenon DEF RatedOnce
      <4> HIDE DEF Of
      <4>4. QED
        BY <4>1, <4>2, <4>3
    <3>3. QED
      BY <3>1, <3>2
  <2>6. QED
    BY <2>5, Zenon DEF RatedOnce
<1>3. CASE \A w \in Workers : ~CommitEffect(w)
  <2>1. UNCHANGED <<updates, rated>>
    BY <1>0, <1>3, StepEffects DEF StoreEffect, ClaimEffect, BeginEffect, ReadEffect,
                                   LeaveEffect, TimeEffect
  <2>2. \A e \in Results : row'[e].status = "processed" <=> row[e].status = "processed"
    BY <1>0, <1>3, StatusMoves
  <2>3. QED
    BY <1>1, <2>1, <2>2
<1>4. QED
  BY <1>2, <1>3

LEMMA InitialState ==
    ASSUME Init
    PROVE  /\ TypeOK /\ updates = {} /\ rated = {} /\ late = {}
           /\ \A e \in Results : row[e].status = "none"
           /\ \A p \in Players : rating[p].counted = {}
           /\ \A w \in Workers : work[w].phase = "idle"
<1>1. NoRow \in ResultRow /\ NoRow.status = "none"
  BY DEF NoRow, ResultRow
<1>2. QED
  BY <1>1, EmptyHandler DEF Init, TypeOK

LEMMA InvariantInitially ==
    Init => QueueInvariant
BY InitialState DEF QueueInvariant, WorkIsReal, ReadersHold, TokensAreReal, RatedOnce

LEMMA InvariantStep ==
    QueueInvariant /\ [Next]_vars => QueueInvariant'
<1> SUFFICES ASSUME QueueInvariant, [Next]_vars PROVE QueueInvariant'
  OBVIOUS
<1>1. TypeOK /\ WorkIsReal /\ TokensAreReal
  BY DEF QueueInvariant
<1>2. QED
  BY <1>1, TypeStep, WorkStep, ReadersStep, TokenStep, OnceStep DEF QueueInvariant

\* The invariant of the rating queue, however late results are reported, leases expire,
\* workers fail and their clocks disagree.
THEOREM InvariantHolds == Spec => []QueueInvariant
BY InvariantInitially, InvariantStep, PTL DEF Spec

\* Every row and every handler of the rating queue has its type.
THEOREM TypeCorrect == Spec => []TypeOK
<1>1. QueueInvariant => TypeOK
  BY DEF QueueInvariant
<1>2. QED
  BY <1>1, InvariantHolds, PTL

\* ProcessRatingResult rates a result once and completely, however often it was claimed
\* and whatever answers to its commits were lost.
THEOREM AlwaysRatedOnce == Spec => []RatedOnce
<1>1. QueueInvariant => RatedOnce
  BY DEF QueueInvariant
<1>2. QED
  BY <1>1, InvariantHolds, PTL

-----------------------------------------------------------------------------
(***************************************************************************)
(* The order of ratings, up to the first late result.                      *)
(***************************************************************************)

\* ORDER BY available_at, event_id is a total order of the results.
LEMMA PrecedesIsTotal ==
    ASSUME NEW d \in Results, NEW e \in Results, NEW f \in Results
    PROVE  /\ d # e => Precedes(d, e) \/ Precedes(e, d)
           /\ Precedes(d, e) => d # e /\ ~Precedes(e, d)
           /\ Precedes(d, e) /\ Precedes(e, f) => Precedes(d, f)
<1>1. /\ AvailableAt[d] \in Nat /\ AvailableAt[e] \in Nat /\ AvailableAt[f] \in Nat
      /\ Position[d] \in Nat /\ Position[e] \in Nat /\ Position[f] \in Nat
      /\ Position[d] = Position[e] => d = e
  BY RatingAssumption
<1>2. QED
  BY <1>1 DEF Precedes

\* A result is found late when it is stored, and stays so.
LEMMA LateGrows ==
    ASSUME TypeOK, WorkIsReal, [Next]_vars
    PROVE  /\ late \subseteq late'
           /\ late' = late \/ \E e \in Results : StoreEffect(e)
BY StepEffects DEF StoreEffect, ClaimEffect, BeginEffect, ReadEffect, LeaveEffect, CommitEffect,
                   TimeEffect

LEMMA OvertakenStep ==
    ASSUME OrderInvariant, [Next]_vars
    PROVE  OvertakenAreLate'
<1>0. /\ TypeOK /\ WorkIsReal /\ ReadersHold /\ TokensAreReal /\ OvertakenAreLate
      /\ row \in [Results -> ResultRow]
  BY DEF OrderInvariant, QueueInvariant, TypeOK
<1>1. SUFFICES ASSUME NEW e \in Results, NEW d \in Results, row'[e].status = "pending",
                      Precedes(e, d), row'[d].status = "processed" \/ row'[d].token # 0
               PROVE  e \in late'
  BY DEF OvertakenAreLate, Overtaken, Precedes
<1>2. e # d
  BY <1>1, PrecedesIsTotal
<1>3. CASE StoreEffect(e)
  <2>1. row'[d] = row[d]
    BY <1>0, <1>2, <1>3, WriteFacts DEF StoreEffect
  <2>2. Overtaken(e)
    BY <1>1, <2>1 DEF Overtaken
  <2>3. QED
    BY <1>3, <2>2 DEF StoreEffect
<1>4. CASE row[e].status = "pending"
  <2>1. row[d].status = "processed" \/ row[d].token # 0
    <3>1. ASSUME NEW w \in Workers, CommitEffect(w), work[w].result = d
          PROVE  row[d].token # 0
      BY <1>0, <3>1 DEF CommitEffect, AllRead, ReadersHold, TokensAreReal
    <3>2. ASSUME NEW w \in Workers, ClaimEffect(w, d)
          PROVE  FALSE
      BY <1>1, <1>4, <3>2 DEF ClaimEffect, Head
    <3>3. QED
      BY <1>0, <1>1, <3>1, <3>2, StatusMoves, TokenMoves
  <2>2. e \in late
    BY <1>0, <1>1, <1>4, <2>1 DEF OvertakenAreLate, Overtaken
  <2>3. QED
    BY <1>0, <2>2, LateGrows
<1>5. QED
  BY <1>0, <1>1, <1>3, <1>4, StatusMoves

\* What is timely after a step was timely before.
LEMMA TimelyBefore ==
    ASSUME TypeOK, WorkIsReal, [Next]_vars, NEW e, \A d \in late' : Precedes(e, d)
    PROVE  Timely(e)
BY LateGrows DEF Timely

\* All that is claimed or processed when a timely result waits comes before it, and is
\* timely itself.
LEMMA TimelyWaits ==
    ASSUME OrderInvariant, NEW e \in Results, Timely(e), row[e].status = "pending",
           NEW d \in Results \ {e}, row[d].status = "processed" \/ row[d].token # 0
    PROVE  Precedes(d, e) /\ Timely(d)
<1>0. OvertakenAreLate /\ late \subseteq Results
  BY DEF OrderInvariant, QueueInvariant, TypeOK
<1>1. ~Precedes(e, e)
  BY PrecedesIsTotal
<1>2. ~Precedes(e, d)
  BY <1>0, <1>1 DEF OvertakenAreLate, Overtaken, Timely
<1>3. Precedes(d, e)
  BY <1>2, PrecedesIsTotal
<1>4. \A f \in late : Precedes(d, f)
  BY <1>0, <1>3, PrecedesIsTotal DEF Timely
<1>5. QED
  BY <1>3, <1>4 DEF Timely

\* The transaction on a timely result is the only one.
LEMMA TimelyIsAlone ==
    ASSUME OrderInvariant, NEW w \in Workers, work[w].phase = "reading", Timely(work[w].result),
           NEW v \in Workers, work[v].phase = "reading"
    PROVE  v = w
<1> SUFFICES ASSUME v # w PROVE FALSE
  OBVIOUS
<1>0. PICK d, e : d = work[v].result /\ e = work[w].result
  OBVIOUS
<1>1. /\ d \in Results /\ e \in Results /\ d # e
      /\ row[d].status = "pending" /\ row[e].status = "pending"
      /\ row[d].token # 0 /\ row[e].token # 0
  BY <1>0 DEF OrderInvariant, QueueInvariant, WorkIsReal, ReadersHold, TokensAreReal, ResultLocked
<1>2. Precedes(d, e) /\ Timely(d)
  BY <1>0, <1>1, TimelyWaits
<1>3. Precedes(e, d)
  BY <1>1, <1>2, TimelyWaits
<1>4. QED
  BY <1>1, <1>2, <1>3, PrecedesIsTotal

LEMMA FreshStep ==
    ASSUME OrderInvariant, [Next]_vars
    PROVE  TimelyReadsAreFresh'
<1>0. TypeOK /\ WorkIsReal /\ TimelyReadsAreFresh /\ work \in [Workers -> Handler]
  BY DEF OrderInvariant, QueueInvariant, TypeOK
<1>1. SUFFICES ASSUME NEW v \in Workers, work'[v].phase = "reading",
                      \A d \in late' : Precedes(work'[v].result, d), NEW p \in work'[v].read
               PROVE  work'[v].before[p] = rating'[p]
  BY DEF TimelyReadsAreFresh, Timely, Precedes
<1>2. /\ work[v].phase = "reading" \/ BeginEffect(v)
      /\ work'[v].result = work[v].result /\ Timely(work[v].result)
  <2>1. work'[v].result = work[v].result
    BY <1>0, <1>1, WhoReads
  <2>2. \A d \in late' : Precedes(work[v].result, d)
    BY <1>1, <2>1
  <2>3. QED
    BY <1>0, <1>1, <2>1, <2>2, TimelyBefore, WhoReads
<1>3. ASSUME NEW w \in Workers, NEW h, Moves(w, h)
      PROVE  IF v = w THEN work'[v] = h ELSE work'[v] = work[v]
  BY <1>0, <1>3, MoveFacts
<1>4. CASE UNCHANGED rating /\ work'[v] = work[v]
  BY <1>0, <1>1, <1>2, <1>4 DEF TimelyReadsAreFresh
<1>5. ASSUME NEW w \in Workers, NEW e \in Results, ClaimEffect(w, e)
      PROVE  work'[v] = work[v] /\ UNCHANGED rating
  BY <1>1, <1>3, <1>5 DEF ClaimEffect
<1>6. ASSUME NEW w \in Workers, BeginEffect(w)
      PROVE  work'[v].before[p] = rating'[p]
  <2>1. v # w
    BY <1>0, <1>1, <1>3, <1>6 DEF BeginEffect, WorkIsReal
  <2>2. QED
    BY <1>3, <1>4, <1>6, <2>1 DEF BeginEffect
<1>7. ASSUME NEW w \in Workers, NEW q \in Players, ReadEffect(w, q)
      PROVE  work'[v].before[p] = rating'[p]
  <2>1. CASE v # w
    BY <1>3, <1>4, <1>7, <2>1 DEF ReadEffect
  <2>2. CASE v = w
    <3>1. /\ work[v].phase = "reading" /\ work'[v].read = work[v].read \cup {q}
          /\ work'[v].before[q] = rating[q] /\ rating' = rating
          /\ \A x \in Players \ {q} : work'[v].before[x] = work[v].before[x]
      BY <1>3, <1>7, <2>2 DEF ReadEffect
    <3>2. work[v].read \subseteq Players
      BY <1>0 DEF Handler
    <3>3. QED
      BY <1>0, <1>1, <1>2, <3>1, <3>2 DEF TimelyReadsAreFresh
  <2>3. QED
    BY <2>1, <2>2
<1>8. ASSUME NEW w \in Workers, LeaveEffect(w)
      PROVE  work'[v] = work[v] /\ UNCHANGED rating
  BY <1>1, <1>3, <1>8 DEF LeaveEffect
<1>9. ASSUME NEW w \in Workers, CommitEffect(w)
      PROVE  FALSE
  <2>1. work'[v] = work[v] /\ v # w
    BY <1>1, <1>3, <1>9 DEF CommitEffect
  <2>2. work[v].phase = "reading" /\ work[w].phase = "reading"
    BY <1>1, <1>9, <2>1 DEF CommitEffect, AllRead
  <2>3. QED
    BY <1>2, <2>1, <2>2, TimelyIsAlone
<1>10. QED
  BY <1>0, <1>4, <1>5, <1>6, <1>7, <1>8, <1>9, StepEffects DEF StoreEffect, TimeEffect

\* What the commit of a timely result does: it adds its result to what is stored now,
\* which is everything that was processed.
LEMMA TimelyCommit ==
    ASSUME OrderInvariant, [Next]_vars, NEW w \in Workers, CommitEffect(w),
           Timely(work[w].result)
    PROVE  LET e == work[w].result
           IN  /\ e \in Results /\ row[e].status = "pending" /\ row'[e].status = "processed"
               /\ row[e].token # 0 /\ \A d \in Results \ {e} : row'[d] = row[d]
               /\ \A p \in Players : rating'[p].counted =
                    IF p \in PlayersOf[e] THEN rating[p].counted \cup {e} ELSE rating[p].counted
               /\ \A p \in PlayersOf[e] : p \in Players /\ work[w].before[p].counted = rating[p].counted
               /\ \A p \in Players : rating[p].counted =
                    {d \in Results : p \in PlayersOf[d] /\ row[d].status = "processed"}
<1> DEFINE e == work[w].result
<1>0. /\ TypeOK /\ WorkIsReal /\ TimelyReadsAreFresh /\ row \in [Results -> ResultRow]
      /\ work[w].phase = "reading" /\ work[w].read = PlayersOf[e] /\ row[e].status = "pending"
      /\ row[e].token # 0
  BY DEF OrderInvariant, QueueInvariant, TypeOK, CommitEffect, AllRead, ReadersHold, TokensAreReal
<1>1. e \in Results /\ PlayersOf[e] \subseteq Players
  BY <1>0, RatingAssumption DEF WorkIsReal
<1>2. row'[e].status = "processed" /\ \A d \in Results \ {e} : row'[d] = row[d]
  BY <1>0, <1>1, WriteFacts DEF CommitEffect
<1>3. \A p \in PlayersOf[e] : work[w].before[p] = rating[p]
  BY <1>0 DEF TimelyReadsAreFresh
<1>4. \A p \in Players : rating'[p] =
        IF p \in PlayersOf[e]
          THEN [counted |-> work[w].before[p].counted \cup {e}, updatedAt |-> work[w].at]
          ELSE rating[p]
  BY DEF CommitEffect
<1>5. \A p \in Players : rating[p].counted =
        {d \in Results : p \in PlayersOf[d] /\ row[d].status = "processed"}
  <2>1. \A d \in Results : row[d].status = "processed" => Timely(d)
    BY <1>0, <1>1, TimelyWaits
  <2>2. QED
    BY <2>1 DEF OrderInvariant, TimelyRatingsAreSerial, RatingsAreSerial
<1> HIDE DEF e
<1>6. \A p \in Players : rating'[p].counted =
        IF p \in PlayersOf[e] THEN rating[p].counted \cup {e} ELSE rating[p].counted
  <2>1. SUFFICES ASSUME NEW p \in Players
                 PROVE  rating'[p].counted =
                          IF p \in PlayersOf[e] THEN rating[p].counted \cup {e} ELSE rating[p].counted
    OBVIOUS
  <2>2. CASE p \in PlayersOf[e]
    <3>1. rating'[p] = [counted |-> work[w].before[p].counted \cup {e}, updatedAt |-> work[w].at]
      BY <1>4, <2>2
    <3>2. rating'[p].counted = work[w].before[p].counted \cup {e}
      BY <3>1
    <3>3. QED
      BY <1>3, <2>2, <3>2
  <2>3. CASE p \notin PlayersOf[e]
    BY <1>4, <2>3, Zenon
  <2>4. QED
    BY <2>2, <2>3
<1>7. QED
  BY <1>0, <1>1, <1>2, <1>3, <1>5, <1>6 DEF e

LEMMA SerialStep ==
    ASSUME OrderInvariant, [Next]_vars
    PROVE  TimelyRatingsAreSerial'
<1>0. TypeOK /\ WorkIsReal /\ TimelyRatingsAreSerial
  BY DEF OrderInvariant, QueueInvariant
<1>1. SUFFICES ASSUME \A e \in Results : row'[e].status = "processed" =>
                        \A d \in late' : Precedes(e, d),
                      NEW p \in Players
               PROVE  rating'[p].counted =
                        {d \in Results : p \in PlayersOf[d] /\ row'[d].status = "processed"}
  BY DEF TimelyRatingsAreSerial, RatingsAreSerial, Timely, Precedes
<1>2. ASSUME NEW w \in Workers, CommitEffect(w)
      PROVE  rating'[p].counted =
               {d \in Results : p \in PlayersOf[d] /\ row'[d].status = "processed"}
  <2>0. PICK e : e = work[w].result
    OBVIOUS
  <2>1. e \in Results /\ row'[e].status = "processed"
    BY <1>0, <1>2, <2>0, WriteFacts DEF CommitEffect, AllRead, WorkIsReal, TypeOK
  <2>2. Timely(work[w].result)
    BY <1>0, <1>1, <2>0, <2>1, TimelyBefore
  <2>3. /\ row[e].status = "pending" /\ \A d \in Results \ {e} : row'[d] = row[d]
        /\ rating'[p].counted =
             IF p \in PlayersOf[e] THEN rating[p].counted \cup {e} ELSE rating[p].counted
        /\ rating[p].counted = {d \in Results : p \in PlayersOf[d] /\ row[d].status = "processed"}
    BY <1>2, <2>0, <2>2, TimelyCommit
  <2>4. \A d \in Results : row'[d].status = "processed" <=> row[d].status = "processed" \/ d = e
    BY <2>1, <2>3
  <2>5. QED
    BY <2>1, <2>3, <2>4
<1>3. CASE \A w \in Workers : ~CommitEffect(w)
  <2>1. UNCHANGED rating
    BY <1>0, <1>3, StepEffects DEF StoreEffect, ClaimEffect, BeginEffect, ReadEffect,
                                   LeaveEffect, TimeEffect
  <2>2. \A d \in Results : row'[d].status = "processed" <=> row[d].status = "processed"
    BY <1>0, <1>3, StatusMoves
  <2>3. \A e \in Results : row[e].status = "processed" => Timely(e)
    BY <1>0, <1>1, <2>2, TimelyBefore
  <2>4. rating[p].counted = {d \in Results : p \in PlayersOf[d] /\ row[d].status = "processed"}
    BY <1>0, <2>3 DEF TimelyRatingsAreSerial, RatingsAreSerial
  <2>5. QED
    BY <2>1, <2>2, <2>4
<1>4. QED
  BY <1>2, <1>3

\* The results a player had before e.
Earlier(e, p) ==
    {d \in Results : row[d].status # "none" /\ Precedes(d, e) /\ p \in PlayersOf[d]}

\* What was stored before a claimed or processed result does not change any more, while
\* the result is timely.
LEMMA EarlierStays ==
    ASSUME TypeOK, WorkIsReal, [Next]_vars, NEW e \in Results, NEW p,
           row[e].status = "processed" \/ row[e].token # 0, \A d \in late' : Precedes(e, d)
    PROVE  Earlier(e, p)' = Earlier(e, p)
<1>1. ASSUME NEW d \in Results, Precedes(d, e)
      PROVE  row'[d].status # "none" <=> row[d].status # "none"
  <2>1. ~StoreEffect(d)
    <3>1. SUFFICES ASSUME StoreEffect(d) PROVE FALSE
      OBVIOUS
    <3>2. Overtaken(d)
      BY <1>1 DEF Overtaken
    <3>3. d \in late'
      BY <3>1, <3>2 DEF StoreEffect
    <3>4. QED
      BY <1>1, <3>3, PrecedesIsTotal
  <2>2. ASSUME row[d].status = "none", row'[d].status = "processed"
        PROVE  FALSE
    BY <2>2, StatusMoves DEF CommitEffect
  <2>3. row'[d].status \in {"none", "pending", "processed"}
    BY TypeStep DEF TypeOK, ResultRow
  <2>4. QED
    BY <2>1, <2>2, <2>3, StatusMoves
<1>2. QED
  BY <1>1 DEF Earlier, Precedes

LEMMA OrderStep ==
    ASSUME OrderInvariant, [Next]_vars
    PROVE  InAvailabilityOrder'
<1>0. /\ TypeOK /\ WorkIsReal /\ RatedOnce /\ updates \subseteq Update
      /\ \A d \in Results : row[d].status \in {"none", "pending", "processed"}
  BY DEF OrderInvariant, QueueInvariant, TypeOK, ResultRow
<1>1. \A u \in updates : Timely(u.result) => u.before = Earlier(u.result, u.player)
  BY DEF OrderInvariant, InAvailabilityOrder, Earlier
<1>2. SUFFICES ASSUME NEW u \in updates', \A d \in late' : Precedes(u.result, d)
               PROVE  u.before = Earlier(u.result, u.player)'
  BY DEF InAvailabilityOrder, Earlier, Timely, Precedes
<1>3. Timely(u.result)
  BY <1>0, <1>2, TimelyBefore
<1>4. ASSUME u \in updates
      PROVE  u.before = Earlier(u.result, u.player)'
  <2>1. u.result \in Results /\ u.player \in Players
    BY <1>0, <1>4 DEF Update
  <2>2. row[u.result].status = "processed"
    BY <1>0, <1>4, <2>1 DEF RatedOnce
  <2>3. QED
    BY <1>0, <1>1, <1>2, <1>3, <1>4, <2>1, <2>2, EarlierStays
<1>5. ASSUME NEW w \in Workers, CommitEffect(w), u \notin updates
      PROVE  u.before = Earlier(u.result, u.player)'
  <2>0. PICK e : e = work[w].result
    OBVIOUS
  <2>1. PICK p \in PlayersOf[e] :
          u = [player |-> p, result |-> e, before |-> work[w].before[p].counted]
    BY <1>5, <2>0 DEF CommitEffect, UpdatesOf
  <2>2. u.player = p /\ u.result = e /\ u.before = work[w].before[p].counted
    BY <2>1
  <2>3. /\ e \in Results /\ row[e].status = "pending" /\ row[e].token # 0 /\ p \in Players
        /\ work[w].before[p].counted = rating[p].counted
        /\ rating[p].counted = {d \in Results : p \in PlayersOf[d] /\ row[d].status = "processed"}
    BY <1>3, <1>5, <2>0, <2>2, TimelyCommit
  <2>4. ASSUME NEW d \in Results
        PROVE  row[d].status = "processed" <=> row[d].status # "none" /\ Precedes(d, e)
    <3>1. CASE row[d].status = "processed"
      BY <1>3, <2>2, <2>3, <3>1, TimelyWaits
    <3>2. ASSUME row[d].status = "pending", Precedes(d, e)
          PROVE  FALSE
      <4>1. d \in late
        BY <2>3, <3>2 DEF OrderInvariant, OvertakenAreLate, Overtaken
      <4>2. QED
        BY <1>3, <2>2, <2>3, <3>2, <4>1, PrecedesIsTotal DEF Timely
    <3>3. QED
      BY <1>0, <3>1, <3>2
  <2>5. rating[p].counted = Earlier(e, p)
    BY <2>3, <2>4 DEF Earlier
  <2>6. Earlier(e, p)' = Earlier(e, p)
    BY <1>0, <1>2, <2>2, <2>3, EarlierStays
  <2>7. u.before = Earlier(e, p)'
    BY <2>2, <2>3, <2>5, <2>6
  <2>8. QED
    BY <2>2, <2>7 DEF Earlier
<1>6. ASSUME \A w \in Workers : ~CommitEffect(w)
      PROVE  u \in updates
  BY <1>0, <1>6, StepEffects DEF StoreEffect, ClaimEffect, BeginEffect, ReadEffect, LeaveEffect,
                                 TimeEffect
<1>7. QED
  BY <1>4, <1>5, <1>6

LEMMA OrderInitially ==
    Init => OrderInvariant
<1> SUFFICES ASSUME Init PROVE OrderInvariant
  OBVIOUS
<1>1. QueueInvariant
  BY InvariantInitially
<1>2. QED
  BY <1>1, InitialState DEF OrderInvariant, OvertakenAreLate, TimelyReadsAreFresh,
                            TimelyRatingsAreSerial, RatingsAreSerial, InAvailabilityOrder

LEMMA OrderInvariantStep ==
    OrderInvariant /\ [Next]_vars => OrderInvariant'
<1> SUFFICES ASSUME OrderInvariant, [Next]_vars PROVE OrderInvariant'
  OBVIOUS
<1>1. QueueInvariant'
  BY InvariantStep DEF OrderInvariant
<1>2. QED
  BY <1>1, OvertakenStep, FreshStep, SerialStep, OrderStep DEF OrderInvariant

\* However results are reported, workers fail and clocks disagree: the transaction of
\* ProcessRatingResult on a timely result is the only one, and what it read is current.
THEOREM OrderInvariantHolds == Spec => []OrderInvariant
BY OrderInitially, OrderInvariantStep, PTL DEF Spec

\* "Rating results are processed in availability order": every update starts from
\* exactly the earlier results of its player, up to the first result that was stored
\* when a later one (by available_at, then event_id) was claimed or processed.
THEOREM AlwaysInAvailabilityOrder == Spec => []InAvailabilityOrder
<1>1. OrderInvariant => InAvailabilityOrder
  BY DEF OrderInvariant
<1>2. QED
  BY <1>1, OrderInvariantHolds, PTL

\* "RatingQueue serializes verified results", as long as nothing at or after a result
\* stored late has been processed: the estimate of a player contains every processed
\* result of the player.  To lose a result takes one that was stored when a later one,
\* or one of the same available_at and a greater event_id, was claimed or processed.
THEOREM RatingsSerialUntilLate == Spec => []TimelyRatingsAreSerial
<1>1. OrderInvariant => TimelyRatingsAreSerial
  BY DEF OrderInvariant
<1>2. QED
  BY <1>1, OrderInvariantHolds, PTL
=============================================================================
