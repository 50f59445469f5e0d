-------------------------- MODULE RatingShadowProofs --------------------------
(***************************************************************************)
(* Proofs about RatingShadow, for every set of rooms, results, players,    *)
(* candidates and workers, every delay of storage and every skew of        *)
(* clocks, and without the bounds TLC needs (MaxTime, LastSlow, LastFault  *)
(* and MaxFaults are arbitrary).                                           *)
(***************************************************************************)
EXTENDS RatingShadow, InductionLemmas

-----------------------------------------------------------------------------
(***************************************************************************)
(* The inductive invariant.                                                *)
(***************************************************************************)
Processed(i) == row[i].status = "processed"

\* A worker that is not idle is at work on a stored item.  A result is claimed after
\* the item of its room was processed.  Before its transaction it has read nothing.
WorkIsReal ==
    \A w \in Workers : work[w].phase # "idle" =>
        /\ work[w].item \in Items
        /\ row[work[w].item].status # "none"
        /\ work[w].item.kind = "result" => Processed(RoomItem(work[w].item.room))
        /\ work[w].phase = "claimed" => work[w].token # 0 /\ work[w].read = {}

\* The lock of the item lasts: while a transaction is open, its claim stands and nobody
\* else has one for the item.
TransactionsHold ==
    \A w \in Workers : InTransaction(w) =>
        /\ row[work[w].item].status = "pending"
        /\ row[work[w].item].token = work[w].token
        /\ work[w].token # 0
        /\ ~ItemLocked(w, work[w].item)

\* A result and its room go through the timeline in that order, and a room is predicted
\* when its item is processed.
RoomsFirst ==
    /\ \A r \in Finished :
         /\ row[ResultItem(r)].status # "none" => row[RoomItem(r)].status # "none"
         /\ Processed(ResultItem(r)) => Processed(RoomItem(r))
    /\ \A r \in Rooms : prediction[r].candidate # NoCandidate => Processed(RoomItem(r))

\* The candidate of a transaction that reads covers its item, and a result belongs to
\* the candidate that predicted its room.
CandidateIsChosen ==
    \A w \in Workers : InTransaction(w) =>
        LET h == work[w]
        IN  /\ h.phase = "skipping" => h.candidate = NoCandidate
            /\ h.phase = "reading" => h.candidate \in Candidates
            /\ h.item.kind = "result" => h.candidate = prediction[h.item.room].candidate
            /\ h.phase = "reading" /\ h.item.kind = "room" =>
                 ActivatedAt[h.candidate] <= FilledAt[h.item.room]
            /\ h.phase = "reading" /\ h.item.kind = "result" =>
                 AvailableAt[h.item.room] > Cutoff[h.candidate]

\* A state is not older than the results it counts, and those are processed.
StatesAreDated ==
    \A c \in Candidates, p \in Players : \A d \in state[c][p].counted :
        /\ d \in Finished /\ Processed(ResultItem(d))
        /\ AvailableAt[d] <= state[c][p].updatedAt

\* What a transaction has read was available at the time of its item.
ReadsAreDated ==
    \A w \in Workers, p \in Players : \A d \in work[w].before[p] :
        /\ d \in Finished /\ Processed(ResultItem(d))
        /\ AvailableAt[d] <= At(work[w].item)

\* An item that waits although a later one was claimed or processed was stored late.
OvertakenAreLate ==
    \A i, j \in Items :
        /\ row[i].status = "pending"
        /\ Processed(j) \/ row[j].token # 0
        /\ Precedes(i, j)
        => i \in late

\* What a transaction has read for a timely item is still what is stored.
TimelyReadsAreFresh ==
    \A w \in Workers : work[w].phase = "reading" /\ Timely(work[w].item) =>
        \A p \in work[w].read : work[w].before[p] = state[work[w].candidate][p].counted

\* While everything processed was timely, no state has lost a result.
TimelyStatesAreWhole ==
    (\A i \in Items : Processed(i) => Timely(i)) =>
        \A c \in Candidates, p \in Players : state[c][p].counted = Learned(c, p)

ShadowInvariant ==
    /\ TypeOK
    /\ WorkIsReal
    /\ TransactionsHold
    /\ RoomsFirst
    /\ CandidateIsChosen
    /\ StatesAreDated
    /\ ReadsAreDated
    /\ EvidenceIsPaired
    /\ NoLeakage
    /\ OvertakenAreLate
    /\ TimelyReadsAreFresh
    /\ TimelyStatesAreWhole
    /\ FollowsTimeline

-----------------------------------------------------------------------------
(***************************************************************************)
(* Items and their order.                                                  *)
(***************************************************************************)
LEMMA ItemFacts ==
    ASSUME NEW i \in Items
    PROVE  /\ i.kind \in {"room", "result"} /\ i.room \in Rooms
           /\ i.kind = "room" => i = RoomItem(i.room)
           /\ i.kind = "result" => i = ResultItem(i.room) /\ i.room \in Finished
           /\ RoomItem(i.room) \in Items
           /\ At(i) \in Nat
  BY ShadowAssumption DEF Items, RoomItem, ResultItem, At

LEMMA ItemsOfRooms ==
    ASSUME NEW r \in Rooms
    PROVE  /\ RoomItem(r) \in Items /\ RoomItem(r).kind = "room" /\ RoomItem(r).room = r
           /\ At(RoomItem(r)) = FilledAt[r]
           /\ ResultItem(r).kind = "result" /\ ResultItem(r).room = r
           /\ At(ResultItem(r)) = AvailableAt[r] /\ RoomItem(r) # ResultItem(r)
           /\ r \in Finished => ResultItem(r) \in Items
           /\ FilledAt[r] \in Nat /\ AvailableAt[r] \in Nat /\ FilledAt[r] <= AvailableAt[r]
  BY ShadowAssumption DEF Items, RoomItem, ResultItem, At

LEMMA FinishedAreRooms == \A d \in Finished : d \in Rooms
  BY ShadowAssumption

\* The timeline is a strict total order.
LEMMA PrecedesIsTotal ==
    ASSUME NEW i \in Items, NEW j \in Items
    PROVE  /\ ~Precedes(i, i)
           /\ ~(Precedes(i, j) /\ Precedes(j, i))
           /\ Precedes(i, j) \/ Precedes(j, i) \/ i = j
<1>1. /\ At(i) \in Nat /\ At(j) \in Nat /\ Position[i.room] \in Nat /\ Position[j.room] \in Nat
      /\ i.kind \in {"room", "result"} /\ j.kind \in {"room", "result"}
  BY ItemFacts, ShadowAssumption
<1>2. i.kind = j.kind /\ Position[i.room] = Position[j.room] => i = j
  <2>1. Position[i.room] = Position[j.room] => i.room = j.room
    BY ItemFacts, ShadowAssumption
  <2>2. QED
    BY <1>1, <2>1, ItemFacts
<1>3. QED
  BY <1>1, <1>2 DEF Precedes

LEMMA PrecedesIsTransitive ==
    ASSUME NEW i \in Items, NEW j \in Items, NEW k \in Items, Precedes(i, j), Precedes(j, k)
    PROVE  Precedes(i, k)
<1>1. /\ At(i) \in Nat /\ At(j) \in Nat /\ At(k) \in Nat
      /\ Position[i.room] \in Nat /\ Position[j.room] \in Nat /\ Position[k.room] \in Nat
      /\ i.kind \in {"room", "result"} /\ j.kind \in {"room", "result"}
      /\ k.kind \in {"room", "result"}
  BY ItemFacts, ShadowAssumption
<1>2. QED
  BY <1>1 DEF Precedes

\* A room precedes its result, also when both have the same time.
LEMMA RoomPrecedesResult ==
    ASSUME NEW r \in Finished
    PROVE  Precedes(RoomItem(r), ResultItem(r))
<1>1. r \in Rooms
  BY FinishedAreRooms
<1>2. QED
  BY <1>1, ItemsOfRooms DEF Precedes

-----------------------------------------------------------------------------
(***************************************************************************)
(* Rows, tokens and handlers.                                              *)
(***************************************************************************)

\* What the queue writes into the row of an item.
StoredRow(i, fit) ==
    [NoRow EXCEPT !.status = "pending", !.nextAttemptAt = At(i), !.fit = fit]

ClaimedRow(r, token, until) == [r EXCEPT !.token = token, !.claimedUntil = until]

RetriedRow(r, at) == Released([r EXCEPT !.nextAttemptAt = at])

LEMMA WrittenRows ==
    ASSUME NEW r \in WorkRow, NEW at \in Int, NEW token \in Nat
    PROVE  /\ ClaimedRow(r, token, at) \in WorkRow /\ ClaimedRow(r, token, at).status = r.status
           /\ RetriedRow(r, at) \in WorkRow /\ RetriedRow(r, at).status = r.status
           /\ RetriedRow(r, at).token = 0
<1>1. 0 \in Nat /\ 0 \in Int
  OBVIOUS
<1>2. QED
  BY <1>1, Zenon DEF ClaimedRow, RetriedRow, Released, WorkRow

LEMMA ConstantRows ==
    /\ NoRow \in WorkRow /\ NoRow.status = "none" /\ NoRow.token = 0
    /\ ProcessedRow \in WorkRow /\ ProcessedRow.status = "processed" /\ ProcessedRow.token = 0
<1>1. 0 \in Nat /\ 0 \in Int
  OBVIOUS
<1>2. QED
  BY <1>1, Zenon DEF NoRow, ProcessedRow, WorkRow

LEMMA StoredRows ==
    ASSUME NEW i \in Items, NEW fit \in BOOLEAN
    PROVE  LET r == StoredRow(i, fit)
           IN  r \in WorkRow /\ r.status = "pending" /\ r.token = 0
<1>1. At(i) \in Int /\ 0 \in Nat /\ 0 \in Int
  BY ItemFacts
<1>2. QED
  BY <1>1, Zenon DEF StoredRow, NoRow, WorkRow

\* There is always a token that nobody holds: fewer are held than there are to choose.
LEMMA TokenExists ==
    ASSUME NEW i
    PROVE  NewToken(i) \in Nat /\ NewToken(i) # 0
<1> DEFINE V == {v \in Workers : work[v].item = i}
           img == {work[w].token : w \in V}
           held == {row[i].token} \cup img
           n == Cardinality(Workers)
           free == (1 .. n + 2) \ held
<1>1. IsFiniteSet(Workers) /\ n \in Nat
  BY ShadowAssumption, FS_CardinalityType
<1>2. IsFiniteSet(V) /\ Cardinality(V) <= n
  <2>1. V \subseteq Workers
    OBVIOUS
  <2> HIDE DEF V
  <2>2. QED
    BY <1>1, <2>1, FS_Subset
<1>3. IsFiniteSet(img) /\ Cardinality(img) <= Cardinality(V)
  <2> DEFINE f == [w \in V |-> work[w].token]
  <2>1. f \in Surjection(V, img)
    BY DEF Surjection
  <2> HIDE DEF f, V, img
  <2>2. QED
    BY <1>2, <2>1, FS_Surjection
<1>4. /\ Cardinality(V) \in Nat /\ Cardinality(img) \in Nat
  <2> HIDE DEF V, img
  <2>1. QED
    BY <1>2, <1>3, FS_CardinalityType
<1>5. IsFiniteSet(held) /\ Cardinality(held) <= n + 1
  <2> DEFINE s == {row[i].token}
  <2>1. IsFiniteSet(s) /\ Cardinality(s) = 1
    BY FS_Singleton
  <2>2. held = s \cup img
    OBVIOUS
  <2> HIDE DEF s, img, held, n, V
  <2>3. /\ IsFiniteSet(s \cup img)
        /\ Cardinality(s \cup img) = Cardinality(s) + Cardinality(img) - Cardinality(s \cap img)
    BY <1>3, <2>1, FS_Union
  <2>4. Cardinality(s \cap img) \in Nat
    BY <1>3, FS_CardinalityType, FS_Intersection
  <2>5. QED
    BY <1>1, <1>2, <1>3, <1>4, <2>1, <2>2, <2>3, <2>4
<1>6. free # {}
  <2> DEFINE all == 1 .. n + 2
  <2>1. IsFiniteSet(all) /\ Cardinality(all) = n + 2
    <3> HIDE DEF n
    <3>1. Cardinality(1 .. n + 2) = IF 1 > n + 2 THEN 0 ELSE n + 2 - 1 + 1
      BY <1>1, FS_Interval
    <3>2. IsFiniteSet(1 .. n + 2)
      BY <1>1, FS_Interval
    <3>3. QED
      BY <1>1, <3>1, <3>2
  <2>2. free = {} => all \subseteq held
    OBVIOUS
  <2> HIDE DEF all, held, n, free
  <2>3. all \subseteq held => Cardinality(all) <= Cardinality(held)
    BY <1>5, FS_Subset
  <2>4. Cardinality(held) \in Nat
    BY <1>5, FS_CardinalityType
  <2>5. QED
    BY <1>1, <1>5, <2>1, <2>2, <2>3, <2>4
<1>7. PICK t \in free : \A u \in free : ~(u < t)
  <2>1. free \in SUBSET Nat
    BY <1>1
  <2> HIDE DEF free
  <2>2. QED
    BY <1>6, <2>1, LeastNumber
<1>8. /\ t \in 1 .. n + 2 /\ t \notin held
      /\ \A u \in 1 .. t - 1 : u \in held
  <2>1. t \in 1 .. n + 2 /\ t \notin held
    BY <1>7
  <2>2. ASSUME NEW u \in 1 .. t - 1
        PROVE  u \in held
    <3> HIDE DEF held, n
    <3>1. u \in 1 .. n + 2 /\ u < t
      BY <1>1, <2>1
    <3>2. QED
      BY <1>7, <3>1
  <2>3. QED
    BY <2>1, <2>2
<1>9. \E x \in 1 .. n + 2 : x \notin held /\ \A u \in 1 .. x - 1 : u \in held
  BY <1>8, Zenon
<1>10. NewToken(i) = CHOOSE x \in 1 .. n + 2 : x \notin held /\ \A u \in 1 .. x - 1 : u \in held
  BY Zenon DEF NewToken
<1> HIDE DEF held, n
<1>11. NewToken(i) \in 1 .. n + 2
  BY <1>9, <1>10, Zenon
<1>12. QED
  BY <1>1, <1>11
LEMMA EmptyHandler ==
    /\ Idle \in Handler /\ Idle.phase = "idle" /\ Idle.before = NothingSeen
    /\ NothingSeen \in [Players -> SUBSET Rooms] /\ \A p \in Players : NothingSeen[p] = {}
    /\ NoPrediction \in Prediction /\ NoPrediction.candidate = NoCandidate
    /\ Prior \in PlayerState /\ Prior.counted = {}
<1>1. NothingSeen \in [Players -> SUBSET Rooms] /\ \A p \in Players : NothingSeen[p] = {}
  BY DEF NothingSeen
<1>2. NoPrediction \in Prediction /\ NoPrediction.candidate = NoCandidate
  BY <1>1 DEF NoPrediction, Prediction
<1>3. Prior \in PlayerState /\ Prior.counted = {}
  BY DEF Prior, PlayerState
<1>4. QED
  BY <1>1, <1>2, <1>3 DEF Idle, Handler

\* What a worker becomes.
ClaimedBy(i, token) == [Idle EXCEPT !.phase = "claimed", !.item = i, !.token = token]

Opened(h, phase, c) == [h EXCEPT !.phase = phase, !.candidate = c]

HasRead(h, p, s) ==
    [h EXCEPT !.read = h.read \cup {p},
              !.before = [h.before EXCEPT ![p] = s.counted],
              !.locked = IF s.counted = {} THEN h.locked ELSE h.locked \cup {p}]

LEMMA ClaimedHandler ==
    ASSUME NEW i \in Items, NEW token \in Nat
    PROVE  LET g == ClaimedBy(i, token)
           IN  /\ g \in Handler /\ g.phase = "claimed" /\ g.item = i /\ g.token = token
               /\ g.read = {} /\ g.before = NothingSeen
BY EmptyHandler, Zenon DEF ClaimedBy, Handler, Idle

LEMMA OpenedHandler ==
    ASSUME NEW h \in Handler, NEW phase \in {"reading", "skipping"},
           NEW c \in Candidates \cup {NoCandidate}
    PROVE  LET g == Opened(h, phase, c)
           IN  /\ g \in Handler /\ g.phase = phase /\ g.candidate = c /\ g.item = h.item
               /\ g.token = h.token /\ g.read = h.read /\ g.before = h.before
BY Zenon DEF Opened, Handler

LEMMA ReadHandler ==
    ASSUME NEW h \in Handler, NEW p \in Players, NEW s \in PlayerState
    PROVE  LET g == HasRead(h, p, s)
           IN  /\ g \in Handler /\ g.phase = h.phase /\ g.candidate = h.candidate
               /\ g.item = h.item /\ g.token = h.token /\ g.read = h.read \cup {p}
               /\ g.before[p] = s.counted
               /\ \A q \in Players \ {p} : g.before[q] = h.before[q]
<1> DEFINE before == [h.before EXCEPT ![p] = s.counted]
           locked == IF s.counted = {} THEN h.locked ELSE h.locked \cup {p}
           g == HasRead(h, p, s)
<1>1. /\ before \in [Players -> SUBSET Rooms] /\ before[p] = s.counted
      /\ \A q \in Players \ {p} : before[q] = h.before[q]
  BY DEF Handler, PlayerState
<1>2. locked \in SUBSET Players /\ h.read \cup {p} \in SUBSET Players
  BY DEF Handler
<1>3. g = [h EXCEPT !.read = h.read \cup {p}, !.before = before, !.locked = locked]
  BY DEF HasRead
<1> HIDE DEF before, locked, g
<1>4. /\ g \in Handler /\ g.phase = h.phase /\ g.candidate = h.candidate
      /\ g.item = h.item /\ g.token = h.token /\ g.read = h.read \cup {p} /\ g.before = before
  BY <1>2, <1>1, <1>3, Zenon DEF Handler
<1>5. QED
  BY <1>1, <1>4, Zenon DEF g

LEMMA RetryHandler ==
    ASSUME TypeOK, NEW w \in Workers
    PROVE  /\ WillRetry(w) \in Handler /\ WillRetry(w).phase = "retry"
           /\ WillRetry(w).item = work[w].item /\ WillRetry(w).before = NothingSeen
<1>1. work[w] \in Handler
  BY DEF TypeOK
<1>2. QED
  BY <1>1, EmptyHandler, Zenon DEF WillRetry, Handler, Idle

-----------------------------------------------------------------------------
(***************************************************************************)
(* What a step may do.  h is what the worker becomes and r what the row of *)
(* its item becomes.                                                       *)
(***************************************************************************)
Moves(w, h) == h \in Handler /\ Goes(w, h)

Writes(i, r) == r \in WorkRow /\ row' = [row EXCEPT ![i] = r]

StoreEffect(i) ==
    /\ row[i].status = "none"
    /\ i.kind = "result" => row[RoomItem(i.room)].status # "none"
    /\ \E r : Writes(i, r) /\ r.status = "pending" /\ r.token = 0
    /\ late' = IF \E j \in Items : (Processed(j) \/ row[j].token # 0) /\ Precedes(i, j)
                 THEN late \cup {i} ELSE late
    /\ UNCHANGED <<clock, deployment, evidence, work, faults>>

ClaimEffect(w, i) ==
    /\ Head(i) /\ ~ItemLocked(w, i) /\ work[w].phase = "idle"
    /\ \E r : Writes(i, r) /\ r.status = "pending"
    /\ \E h : /\ Moves(w, h) /\ h.phase = "claimed" /\ h.item = i /\ h.token # 0
              /\ h.read = {} /\ h.before = NothingSeen
    /\ UNCHANGED <<clock, deployment, evidence, late, faults>>

BeginEffect(w, c) ==
    /\ work[w].phase = "claimed" /\ ~ItemLocked(w, work[w].item)
    /\ row[work[w].item].status = "pending" /\ row[work[w].item].token = work[w].token
    /\ c \in CandidatesFor(work[w].item) /\ HoldoutAccepts(work[w].item, c)
    /\ \E h : /\ Moves(w, h) /\ h.phase = IF c = NoCandidate THEN "skipping" ELSE "reading"
              /\ h.candidate = c /\ h.item = work[w].item /\ h.token = work[w].token
              /\ h.read = work[w].read /\ h.before = work[w].before
    /\ UNCHANGED <<clock, deployment, row, evidence, late, faults>>

ReadEffect(w, p) ==
    /\ work[w].phase = "reading" /\ p \in Players
    /\ ~Newer(state[work[w].candidate][p], work[w].item)
    /\ \E h : /\ Moves(w, h) /\ h.phase = "reading" /\ h.item = work[w].item
              /\ h.token = work[w].token /\ h.candidate = work[w].candidate
              /\ h.read = work[w].read \cup {p}
              /\ h.before[p] = state[work[w].candidate][p].counted
              /\ \A q \in Players \ {p} : h.before[q] = work[w].before[q]
    /\ UNCHANGED <<clock, deployment, row, evidence, late, faults>>

\* The worker gives up or is done.
Leaves(w) ==
    \E h : /\ Moves(w, h) /\ h.before = NothingSeen
           /\ h.phase = "idle" \/ (h.phase = "retry" /\ h.item = work[w].item)

\* It does so without a commit; only the retry writes the row.
LeaveEffect(w) ==
    /\ work[w].phase # "idle"
    /\ Leaves(w)
    /\ \/ UNCHANGED row
       \/ /\ ~ItemLocked(w, work[w].item)
          /\ work[w].phase = "retry"
          /\ \E r : /\ Writes(work[w].item, r) /\ r.status = row[work[w].item].status
                    /\ r.token = 0
    /\ faults' \in Nat
    /\ UNCHANGED <<clock, deployment, evidence, late>>

\* The three transactions that commit.
Predicts(w) ==
    /\ AllRead(w) /\ work[w].item.kind = "room"
    /\ prediction' = [prediction EXCEPT ![work[w].item.room] =
                        [candidate |-> work[w].candidate, seen |-> work[w].before]]
    /\ UNCHANGED <<state, updates, observations>>

Scores(w) ==
    LET r == work[w].item.room
        c == work[w].candidate
    IN  /\ AllRead(w) /\ work[w].item.kind = "result"
        /\ updates' = updates \cup
             {[player |-> p, result |-> r, candidate |-> c, before |-> work[w].before[p]] :
                p \in PlayersOf[r]}
        /\ state' = [state EXCEPT ![c] = [p \in Players |->
             IF p \in PlayersOf[r] THEN Advanced(r, work[w].before[p]) ELSE state[c][p]]]
        /\ observations' = observations \cup {[result |-> r, candidate |-> c]}
        /\ UNCHANGED prediction

Skips(w) == work[w].phase = "skipping" /\ UNCHANGED evidence

CommitEffect(w) ==
    /\ Predicts(w) \/ Scores(w) \/ Skips(w)
    /\ row[work[w].item].status = "pending"
    /\ \E r : Writes(work[w].item, r) /\ r.status = "processed" /\ r.token = 0
    /\ Leaves(w)
    /\ faults' \in Nat
    /\ UNCHANGED <<clock, deployment, late>>

\* The operator's deployments, and time.
QuietEffect ==
    /\ clock' \in Nat
    /\ deployment' \in [Candidates -> Deployment]
    /\ UNCHANGED <<row, evidence, late, work, faults>>

LEMMA CandidatesAreCandidates ==
    ASSUME TypeOK, NEW i \in Items, NEW c \in CandidatesFor(i)
    PROVE  c \in Candidates \cup {NoCandidate}
<1>1. i.room \in Rooms
  BY ItemFacts
<1>2. prediction[i.room].candidate \in Candidates \cup {NoCandidate}
  BY <1>1 DEF TypeOK, Prediction
<1>3. DeployedFor(i.room) \subseteq Candidates
  BY DEF DeployedFor
<1>4. QED
  BY <1>2, <1>3 DEF CandidatesFor

LEMMA StepEffects ==
    ASSUME TypeOK, WorkIsReal, CandidateIsChosen, [Next]_vars
    PROVE  \/ \E i \in Items : StoreEffect(i)
           \/ \E w \in Workers, i \in Items : ClaimEffect(w, i)
           \/ \E w \in Workers, c \in Candidates \cup {NoCandidate} : BeginEffect(w, c)
           \/ \E w \in Workers, p \in Players : ReadEffect(w, p)
           \/ \E w \in Workers : LeaveEffect(w)
           \/ \E w \in Workers : CommitEffect(w)
           \/ QuietEffect
<1>0. /\ clock \in Nat /\ row \in [Items -> WorkRow] /\ work \in [Workers -> Handler]
      /\ state \in [Candidates -> [Players -> PlayerState]]
      /\ faults \in Nat /\ faults + 1 \in Nat /\ deployment \in [Candidates -> Deployment]
  BY DEF TypeOK
<1>1. ASSUME NEW i \in Items, Store(i)
      PROVE  StoreEffect(i)
  <2>1. PICK fit \in BOOLEAN : row' = [row EXCEPT ![i] = StoredRow(i, fit)]
    BY <1>1, Zenon DEF Store, StoredRow
  <2>2. \E r : Writes(i, r) /\ r.status = "pending" /\ r.token = 0
    BY <2>1, StoredRows DEF Writes
  <2>3. QED
    BY <1>1, <2>2, Zenon DEF Store, StoreEffect, Processed
<1>2. ASSUME NEW w \in Workers, NEW i \in Items, Claim(w, i)
      PROVE  ClaimEffect(w, i)
  <2>1. Now(w) \in Int /\ Now(w) + LeaseDuration \in Int
    BY <1>0, ShadowAssumption DEF Now
  <2>2. row[i] \in WorkRow /\ NewToken(i) \in Nat /\ NewToken(i) # 0
    BY <1>0, TokenExists
  <2>3. /\ row' = [row EXCEPT ![i] = ClaimedRow(row[i], NewToken(i), Now(w) + LeaseDuration)]
        /\ Goes(w, ClaimedBy(i, NewToken(i)))
    BY <1>2, Zenon DEF Claim, ClaimedRow, ClaimedBy
  <2>4. row[i].status = "pending"
    BY <1>2 DEF Claim, Head
  <2>5. \E r : Writes(i, r) /\ r.status = "pending"
    <3> DEFINE r == ClaimedRow(row[i], NewToken(i), Now(w) + LeaseDuration)
    <3>1. r \in WorkRow /\ r.status = row[i].status
      BY <2>1, <2>2, WrittenRows
    <3>2. Writes(i, r)
      BY <2>3, <3>1, Zenon DEF Writes
    <3> HIDE DEF r
    <3>3. QED
      BY <2>4, <3>1, <3>2
  <2>6. \E h : /\ Moves(w, h) /\ h.phase = "claimed" /\ h.item = i /\ h.token # 0
               /\ h.read = {} /\ h.before = NothingSeen
    BY <2>2, <2>3, ClaimedHandler DEF Moves
  <2>7. QED
    BY <1>2, <2>5, <2>6 DEF Claim, ClaimEffect
<1>3. ASSUME NEW w \in Workers, Goes(w, WillRetry(w)) \/ Goes(w, Idle)
      PROVE  Leaves(w)
  BY <1>3, RetryHandler, EmptyHandler DEF Moves, Leaves
<1>4. ASSUME NEW w \in Workers, Begin(w)
      PROVE  (\E c \in Candidates \cup {NoCandidate} : BeginEffect(w, c)) \/ LeaveEffect(w)
  <2> DEFINE i == work[w].item
  <2>1. work[w].phase = "claimed" /\ i \in Items /\ work[w] \in Handler /\ ~ItemLocked(w, i)
    BY <1>0, <1>4 DEF Begin, WorkIsReal
  <2>2. PICK c \in CandidatesFor(i) :
          Goes(w, IF OwnsClaim(i, work[w].token) /\ Loads(c) /\ HoldoutAccepts(i, c)
                    THEN Opened(work[w], IF c = NoCandidate THEN "skipping" ELSE "reading", c)
                    ELSE WillRetry(w))
    BY <1>4, Zenon DEF Begin, Opened
  <2>3. c \in Candidates \cup {NoCandidate}
    BY <2>1, CandidatesAreCandidates
  <2>4. CASE OwnsClaim(i, work[w].token) /\ Loads(c) /\ HoldoutAccepts(i, c)
    <3> DEFINE ph == IF c = NoCandidate THEN "skipping" ELSE "reading"
               h == Opened(work[w], ph, c)
    <3>1. Goes(w, h) /\ ph \in {"reading", "skipping"}
      BY <2>2, <2>4
    <3>2. /\ h \in Handler /\ h.phase = ph /\ h.candidate = c /\ h.item = i
          /\ h.token = work[w].token /\ h.read = work[w].read /\ h.before = work[w].before
      <4> HIDE DEF ph
      <4>1. QED
        BY <2>1, <2>3, <3>1, OpenedHandler
    <3>3. row[i].status = "pending" /\ row[i].token = work[w].token
      BY <2>4 DEF OwnsClaim
    <3>4. \E g : /\ Moves(w, g) /\ g.phase = ph
                 /\ g.candidate = c /\ g.item = i /\ g.token = work[w].token
                 /\ g.read = work[w].read /\ g.before = work[w].before
      <4> HIDE DEF h, ph
      <4>1. QED
        BY <3>1, <3>2 DEF Moves
    <3>5. UNCHANGED <<clock, deployment, row, evidence, late, faults>>
      BY <1>4 DEF Begin
    <3>6. BeginEffect(w, c)
      BY <2>1, <2>2, <2>4, <3>3, <3>4, <3>5, Zenon DEF BeginEffect
    <3>7. QED
      BY <2>3, <3>6
  <2>5. CASE ~(OwnsClaim(i, work[w].token) /\ Loads(c) /\ HoldoutAccepts(i, c))
    BY <1>0, <1>3, <1>4, <2>1, <2>2, <2>5 DEF Begin, LeaveEffect
  <2>6. QED
    BY <2>4, <2>5
<1>5. ASSUME NEW w \in Workers, NEW p \in Players, Read(w, p)
      PROVE  ReadEffect(w, p) \/ LeaveEffect(w)
  <2> DEFINE s == state[work[w].candidate][p]
  <2>1. /\ work[w].phase = "reading" /\ work[w] \in Handler
        /\ UNCHANGED <<clock, deployment, row, evidence, late, faults>>
    BY <1>0, <1>5 DEF Read
  <2>2. work[w].candidate \in Candidates
    BY <2>1 DEF CandidateIsChosen, InTransaction
  <2>3. s \in PlayerState
    BY <1>0, <2>2
  <2>4. Goes(w, IF Newer(s, work[w].item) THEN WillRetry(w) ELSE HasRead(work[w], p, s))
    BY <1>5, Zenon DEF Read, HasRead
  <2>5. CASE Newer(s, work[w].item)
    BY <1>0, <1>3, <2>1, <2>4, <2>5 DEF LeaveEffect
  <2>6. CASE ~Newer(s, work[w].item)
    <3>1. Goes(w, HasRead(work[w], p, s))
      BY <2>4, <2>6
    <3>2. \E h : /\ Moves(w, h) /\ h.phase = "reading" /\ h.item = work[w].item
                 /\ h.token = work[w].token /\ h.candidate = work[w].candidate
                 /\ h.read = work[w].read \cup {p} /\ h.before[p] = s.counted
                 /\ \A q \in Players \ {p} : h.before[q] = work[w].before[q]
      BY <2>1, <2>3, <3>1, ReadHandler DEF Moves
    <3>3. QED
      BY <2>1, <2>6, <3>2, Zenon DEF ReadEffect
  <2>7. QED
    BY <2>5, <2>6
<1>6. ASSUME NEW w \in Workers,
             DeadlockVictim(w) \/ ModelRefuses(w) \/ StatementFails(w) \/ Crash(w)
      PROVE  LeaveEffect(w)
  <2>1. ASSUME DeadlockVictim(w)
        PROVE  work[w].phase # "idle"
    <3>1. PICK v \in Workers : WaitsFor(w, v)
      BY <2>1 DEF DeadlockVictim
    <3>2. Wanted(w) # {}
      BY <3>1 DEF WaitsFor
    <3>3. QED
      BY <3>2 DEF Wanted, AllRead
  <2>2. /\ work[w].phase # "idle"
        /\ Goes(w, WillRetry(w)) \/ Goes(w, Idle)
        /\ faults' = faults \/ faults' = faults + 1
        /\ UNCHANGED <<clock, deployment, row, evidence, late>>
    BY <1>6, <2>1 DEF DeadlockVictim, ModelRefuses, AllRead, StatementFails, Crash, InTransaction
  <2>3. QED
    BY <1>0, <1>3, <2>2 DEF LeaveEffect
<1>7. ASSUME NEW w \in Workers, ScheduleRetry(w)
      PROVE  LeaveEffect(w)
  <2> DEFINE i == work[w].item
             r == RetriedRow(row[i], Now(w) + FailureBackoff)
  <2>1. work[w].phase = "retry" /\ ~ItemLocked(w, i) /\ i \in Items
    BY <1>7 DEF ScheduleRetry, WorkIsReal
  <2>2. row[i] \in WorkRow /\ Now(w) + FailureBackoff \in Int
    BY <1>0, <2>1, ShadowAssumption DEF Now
  <2>3. r \in WorkRow /\ r.status = row[i].status /\ r.token = 0
    BY <2>2, WrittenRows
  <2>4. UNCHANGED row \/ row' = [row EXCEPT ![i] = r]
    BY <1>7, Zenon DEF ScheduleRetry, RetriedRow
  <2>5. UNCHANGED row \/ \E x : Writes(i, x) /\ x.status = row[i].status /\ x.token = 0
    <3> HIDE DEF r
    <3>1. QED
      BY <2>3, <2>4 DEF Writes
  <2>6. Goes(w, Idle) /\ UNCHANGED <<clock, deployment, evidence, late, faults>>
    BY <1>7 DEF ScheduleRetry
  <2>7. Leaves(w)
    BY <1>3, <2>6
  <2>8. QED
    BY <1>0, <2>1, <2>5, <2>6, <2>7 DEF LeaveEffect
<1>8. ASSUME NEW w \in Workers, CommitRoom(w) \/ CommitResult(w) \/ CommitSkip(w)
      PROVE  CommitEffect(w)
  <2>1. Finish(w)
    BY <1>8 DEF CommitRoom, CommitResult, CommitSkip
  <2>2. Leaves(w) /\ faults' \in Nat
    BY <1>0, <1>3, <2>1 DEF Finish
  <2>3. /\ row[work[w].item].status = "pending"
        /\ row' = [row EXCEPT ![work[w].item] = ProcessedRow]
        /\ UNCHANGED <<clock, deployment, late>>
    BY <2>1 DEF Finish
  <2>4. \E r : Writes(work[w].item, r) /\ r.status = "processed" /\ r.token = 0
    BY <2>3, ConstantRows DEF Writes
  <2>5. Predicts(w) \/ Scores(w) \/ Skips(w)
    BY <1>8, Zenon DEF CommitRoom, CommitResult, CommitSkip, Predicts, Scores, Skips
  <2>6. QED
    BY <2>2, <2>3, <2>4, <2>5 DEF CommitEffect
<1>9. ASSUME \/ \E c \in Candidates : Deploy(c) \/ EndDeployment(c)
             \/ Tick \/ UNCHANGED vars
      PROVE  QuietEffect
  <2>1. ASSUME NEW c \in Candidates, Deploy(c) \/ EndDeployment(c)
        PROVE  QuietEffect
    <3>0. /\ \A sound \in BOOLEAN :
               [created |-> TRUE, ended |-> FALSE, sound |-> sound] \in Deployment
          /\ [deployment[c] EXCEPT !.ended = TRUE] \in Deployment
      BY <1>0 DEF Deployment
    <3>1. deployment' \in [Candidates -> Deployment]
      BY <1>0, <2>1, <3>0, Zenon DEF Deploy, EndDeployment
    <3>2. QED
      BY <1>0, <2>1, <3>1 DEF Deploy, EndDeployment, QuietEffect
  <2>2. QED
    BY <1>0, <1>9, <2>1 DEF Tick, vars, evidence, QuietEffect
<1>10. QED
  BY <1>1, <1>2, <1>4, <1>5, <1>6, <1>7, <1>8, <1>9 DEF Next, WorkerStep

-----------------------------------------------------------------------------
(***************************************************************************)
(* Types.                                                                  *)
(***************************************************************************)

\* A write leaves the other rows alone, a move the other workers.
LEMMA WriteFacts ==
    ASSUME row \in [Items -> WorkRow], NEW i \in Items, NEW r, Writes(i, r)
    PROVE  row' \in [Items -> WorkRow] /\ row'[i] = r
           /\ \A j \in Items \ {i} : row'[j] = row[j]
BY DEF Writes

LEMMA MoveFacts ==
    ASSUME work \in [Workers -> Handler], NEW w \in Workers, NEW h, Moves(w, h)
    PROVE  work' \in [Workers -> Handler] /\ work'[w] = h
           /\ \A v \in Workers \ {w} : work'[v] = work[v]
BY DEF Moves, Goes

\* What a worker that commits is at.
LEMMA CommitFacts ==
    ASSUME ShadowInvariant, NEW w \in Workers, CommitEffect(w)
    PROVE  /\ work[w] \in Handler /\ InTransaction(w) /\ work[w].item \in Items
           /\ work[w].item.room \in Rooms /\ PlayersOf[work[w].item.room] \subseteq Players
           /\ row[work[w].item].status = "pending"
           /\ row[work[w].item].token = work[w].token /\ work[w].token # 0
           /\ Scores(w) \/ Predicts(w) => work[w].candidate \in Candidates
<1>0. TypeOK /\ WorkIsReal /\ TransactionsHold /\ CandidateIsChosen
  BY DEF ShadowInvariant
<1>1. InTransaction(w) /\ (Scores(w) \/ Predicts(w) => work[w].phase = "reading")
  BY DEF CommitEffect, Predicts, Scores, Skips, AllRead, InTransaction
<1>2. work[w].phase # "idle"
  BY <1>1 DEF InTransaction
<1>3. work[w].item \in Items /\ work[w] \in Handler
  BY <1>0, <1>2 DEF WorkIsReal, TypeOK
<1>4. work[w].item.room \in Rooms
  BY <1>3, ItemFacts
<1>5. QED
  BY <1>0, <1>1, <1>3, <1>4, ShadowAssumption DEF TransactionsHold, CandidateIsChosen

LEMMA TypeStep ==
    ASSUME ShadowInvariant, [Next]_vars
    PROVE  TypeOK'
<1>0. /\ TypeOK /\ WorkIsReal /\ CandidateIsChosen
      /\ row \in [Items -> WorkRow] /\ work \in [Workers -> Handler] /\ late \subseteq Items
      /\ \A w \in Workers : work[w].phase # "idle" => work[w].item \in Items
  BY DEF ShadowInvariant, TypeOK, WorkIsReal
<1>1. ASSUME NEW i \in Items, NEW r, Writes(i, r)
      PROVE  row' \in [Items -> WorkRow]
  BY <1>0, <1>1, WriteFacts
<1>2. ASSUME NEW w \in Workers, NEW h, Moves(w, h)
      PROVE  work' \in [Workers -> Handler]
  BY <1>0, <1>2, MoveFacts
<1>3. ASSUME NEW i \in Items, StoreEffect(i)
      PROVE  TypeOK'
  <2>1. late' \subseteq Items /\ row' \in [Items -> WorkRow]
    BY <1>0, <1>1, <1>3 DEF StoreEffect
  <2>2. QED
    BY <1>0, <1>3, <2>1 DEF StoreEffect, TypeOK, evidence
<1>4. ASSUME NEW w \in Workers, NEW i \in Items, ClaimEffect(w, i)
      PROVE  TypeOK'
  BY <1>0, <1>1, <1>2, <1>4 DEF ClaimEffect, TypeOK, evidence
<1>5. ASSUME NEW w \in Workers, NEW c, BeginEffect(w, c)
      PROVE  TypeOK'
  BY <1>0, <1>2, <1>5 DEF BeginEffect, TypeOK, evidence
<1>6. ASSUME NEW w \in Workers, NEW p \in Players, ReadEffect(w, p)
      PROVE  TypeOK'
  BY <1>0, <1>2, <1>6 DEF ReadEffect, TypeOK, evidence
<1>7. ASSUME NEW w \in Workers, LeaveEffect(w)
      PROVE  TypeOK'
  BY <1>0, <1>1, <1>2, <1>7 DEF LeaveEffect, Leaves, TypeOK, evidence
<1>8. ASSUME NEW w \in Workers, CommitEffect(w)
      PROVE  TypeOK'
  <2> DEFINE r == work[w].item.room
             c == work[w].candidate
             before == work[w].before
  <2>1. /\ r \in Rooms /\ before \in [Players -> SUBSET Rooms] /\ PlayersOf[r] \subseteq Players
        /\ c \in Candidates \cup {NoCandidate} /\ work[w].item \in Items
        /\ AvailableAt[r] \in Nat /\ (Scores(w) \/ Predicts(w) => c \in Candidates)
    BY <1>8, CommitFacts, ItemsOfRooms DEF Handler
  <2>2. row' \in [Items -> WorkRow] /\ work' \in [Workers -> Handler]
    BY <1>1, <1>2, <1>8, <2>1 DEF CommitEffect, Leaves
  <2>3. faults' \in Nat /\ UNCHANGED <<clock, deployment, late>>
    BY <1>8 DEF CommitEffect
  <2>4. CASE Predicts(w)
    <3>1. [candidate |-> c, seen |-> before] \in Prediction
      BY <2>1 DEF Prediction
    <3>2. prediction' \in [Rooms -> Prediction]
      BY <1>0, <2>4, <3>1, Zenon DEF Predicts, TypeOK
    <3>3. QED
      BY <1>0, <2>2, <2>3, <2>4, <3>2 DEF TypeOK, Predicts
  <2>5. CASE Scores(w)
    <3>0. c \in Candidates
      BY <2>1, <2>5
    <3>1. \A p \in Players : Advanced(r, before[p]) \in PlayerState
      BY <2>1 DEF Advanced, PlayerState
    <3>2. state[c] \in [Players -> PlayerState]
      BY <1>0, <3>0 DEF TypeOK
    <3>3. [p \in Players |-> IF p \in PlayersOf[r] THEN Advanced(r, before[p]) ELSE state[c][p]]
            \in [Players -> PlayerState]
      BY <3>1, <3>2
    <3>4. state' \in [Candidates -> [Players -> PlayerState]]
      BY <1>0, <2>5, <3>3, Zenon DEF Scores, TypeOK
    <3>5. {[player |-> p, result |-> r, candidate |-> c, before |-> before[p]] :
             p \in PlayersOf[r]} \subseteq Update
      BY <2>1, <3>0 DEF Update
    <3>6. [result |-> r, candidate |-> c] \in Observation
      BY <2>1, <3>0 DEF Observation
    <3>7. updates' \subseteq Update /\ observations' \subseteq Observation
      BY <1>0, <2>5, <3>5, <3>6 DEF Scores, TypeOK
    <3>8. prediction' = prediction
      BY <2>5 DEF Scores
    <3>9. QED
      BY <1>0, <2>2, <2>3, <3>4, <3>7, <3>8 DEF TypeOK
  <2>6. CASE Skips(w)
    BY <1>0, <2>2, <2>3, <2>6 DEF TypeOK, Skips, evidence
  <2>7. QED
    BY <1>8, <2>4, <2>5, <2>6 DEF CommitEffect
<1>9. CASE QuietEffect
  BY <1>0, <1>9 DEF QuietEffect, TypeOK, evidence
<1>10. QED
  BY <1>0, <1>3, <1>4, <1>5, <1>6, <1>7, <1>8, <1>9, StepEffects

-----------------------------------------------------------------------------
(***************************************************************************)
(* How one row, one worker and the evidence may change.                    *)
(***************************************************************************)

\* The status of a row never goes back.
LEMMA StatusMoves ==
    ASSUME ShadowInvariant, [Next]_vars, NEW j \in Items
    PROVE  /\ row[j].status # "none" => row'[j].status # "none"
           /\ row[j].status = "processed" => row'[j].status = "processed"
           /\ row'[j].status = "pending" => row[j].status = "pending" \/ StoreEffect(j)
           /\ row[j].status = "none" /\ row'[j].status # "none" => StoreEffect(j)
           /\ row'[j].status = "processed" /\ row[j].status # "processed" =>
                \E w \in Workers : CommitEffect(w) /\ work[w].item = j
           /\ row'[j].token # 0 =>
                row[j].token # 0 \/ \E w \in Workers : ClaimEffect(w, j)
<1>0. /\ TypeOK /\ WorkIsReal /\ CandidateIsChosen /\ row \in [Items -> WorkRow]
      /\ \A w \in Workers : work[w].phase # "idle" => work[w].item \in Items
      /\ \A i \in Items : row[i].status \in {"none", "pending", "processed"}
  BY DEF ShadowInvariant, TypeOK, WorkIsReal, WorkRow
<1>1. \A r : \A i \in Items : Writes(i, r) => row'[j] = IF j = i THEN r ELSE row[j]
  BY <1>0, WriteFacts
<1>2. ASSUME NEW i \in Items, StoreEffect(i)
      PROVE  \/ row'[j].status = "pending" /\ i = j /\ row[j].status = "none" /\ row'[j].token = 0
             \/ row'[j] = row[j]
  BY <1>1, <1>2 DEF StoreEffect
<1>3. ASSUME NEW w \in Workers, NEW i \in Items, ClaimEffect(w, i)
      PROVE  row'[j].status = row[j].status /\ (i = j \/ row'[j] = row[j])
  BY <1>1, <1>3 DEF ClaimEffect, Head
<1>4. ASSUME NEW w \in Workers, LeaveEffect(w)
      PROVE  row'[j].status = row[j].status /\ (row'[j].token = 0 \/ row'[j] = row[j])
  BY <1>0, <1>1, <1>4 DEF LeaveEffect
<1>5. ASSUME NEW w \in Workers, CommitEffect(w)
      PROVE  \/ row'[j] = row[j]
             \/ /\ row'[j].status = "processed" /\ work[w].item = j
                /\ row[j].status = "pending" /\ row'[j].token = 0
  <2>1. work[w].item \in Items
    BY <1>5, CommitFacts
  <2>2. QED
    BY <1>1, <1>5, <2>1 DEF CommitEffect
<1>6. QED
  BY <1>0, <1>2, <1>3, <1>4, <1>5, StepEffects DEF BeginEffect, ReadEffect, QuietEffect

\* What becomes of a worker.
BecomesClaimed(v, i) ==
    /\ ClaimEffect(v, i)
    /\ work'[v].phase = "claimed" /\ work'[v].item = i /\ work'[v].token # 0
    /\ work'[v].read = {} /\ work'[v].before = NothingSeen

BecomesOpen(v, c) ==
    /\ BeginEffect(v, c)
    /\ work'[v].phase = IF c = NoCandidate THEN "skipping" ELSE "reading"
    /\ work'[v].candidate = c /\ work'[v].item = work[v].item /\ work'[v].token = work[v].token
    /\ work'[v].read = work[v].read /\ work'[v].before = work[v].before

ReadsOn(v, p) ==
    /\ ReadEffect(v, p)
    /\ work'[v].phase = "reading" /\ work'[v].item = work[v].item
    /\ work'[v].token = work[v].token /\ work'[v].candidate = work[v].candidate
    /\ work'[v].read = work[v].read \cup {p}
    /\ work'[v].before[p] = state[work[v].candidate][p].counted
    /\ \A q \in Players \ {p} : work'[v].before[q] = work[v].before[q]

BecomesFree(v) ==
    /\ work[v].phase # "idle" /\ work'[v].before = NothingSeen
    /\ work'[v].phase = "idle" \/ (work'[v].phase = "retry" /\ work'[v].item = work[v].item)

LEMMA WorkerMoves ==
    ASSUME ShadowInvariant, [Next]_vars, NEW v \in Workers
    PROVE  \/ work'[v] = work[v]
           \/ \E i \in Items : BecomesClaimed(v, i)
           \/ \E c \in Candidates \cup {NoCandidate} : BecomesOpen(v, c)
           \/ \E p \in Players : ReadsOn(v, p)
           \/ BecomesFree(v)
<1>0. TypeOK /\ WorkIsReal /\ CandidateIsChosen /\ work \in [Workers -> Handler]
  BY DEF ShadowInvariant, TypeOK
<1>1. ASSUME NEW w \in Workers, NEW h, Moves(w, h)
      PROVE  IF v = w THEN work'[v] = h ELSE work'[v] = work[v]
  BY <1>0, <1>1, MoveFacts
<1>2. ASSUME NEW w \in Workers, NEW i \in Items, ClaimEffect(w, i)
      PROVE  work'[v] = work[v] \/ BecomesClaimed(v, i)
  BY <1>1, <1>2 DEF ClaimEffect, BecomesClaimed
<1>3. ASSUME NEW w \in Workers, NEW c, BeginEffect(w, c)
      PROVE  work'[v] = work[v] \/ BecomesOpen(v, c)
  BY <1>1, <1>3 DEF BeginEffect, BecomesOpen
<1>4. ASSUME NEW w \in Workers, NEW p \in Players, ReadEffect(w, p)
      PROVE  work'[v] = work[v] \/ ReadsOn(v, p)
  BY <1>1, <1>4 DEF ReadEffect, ReadsOn
<1>5. ASSUME NEW w \in Workers, LeaveEffect(w) \/ CommitEffect(w)
      PROVE  work'[v] = work[v] \/ BecomesFree(v)
  <2>1. work[w].phase # "idle" /\ Leaves(w)
    BY <1>5, CommitFacts DEF LeaveEffect, CommitEffect, InTransaction
  <2>2. QED
    BY <1>1, <2>1 DEF Leaves, BecomesFree
<1>6. QED
  BY <1>0, <1>2, <1>3, <1>4, <1>5, StepEffects DEF StoreEffect, QuietEffect

\* A worker that commits is then free.
LEMMA CommitFrees ==
    ASSUME ShadowInvariant, NEW w \in Workers, CommitEffect(w)
    PROVE  work'[w].phase \in {"idle", "retry"} /\ \A v \in Workers \ {w} : work'[v] = work[v]
<1>1. work \in [Workers -> Handler]
  BY DEF ShadowInvariant, TypeOK
<1>2. QED
  BY <1>1, MoveFacts DEF CommitEffect, Leaves

\* Only a commit leaves evidence, and only storing an item makes it late.
LEMMA EvidenceMoves ==
    ASSUME ShadowInvariant, [Next]_vars
    PROVE  /\ (\A w \in Workers : ~CommitEffect(w)) => UNCHANGED evidence
           /\ (\A i \in Items : ~StoreEffect(i)) => UNCHANGED late
           /\ late \subseteq late'
<1>0. TypeOK /\ WorkIsReal /\ CandidateIsChosen
  BY DEF ShadowInvariant
<1>1. QED
  BY <1>0, StepEffects DEF StoreEffect, ClaimEffect, BeginEffect, ReadEffect, LeaveEffect,
                           CommitEffect, QuietEffect

-----------------------------------------------------------------------------
(***************************************************************************)
(* Claims and transactions.                                                *)
(***************************************************************************)

\* The head is claimed after the item of its room was processed.
LEMMA HeadFollowsRoom ==
    ASSUME ShadowInvariant, NEW i \in Items, Head(i), i.kind = "result"
    PROVE  Processed(RoomItem(i.room))
<1>1. i = ResultItem(i.room) /\ i.room \in Finished /\ RoomItem(i.room) \in Items
  BY ItemFacts
<1>2. Precedes(RoomItem(i.room), i)
  BY <1>1, RoomPrecedesResult
<1>3. row[RoomItem(i.room)].status # "none" /\ row[RoomItem(i.room)].status # "pending"
  BY <1>1, <1>2 DEF ShadowInvariant, RoomsFirst, Head
<1>4. row[RoomItem(i.room)] \in WorkRow
  BY <1>1 DEF ShadowInvariant, TypeOK
<1>5. QED
  BY <1>3, <1>4 DEF WorkRow, Processed

LEMMA WorkStep ==
    ASSUME ShadowInvariant, [Next]_vars
    PROVE  WorkIsReal'
<1>0. WorkIsReal
  BY DEF ShadowInvariant
<1> DEFINE Real(v) ==
      /\ work'[v].item \in Items
      /\ row'[work'[v].item].status # "none"
      /\ work'[v].item.kind = "result" => row'[RoomItem(work'[v].item.room)].status = "processed"
      /\ work'[v].phase = "claimed" => work'[v].token # 0 /\ work'[v].read = {}
<1>1. SUFFICES ASSUME NEW v \in Workers, work'[v].phase # "idle"
               PROVE  Real(v)
  BY DEF WorkIsReal, Processed
<1>2. ASSUME work[v].phase # "idle", work'[v].item = work[v].item,
             work'[v].phase = "claimed" => work'[v].token # 0 /\ work'[v].read = {}
      PROVE  Real(v)
  <2>1. /\ work[v].item \in Items /\ row[work[v].item].status # "none"
        /\ work[v].item.kind = "result" => Processed(RoomItem(work[v].item.room))
    BY <1>0, <1>2 DEF WorkIsReal
  <2>2. RoomItem(work[v].item.room) \in Items
    BY <2>1, ItemFacts
  <2>3. QED
    BY <1>2, <2>1, <2>2, StatusMoves DEF Processed
<1>3. CASE work'[v] = work[v]
  BY <1>0, <1>1, <1>2, <1>3 DEF WorkIsReal
<1>4. ASSUME NEW i \in Items, BecomesClaimed(v, i)
      PROVE  Real(v)
  <2>1. row[i].status = "pending" /\ Head(i) /\ RoomItem(i.room) \in Items
    BY <1>4, ItemFacts DEF BecomesClaimed, ClaimEffect, Head
  <2>2. row'[i].status # "none"
    BY <2>1, StatusMoves
  <2>3. i.kind = "result" => row'[RoomItem(i.room)].status = "processed"
    BY <2>1, HeadFollowsRoom, StatusMoves DEF Processed
  <2>4. QED
    BY <1>4, <2>2, <2>3 DEF BecomesClaimed
<1>5. ASSUME NEW c, BecomesOpen(v, c)
      PROVE  Real(v)
  BY <1>2, <1>5 DEF BecomesOpen, BeginEffect
<1>6. ASSUME NEW p, ReadsOn(v, p)
      PROVE  Real(v)
  BY <1>2, <1>6 DEF ReadsOn, ReadEffect
<1>7. CASE BecomesFree(v)
  BY <1>1, <1>2, <1>7 DEF BecomesFree
<1>8. QED
  BY <1>3, <1>4, <1>5, <1>6, <1>7, WorkerMoves

\* A transaction goes on, or it starts.
LEMMA WhoTransacts ==
    ASSUME ShadowInvariant, [Next]_vars, NEW v \in Workers,
           work'[v].phase \in {"reading", "skipping"}
    PROVE  /\ \/ InTransaction(v) /\ work'[v].phase = work[v].phase
              \/ \E c \in Candidates \cup {NoCandidate} : BecomesOpen(v, c)
           /\ work[v].phase # "idle"
           /\ work'[v].item = work[v].item /\ work'[v].token = work[v].token
           /\ ~CommitEffect(v)
<1>1. ~CommitEffect(v)
  BY CommitFrees
<1>2. ASSUME NEW c, BecomesOpen(v, c)
      PROVE  /\ work[v].phase # "idle"
             /\ work'[v].item = work[v].item /\ work'[v].token = work[v].token
  BY <1>2 DEF BecomesOpen, BeginEffect
<1>3. ASSUME NEW p, ReadsOn(v, p)
      PROVE  /\ InTransaction(v) /\ work'[v].phase = work[v].phase
             /\ work[v].phase # "idle"
             /\ work'[v].item = work[v].item /\ work'[v].token = work[v].token
  BY <1>3 DEF ReadsOn, ReadEffect, InTransaction
<1>4. QED
  BY <1>1, <1>2, <1>3, WorkerMoves DEF BecomesClaimed, BecomesFree, InTransaction

\* The row of an item stays as it is from the start of a transaction to its end.
LEMMA LockedRowStays ==
    ASSUME ShadowInvariant, [Next]_vars, NEW v \in Workers, InTransaction(v)
    PROVE  row'[work[v].item] = row[work[v].item] \/ CommitEffect(v)
<1> DEFINE i == work[v].item
<1>0. /\ TypeOK /\ WorkIsReal /\ CandidateIsChosen /\ row \in [Items -> WorkRow] /\ i \in Items
      /\ row[i].status = "pending" /\ ~ItemLocked(v, i)
      /\ \A w \in Workers : work[w].phase # "idle" => work[w].item \in Items
  BY DEF ShadowInvariant, TypeOK, WorkIsReal, TransactionsHold, InTransaction
<1>1. \A w \in Workers \ {v} : ItemLocked(w, i)
  BY DEF ItemLocked
<1> HIDE DEF i
<1>2. \A r : \A j \in Items : Writes(j, r) => j = i \/ row'[i] = row[i]
  BY <1>0, WriteFacts
<1>3. ASSUME NEW j \in Items, StoreEffect(j)
      PROVE  row'[i] = row[i]
  BY <1>0, <1>2, <1>3 DEF StoreEffect
<1>4. ASSUME NEW w \in Workers, NEW j \in Items, ClaimEffect(w, j)
      PROVE  row'[i] = row[i]
  <2>1. w # v
    BY <1>4 DEF ClaimEffect, InTransaction
  <2>2. QED
    BY <1>1, <1>2, <1>4, <2>1 DEF ClaimEffect
<1>5. ASSUME NEW w \in Workers, LeaveEffect(w)
      PROVE  row'[i] = row[i]
  <2>1. work[w].phase = "retry" => w # v
    BY DEF InTransaction
  <2>2. QED
    BY <1>0, <1>1, <1>2, <1>5, <2>1 DEF LeaveEffect
<1>6. ASSUME NEW w \in Workers, CommitEffect(w), w # v
      PROVE  row'[i] = row[i]
  <2>1. work[w].item \in Items /\ InTransaction(w)
    BY <1>6, CommitFacts
  <2>2. work[w].item # i
    BY <1>0, <1>6, <2>1 DEF ItemLocked
  <2>3. QED
    BY <1>2, <1>6, <2>1, <2>2 DEF CommitEffect
<1>7. QED
  BY <1>0, <1>3, <1>4, <1>5, <1>6, StepEffects DEF BeginEffect, ReadEffect, QuietEffect, i

LEMMA HoldStep ==
    ASSUME ShadowInvariant, [Next]_vars
    PROVE  TransactionsHold'
<1>0. /\ TransactionsHold /\ WorkIsReal /\ work \in [Workers -> Handler]
  BY DEF ShadowInvariant, TypeOK
<1>1. SUFFICES ASSUME NEW v \in Workers, work'[v].phase \in {"reading", "skipping"}
               PROVE  /\ row'[work'[v].item].status = "pending"
                      /\ row'[work'[v].item].token = work'[v].token
                      /\ work'[v].token # 0
                      /\ \A u \in Workers \ {v} : work'[u].phase \in {"reading", "skipping"} =>
                           work'[u].item # work'[v].item
  BY DEF TransactionsHold, InTransaction, ItemLocked
<1>2. ASSUME InTransaction(v)
      PROVE  /\ row'[work'[v].item].status = "pending"
             /\ row'[work'[v].item].token = work'[v].token
             /\ work'[v].token # 0
  BY <1>0, <1>1, <1>2, WhoTransacts, LockedRowStays DEF TransactionsHold
<1>3. ASSUME NEW c, BecomesOpen(v, c)
      PROVE  /\ row'[work'[v].item].status = "pending"
             /\ row'[work'[v].item].token = work'[v].token
             /\ work'[v].token # 0
  BY <1>0, <1>3 DEF BecomesOpen, BeginEffect, WorkIsReal
<1>4. ASSUME NEW u \in Workers \ {v}, work'[u].phase \in {"reading", "skipping"}
      PROVE  work'[u].item # work'[v].item
  <2>1. work'[u].item = work[u].item /\ work'[v].item = work[v].item
    BY <1>1, <1>4, WhoTransacts
  <2>2. CASE InTransaction(u) /\ InTransaction(v)
    BY <1>0, <2>1, <2>2 DEF TransactionsHold, ItemLocked
  <2>3. ASSUME NEW c, BecomesOpen(v, c)
        PROVE  work'[u].item # work'[v].item
    <3>1. work'[u] = work[u]
      BY <1>0, <2>3, MoveFacts DEF BecomesOpen, BeginEffect
    <3>2. InTransaction(u) /\ ~ItemLocked(v, work[v].item)
      BY <1>4, <2>3, <3>1 DEF BecomesOpen, BeginEffect, InTransaction
    <3>3. QED
      BY <2>1, <3>2 DEF ItemLocked
  <2>4. ASSUME NEW c, BecomesOpen(u, c)
        PROVE  work'[u].item # work'[v].item
    <3>1. work'[v] = work[v]
      BY <1>0, <2>4, MoveFacts DEF BecomesOpen, BeginEffect
    <3>2. InTransaction(v) /\ ~ItemLocked(u, work[u].item)
      BY <1>1, <2>4, <3>1 DEF BecomesOpen, BeginEffect, InTransaction
    <3>3. QED
      BY <2>1, <3>2 DEF ItemLocked
  <2>5. QED
    BY <1>1, <1>4, <2>2, <2>3, <2>4, WhoTransacts
<1>5. QED
  BY <1>1, <1>2, <1>3, <1>4, WhoTransacts

-----------------------------------------------------------------------------
(***************************************************************************)
(* Rooms before results.                                                   *)
(***************************************************************************)
LEMMA FirstStep ==
    ASSUME ShadowInvariant, [Next]_vars
    PROVE  RoomsFirst'
<1>0. RoomsFirst /\ WorkIsReal /\ prediction \in [Rooms -> Prediction]
  BY DEF ShadowInvariant, TypeOK
<1>1. ASSUME NEW r \in Finished, row'[ResultItem(r)].status # "none"
      PROVE  row'[RoomItem(r)].status # "none"
  <2>1. r \in Rooms /\ ResultItem(r) \in Items /\ RoomItem(r) \in Items
        /\ ResultItem(r).kind = "result" /\ ResultItem(r).room = r
    BY FinishedAreRooms, ItemsOfRooms
  <2>2. row[RoomItem(r)].status # "none"
    BY <1>0, <1>1, <2>1, StatusMoves DEF RoomsFirst, StoreEffect
  <2>3. QED
    BY <2>1, <2>2, StatusMoves
<1>2. ASSUME NEW r \in Finished, row'[ResultItem(r)].status = "processed"
      PROVE  row'[RoomItem(r)].status = "processed"
  <2>1. r \in Rooms /\ ResultItem(r) \in Items /\ RoomItem(r) \in Items
        /\ ResultItem(r).kind = "result" /\ ResultItem(r).room = r
    BY FinishedAreRooms, ItemsOfRooms
  <2>2. row[RoomItem(r)].status = "processed"
    <3>1. CASE Processed(ResultItem(r))
      BY <1>0, <3>1 DEF RoomsFirst, Processed
    <3>2. CASE ~Processed(ResultItem(r))
      <4>1. PICK w \in Workers : CommitEffect(w) /\ work[w].item = ResultItem(r)
        BY <1>2, <2>1, <3>2, StatusMoves DEF Processed
      <4>2. work[w].phase # "idle"
        BY <4>1, CommitFacts DEF InTransaction
      <4>3. QED
        BY <1>0, <2>1, <4>1, <4>2 DEF WorkIsReal, Processed
    <3>3. QED
      BY <3>1, <3>2
  <2>3. QED
    BY <2>1, <2>2, StatusMoves
<1>3. ASSUME NEW r \in Rooms, prediction'[r].candidate # NoCandidate
      PROVE  row'[RoomItem(r)].status = "processed"
  <2>1. RoomItem(r) \in Items
    BY ItemsOfRooms
  <2>2. CASE prediction'[r] = prediction[r]
    BY <1>0, <1>3, <2>1, <2>2, StatusMoves DEF RoomsFirst, Processed
  <2>3. CASE prediction'[r] # prediction[r]
    <3>1. PICK w \in Workers : CommitEffect(w)
      BY <2>3, EvidenceMoves DEF evidence
    <3>2. Predicts(w)
      BY <2>3, <3>1 DEF CommitEffect, Scores, Skips, evidence
    <3>3. work[w].item.room = r /\ work[w].item.kind = "room" /\ work[w].item \in Items
      BY <1>0, <2>3, <3>1, <3>2, CommitFacts DEF Predicts
    <3>4. work[w].item = RoomItem(r)
      BY <3>3, ItemFacts
    <3>5. row \in [Items -> WorkRow]
      BY DEF ShadowInvariant, TypeOK
    <3>6. QED
      BY <2>1, <3>1, <3>4, <3>5, WriteFacts DEF CommitEffect
  <2>4. QED
    BY <2>2, <2>3
<1>4. QED
  BY <1>1, <1>2, <1>3 DEF RoomsFirst, Processed

\* The prediction of a room is settled when its item is processed.
LEMMA PredictionStays ==
    ASSUME ShadowInvariant, [Next]_vars, NEW r \in Rooms, Processed(RoomItem(r))
    PROVE  prediction'[r] = prediction[r]
<1>1. SUFFICES ASSUME prediction'[r] # prediction[r]
               PROVE  FALSE
  OBVIOUS
<1>2. prediction \in [Rooms -> Prediction]
  BY DEF ShadowInvariant, TypeOK
<1>3. PICK w \in Workers : CommitEffect(w)
  BY <1>1, EvidenceMoves DEF evidence
<1>4. Predicts(w)
  BY <1>1, <1>3 DEF CommitEffect, Scores, Skips, evidence
<1>5. work[w].item.room = r /\ work[w].item.kind = "room" /\ work[w].item \in Items
  BY <1>1, <1>2, <1>3, <1>4, CommitFacts DEF Predicts
<1>6. work[w].item = RoomItem(r) /\ row[work[w].item].status = "pending"
  BY <1>3, <1>5, ItemFacts, CommitFacts
<1>7. QED
  BY <1>6 DEF Processed
LEMMA CandidateStep ==
    ASSUME ShadowInvariant, [Next]_vars
    PROVE  CandidateIsChosen'
<1>0. TypeOK /\ WorkIsReal /\ CandidateIsChosen
  BY DEF ShadowInvariant
<1> DEFINE Chosen(h, predicted) ==
      /\ h.phase = "skipping" => h.candidate = NoCandidate
      /\ h.phase = "reading" => h.candidate \in Candidates
      /\ h.item.kind = "result" => h.candidate = predicted[h.item.room].candidate
      /\ h.phase = "reading" /\ h.item.kind = "room" =>
           ActivatedAt[h.candidate] <= FilledAt[h.item.room]
      /\ h.phase = "reading" /\ h.item.kind = "result" =>
           AvailableAt[h.item.room] > Cutoff[h.candidate]
<1>1. SUFFICES ASSUME NEW v \in Workers, work'[v].phase \in {"reading", "skipping"}
               PROVE  Chosen(work'[v], prediction')
  BY DEF CandidateIsChosen, InTransaction
<1>2. ASSUME InTransaction(v)
      PROVE  Chosen(work'[v], prediction')
  <2>1. Chosen(work[v], prediction) /\ work[v].item \in Items
    BY <1>0, <1>2 DEF CandidateIsChosen, WorkIsReal, InTransaction
  <2>2. work[v].item.kind = "result" =>
          prediction'[work[v].item.room] = prediction[work[v].item.room]
    <3>1. ASSUME work[v].item.kind = "result"
          PROVE  Processed(RoomItem(work[v].item.room)) /\ work[v].item.room \in Rooms
      BY <1>0, <1>2, <2>1, <3>1, ItemFacts DEF WorkIsReal, InTransaction
    <3>2. QED
      BY <3>1, PredictionStays
  <2>3. /\ work'[v].phase = work[v].phase /\ work'[v].item = work[v].item
        /\ work'[v].candidate = work[v].candidate
    BY <1>1, <1>2, WorkerMoves DEF BecomesClaimed, ClaimEffect, BecomesOpen, BeginEffect,
                                   ReadsOn, ReadEffect, BecomesFree, InTransaction
  <2>4. QED
    BY <2>1, <2>2, <2>3
<1>3. ASSUME NEW c \in Candidates \cup {NoCandidate}, BecomesOpen(v, c)
      PROVE  Chosen(work'[v], prediction')
  <2> DEFINE i == work[v].item
  <2>1. /\ c \in CandidatesFor(i) /\ HoldoutAccepts(i, c) /\ prediction' = prediction
        /\ work[v].phase = "claimed"
    BY <1>3 DEF BecomesOpen, BeginEffect, evidence
  <2>2. i \in Items
    BY <1>0, <2>1 DEF WorkIsReal
  <2>3. /\ work'[v].phase = IF c = NoCandidate THEN "skipping" ELSE "reading"
        /\ work'[v].candidate = c /\ work'[v].item = i
    BY <1>3 DEF BecomesOpen
  <2>4. i.kind = "result" => c = prediction[i.room].candidate
    BY <2>1 DEF CandidatesFor
  <2>5. i.kind = "room" /\ c # NoCandidate => c \in DeployedFor(i.room)
    BY <2>1 DEF CandidatesFor
  <2>6. c \in DeployedFor(i.room) => ActivatedAt[c] <= FilledAt[i.room]
    BY DEF DeployedFor
  <2>7. i.kind = "result" /\ c # NoCandidate => AvailableAt[i.room] > Cutoff[c]
    BY <2>1 DEF HoldoutAccepts
  <2> HIDE DEF i
  <2>8. QED
    BY <1>3, <2>1, <2>3, <2>4, <2>5, <2>6, <2>7
<1>4. QED
  BY <1>1, <1>2, <1>3, WhoTransacts

-----------------------------------------------------------------------------
(***************************************************************************)
(* What predictions know.                                                  *)
(***************************************************************************)
IsDated(d, at) == d \in Finished /\ Processed(ResultItem(d)) /\ AvailableAt[d] <= at

LEMMA DatedStays ==
    ASSUME ShadowInvariant, [Next]_vars, NEW d, NEW at, IsDated(d, at)
    PROVE  /\ d \in Finished /\ row'[ResultItem(d)].status = "processed"
           /\ AvailableAt[d] <= at
<1>1. ResultItem(d) \in Items
  BY FinishedAreRooms, ItemsOfRooms DEF IsDated
<1>2. QED
  BY <1>1, StatusMoves DEF IsDated, Processed

\* What a commit that scores makes of a state.
LEMMA ScoredStates ==
    ASSUME ShadowInvariant, NEW w \in Workers, CommitEffect(w), Scores(w),
           NEW c \in Candidates, NEW p \in Players
    PROVE  LET r == work[w].item.room
           IN  state'[c][p] = IF c = work[w].candidate /\ p \in PlayersOf[r]
                                THEN Advanced(r, work[w].before[p]) ELSE state[c][p]
<1> DEFINE r == work[w].item.room
           k == work[w].candidate
           g == [q \in Players |->
                   IF q \in PlayersOf[r] THEN Advanced(r, work[w].before[q]) ELSE state[k][q]]
<1>1. state \in [Candidates -> [Players -> PlayerState]] /\ k \in Candidates
  BY CommitFacts DEF ShadowInvariant, TypeOK
<1>2. state' = [state EXCEPT ![k] = g]
  BY DEF Scores
<1>3. g[p] = IF p \in PlayersOf[r] THEN Advanced(r, work[w].before[p]) ELSE state[k][p]
  OBVIOUS
<1> HIDE DEF g, r, k
<1>4. state'[c] = IF c = k THEN g ELSE state[c]
  BY <1>1, <1>2
<1>5. QED
  BY <1>3, <1>4 DEF r, k

LEMMA StatesDatedStep ==
    ASSUME ShadowInvariant, [Next]_vars
    PROVE  StatesAreDated'
<1>0. /\ StatesAreDated /\ ReadsAreDated /\ TypeOK
  BY DEF ShadowInvariant
<1>1. SUFFICES ASSUME NEW c \in Candidates, NEW p \in Players, NEW d \in state'[c][p].counted
               PROVE  /\ d \in Finished /\ row'[ResultItem(d)].status = "processed"
                      /\ AvailableAt[d] <= state'[c][p].updatedAt
  BY DEF StatesAreDated, Processed
<1>2. CASE state'[c][p] = state[c][p]
  <2>1. IsDated(d, state[c][p].updatedAt)
    BY <1>0, <1>1, <1>2 DEF StatesAreDated, IsDated
  <2>2. QED
    BY <1>2, <2>1, DatedStays
<1>3. CASE state'[c][p] # state[c][p]
  <2>1. PICK w \in Workers : CommitEffect(w)
    BY <1>3, EvidenceMoves DEF evidence
  <2>2. Scores(w)
    BY <1>3, <2>1 DEF CommitEffect, Predicts, Skips, evidence
  <2> DEFINE r == work[w].item.room
  <2>3. state'[c][p] = Advanced(r, work[w].before[p])
    BY <1>3, <2>1, <2>2, ScoredStates
  <2>4. /\ state'[c][p].counted = work[w].before[p] \cup {r}
        /\ state'[c][p].updatedAt = AvailableAt[r]
    BY <2>3 DEF Advanced
  <2>5. /\ work[w].item \in Items /\ work[w].item.kind = "result"
        /\ work[w].item = ResultItem(r) /\ r \in Finished
    BY <2>1, <2>2, CommitFacts, ItemFacts DEF Scores
  <2>6. At(work[w].item) = AvailableAt[r] /\ AvailableAt[r] \in Nat
    BY <2>5, FinishedAreRooms, ItemsOfRooms
  <2>7. CASE d = r
    <3>1. row \in [Items -> WorkRow]
      BY <1>0 DEF TypeOK
    <3>2. row'[ResultItem(r)].status = "processed"
      BY <2>1, <2>5, <3>1, WriteFacts DEF CommitEffect
    <3>3. QED
      BY <2>4, <2>5, <2>6, <2>7, <3>2
  <2>8. CASE d \in work[w].before[p]
    <3>1. IsDated(d, AvailableAt[r])
      BY <1>0, <2>6, <2>8 DEF ReadsAreDated, IsDated
    <3>2. QED
      BY <2>4, <3>1, DatedStays
  <2>9. QED
    BY <1>1, <2>4, <2>7, <2>8
<1>4. QED
  BY <1>2, <1>3

LEMMA ReadsDatedStep ==
    ASSUME ShadowInvariant, [Next]_vars
    PROVE  ReadsAreDated'
<1>0. /\ StatesAreDated /\ ReadsAreDated /\ CandidateIsChosen /\ WorkIsReal /\ TypeOK
      /\ state \in [Candidates -> [Players -> PlayerState]]
  BY DEF ShadowInvariant, TypeOK
<1> DEFINE OK(v, d) ==
      /\ d \in Finished /\ row'[ResultItem(d)].status = "processed"
      /\ AvailableAt[d] <= At(work'[v].item)
<1>1. SUFFICES ASSUME NEW v \in Workers, NEW p \in Players, NEW d \in work'[v].before[p]
               PROVE  OK(v, d)
  BY DEF ReadsAreDated, Processed, At
<1>2. ASSUME work'[v].item = work[v].item, work'[v].before[p] = work[v].before[p]
      PROVE  OK(v, d)
  <2>1. IsDated(d, At(work[v].item))
    BY <1>0, <1>1, <1>2 DEF ReadsAreDated, IsDated
  <2>2. QED
    BY <1>2, <2>1, DatedStays
<1>3. ASSUME NEW q \in Players, ReadsOn(v, q)
      PROVE  OK(v, d)
  <2>1. CASE p # q
    BY <1>2, <1>3, <2>1 DEF ReadsOn
  <2>2. CASE p = q
    <3> DEFINE s == state[work[v].candidate][q]
    <3>1. /\ work[v].phase = "reading" /\ work'[v].item = work[v].item
          /\ d \in s.counted /\ ~Newer(s, work[v].item)
      BY <1>1, <1>3, <2>2 DEF ReadsOn, ReadEffect
    <3>2. work[v].candidate \in Candidates /\ work[v].item \in Items
      BY <1>0, <3>1 DEF CandidateIsChosen, InTransaction, WorkIsReal
    <3>3. s \in PlayerState
      BY <1>0, <3>2
    <3>4. s.updatedAt \in Nat /\ At(work[v].item) \in Nat
      BY <3>2, <3>3, ItemFacts DEF PlayerState
    <3>5. IsDated(d, s.updatedAt)
      BY <1>0, <3>1, <3>2 DEF StatesAreDated, IsDated
    <3>6. AvailableAt[d] \in Nat
      BY <3>5, FinishedAreRooms, ItemsOfRooms DEF IsDated
    <3> HIDE DEF s
    <3>7. AvailableAt[d] <= At(work[v].item)
      BY <3>1, <3>4, <3>5, <3>6 DEF Newer, IsDated
    <3>8. QED
      BY <3>1, <3>5, <3>7, DatedStays
  <2>3. QED
    BY <2>1, <2>2
<1>4. ASSUME work'[v].before = NothingSeen
      PROVE  FALSE
  BY <1>1, <1>4, EmptyHandler
<1>5. QED
  BY <1>2, <1>3, <1>4, WorkerMoves DEF BecomesClaimed, BecomesOpen, BecomesFree

LEMMA LeakageStep ==
    ASSUME ShadowInvariant, [Next]_vars
    PROVE  NoLeakage'
<1>0. /\ NoLeakage /\ ReadsAreDated /\ CandidateIsChosen /\ RoomsFirst
      /\ prediction \in [Rooms -> Prediction]
  BY DEF ShadowInvariant, TypeOK
<1>1. ASSUME NEW r \in Rooms, prediction'[r].candidate # NoCandidate
      PROVE  /\ ActivatedAt[prediction'[r].candidate] <= FilledAt[r]
             /\ \A p \in Players : \A d \in prediction'[r].seen[p] :
                  d # r /\ AvailableAt[d] <= FilledAt[r]
  <2>1. CASE prediction'[r] = prediction[r]
    BY <1>0, <1>1, <2>1 DEF NoLeakage
  <2>2. CASE prediction'[r] # prediction[r]
    <3>1. PICK w \in Workers : CommitEffect(w)
      BY <2>2, EvidenceMoves DEF evidence
    <3>2. Predicts(w)
      BY <2>2, <3>1 DEF CommitEffect, Scores, Skips, evidence
    <3>3. work[w].item.room = r /\ work[w].item.kind = "room" /\ work[w].phase = "reading"
      BY <1>0, <2>2, <3>1, <3>2, CommitFacts DEF Predicts, AllRead
    <3>4. prediction'[r] = [candidate |-> work[w].candidate, seen |-> work[w].before]
      BY <1>0, <3>2, <3>3 DEF Predicts
    <3>5. prediction'[r].candidate = work[w].candidate /\ prediction'[r].seen = work[w].before
      BY <3>4
    <3>6. ActivatedAt[work[w].candidate] <= FilledAt[r]
      BY <1>0, <3>3 DEF CandidateIsChosen, InTransaction
    <3>7. work[w].item = RoomItem(r) /\ row[RoomItem(r)].status = "pending"
      BY <3>1, <3>3, CommitFacts, ItemFacts
    <3>8. ASSUME NEW p \in Players, NEW d \in work[w].before[p]
          PROVE  d # r /\ AvailableAt[d] <= FilledAt[r]
      <4>1. d \in Finished /\ Processed(ResultItem(d)) /\ AvailableAt[d] <= At(RoomItem(r))
        BY <1>0, <3>7, <3>8 DEF ReadsAreDated
      <4>2. Processed(RoomItem(d))
        BY <1>0, <4>1 DEF RoomsFirst
      <4>3. QED
        BY <3>7, <4>1, <4>2, ItemsOfRooms DEF Processed
    <3>9. QED
      BY <3>5, <3>6, <3>8
  <2>3. QED
    BY <2>1, <2>2
<1>2. ASSUME NEW o \in observations'
      PROVE  AvailableAt[o.result] > Cutoff[o.candidate]
  <2>1. CASE o \in observations
    BY <1>0, <2>1 DEF NoLeakage
  <2>2. CASE o \notin observations
    <3>1. PICK w \in Workers : CommitEffect(w)
      BY <1>2, <2>2, EvidenceMoves DEF evidence
    <3>2. Scores(w)
      BY <1>2, <2>2, <3>1 DEF CommitEffect, Predicts, Skips, evidence
    <3>3. o = [result |-> work[w].item.room, candidate |-> work[w].candidate]
      BY <1>2, <2>2, <3>2 DEF Scores
    <3>4. AvailableAt[work[w].item.room] > Cutoff[work[w].candidate]
      BY <1>0, <3>2 DEF CandidateIsChosen, Scores, AllRead, InTransaction
    <3>5. QED
      BY <3>3, <3>4
  <2>3. QED
    BY <2>1, <2>2
<1>3. QED
  BY <1>1, <1>2 DEF NoLeakage

-----------------------------------------------------------------------------
(***************************************************************************)
(* Evidence comes in pairs.                                                *)
(***************************************************************************)
UpdatesOf(r, p) == {u \in updates : u.result = r /\ u.player = p}

ObservationsOf(r) == {o \in observations : o.result = r}

Scored(r) ==
    r \in Finished /\ Processed(ResultItem(r)) /\ prediction[r].candidate # NoCandidate

PairedFor(r) ==
    LET c == prediction[r].candidate
    IN  /\ ObservationsOf(r) = IF Scored(r) THEN {[result |-> r, candidate |-> c]} ELSE {}
        /\ \A p \in Players :
             IF Scored(r) /\ p \in PlayersOf[r]
               THEN \E u \in UpdatesOf(r, p) : UpdatesOf(r, p) = {u} /\ u.candidate = c
               ELSE UpdatesOf(r, p) = {}

LEMMA PairedForRooms == EvidenceIsPaired <=> \A r \in Rooms : PairedFor(r)
BY DEF EvidenceIsPaired, PairedFor, ObservationsOf, UpdatesOf, Scored, Processed

\* Nothing about the room changes.
LEMMA PairedStays ==
    ASSUME NEW r \in Rooms, PairedFor(r), Scored(r)' <=> Scored(r),
           Scored(r) => prediction'[r] = prediction[r],
           ObservationsOf(r)' = ObservationsOf(r),
           \A p \in Players : UpdatesOf(r, p)' = UpdatesOf(r, p)
    PROVE  PairedFor(r)'
<1>1. CASE Scored(r)
  <2>1. prediction'[r].candidate = prediction[r].candidate /\ Scored(r)'
    BY <1>1
  <2>2. \A p \in Players :
          IF p \in PlayersOf[r]
            THEN \E u \in UpdatesOf(r, p)' :
                   UpdatesOf(r, p)' = {u} /\ u.candidate = prediction'[r].candidate
            ELSE UpdatesOf(r, p)' = {}
    BY <1>1, <2>1 DEF PairedFor
  <2>3. ObservationsOf(r)' = {[result |-> r, candidate |-> prediction'[r].candidate]}
    BY <1>1, <2>1 DEF PairedFor
  <2>4. QED
    BY <2>1, <2>2, <2>3 DEF PairedFor
<1>2. CASE ~Scored(r)
  <2>1. ~Scored(r)' /\ ObservationsOf(r)' = {} /\ \A p \in Players : UpdatesOf(r, p)' = {}
    BY <1>2 DEF PairedFor
  <2>2. QED
    BY <2>1 DEF PairedFor
<1>3. QED
  BY <1>1, <1>2

LEMMA PairedStep ==
    ASSUME ShadowInvariant, [Next]_vars
    PROVE  EvidenceIsPaired'
<1>0. /\ RoomsFirst /\ CandidateIsChosen /\ row \in [Items -> WorkRow]
      /\ prediction \in [Rooms -> Prediction] /\ \A r \in Rooms : PairedFor(r)
  BY PairedForRooms DEF ShadowInvariant, TypeOK
<1>1. SUFFICES ASSUME NEW r \in Rooms
               PROVE  PairedFor(r)'
  BY DEF EvidenceIsPaired, PairedFor, ObservationsOf, UpdatesOf, Scored, Processed
<1>2. PairedFor(r) /\ RoomItem(r) \in Items /\ (r \in Finished => ResultItem(r) \in Items)
  BY <1>0, ItemsOfRooms
<1>3. CASE \A w \in Workers : ~CommitEffect(w)
  <2>1. UNCHANGED <<prediction, updates, observations>>
    BY <1>3, EvidenceMoves DEF evidence
  <2>2. r \in Finished =>
          (row'[ResultItem(r)].status = "processed" <=> row[ResultItem(r)].status = "processed")
    BY <1>2, <1>3, StatusMoves
  <2>3. Scored(r)' <=> Scored(r)
    BY <2>1, <2>2 DEF Scored, Processed
  <2>4. ObservationsOf(r)' = ObservationsOf(r)
    BY <2>1 DEF ObservationsOf
  <2>5. \A p \in Players : UpdatesOf(r, p)' = UpdatesOf(r, p)
    BY <2>1 DEF UpdatesOf
  <2>6. QED
    BY <1>2, <2>1, <2>3, <2>4, <2>5, PairedStays
<1>4. ASSUME NEW w \in Workers, CommitEffect(w)
      PROVE  PairedFor(r)'
  <2> DEFINE i == work[w].item
             c == work[w].candidate
  <2>1. /\ i \in Items /\ row[i].status = "pending" /\ row'[i].status = "processed"
        /\ \A j \in Items \ {i} : row'[j] = row[j]
    BY <1>0, <1>4, CommitFacts, WriteFacts DEF CommitEffect
  <2>2. ASSUME UNCHANGED <<updates, observations>>
        PROVE  ObservationsOf(r)' = ObservationsOf(r)
               /\ \A p \in Players : UpdatesOf(r, p)' = UpdatesOf(r, p)
    BY <2>2 DEF ObservationsOf, UpdatesOf
  <2>3. CASE Predicts(w)
    <3>1. i.kind = "room" /\ i = RoomItem(i.room) /\ UNCHANGED <<updates, observations>>
          /\ i.room \in Rooms
      BY <2>1, <2>3, ItemFacts DEF Predicts
    <3>2. r \in Finished => row'[ResultItem(r)] = row[ResultItem(r)]
      BY <1>2, <2>1, <3>1, ItemsOfRooms
    <3>3. CASE i.room = r
      <4>1. ~(r \in Finished /\ Processed(ResultItem(r)))
        BY <1>0, <2>1, <3>1, <3>3 DEF RoomsFirst, Processed
      <4>2. ~Scored(r) /\ ~Scored(r)'
        BY <3>2, <4>1 DEF Scored, Processed
      <4>3. QED
        BY <1>2, <2>2, <3>1, <4>2, PairedStays
    <3>4. CASE i.room # r
      <4>1. prediction'[r] = prediction[r]
        BY <1>0, <2>3, <3>1, <3>4 DEF Predicts
      <4>2. Scored(r)' <=> Scored(r)
        BY <3>2, <4>1 DEF Scored, Processed
      <4>3. QED
        BY <1>2, <2>2, <3>1, <4>1, <4>2, PairedStays
    <3>5. QED
      BY <3>3, <3>4
  <2>4. CASE Skips(w)
    <3>1. UNCHANGED <<prediction, updates, observations>> /\ work[w].phase = "skipping"
      BY <2>4 DEF Skips, evidence
    <3>2. i.kind = "result" => prediction[i.room].candidate = NoCandidate
      BY <1>0, <3>1 DEF CandidateIsChosen, InTransaction
    <3>3. Scored(r)' <=> Scored(r)
      <4>1. CASE i = ResultItem(r)
        <5>1. prediction[r].candidate = NoCandidate
          BY <3>2, <4>1, ItemsOfRooms
        <5>2. QED
          BY <3>1, <5>1 DEF Scored
      <4>2. CASE i # ResultItem(r)
        BY <1>2, <2>1, <3>1, <4>2 DEF Scored, Processed
      <4>3. QED
        BY <4>1, <4>2
    <3>4. QED
      BY <1>2, <2>2, <3>1, <3>3, PairedStays
  <2>5. CASE Scores(w)
    <3>1. /\ i.kind = "result" /\ i = ResultItem(i.room) /\ i.room \in Finished
          /\ i.room \in Rooms /\ prediction' = prediction
          /\ work[w].phase = "reading"
      BY <2>1, <2>5, ItemFacts, FinishedAreRooms DEF Scores, AllRead
    <3>2. c = prediction[i.room].candidate /\ c \in Candidates /\ c # NoCandidate
      BY <1>0, <3>1, ShadowAssumption DEF CandidateIsChosen, InTransaction
    <3>3. PICK q : q = i.room
      OBVIOUS
    <3>4. PICK b : b = work[w].before
      OBVIOUS
    <3>5. PICK k : k = c
      OBVIOUS
    <3>6. /\ observations' = observations \cup {[result |-> q, candidate |-> k]}
          /\ updates' = updates \cup
               {[player |-> p, result |-> q, candidate |-> k, before |-> b[p]] : p \in PlayersOf[q]}
      BY <2>5, <3>3, <3>4, <3>5 DEF Scores
    <3>7. [result |-> q, candidate |-> k].result = q
      OBVIOUS
    <3>8. CASE q # r
      <4>1. ObservationsOf(r)' = ObservationsOf(r)
        BY <3>6, <3>7, <3>8 DEF ObservationsOf
      <4>2. \A p \in Players : UpdatesOf(r, p)' = UpdatesOf(r, p)
        BY <3>6, <3>8 DEF UpdatesOf
      <4>3. r \in Finished => row'[ResultItem(r)] = row[ResultItem(r)]
        BY <1>2, <2>1, <3>1, <3>3, <3>8, ItemsOfRooms
      <4>4. Scored(r)' <=> Scored(r)
        BY <3>1, <4>3 DEF Scored, Processed
      <4>5. QED
        BY <1>2, <3>1, <4>1, <4>2, <4>4, PairedStays
    <3>9. CASE q = r
      <4>1. ~Scored(r)
        BY <2>1, <3>1, <3>3, <3>9 DEF Scored, Processed
      <4>2. Scored(r)' /\ prediction'[r].candidate = k
        BY <2>1, <3>1, <3>2, <3>3, <3>5, <3>9 DEF Scored, Processed
      <4>3. ObservationsOf(r) = {} /\ \A p \in Players : UpdatesOf(r, p) = {}
        BY <1>2, <4>1 DEF PairedFor
      <4>4. ObservationsOf(r)' = {[result |-> r, candidate |-> k]}
        BY <3>6, <3>7, <3>9, <4>3 DEF ObservationsOf
      <4>5. ASSUME NEW p \in Players
            PROVE  UpdatesOf(r, p)' =
                     IF p \in PlayersOf[r]
                       THEN {[player |-> p, result |-> r, candidate |-> k, before |-> b[p]]}
                       ELSE {}
        BY <3>6, <3>9, <4>3 DEF UpdatesOf
      <4>6. ASSUME NEW p \in Players
            PROVE  IF p \in PlayersOf[r]
                     THEN \E u \in UpdatesOf(r, p)' : UpdatesOf(r, p)' = {u} /\ u.candidate = k
                     ELSE UpdatesOf(r, p)' = {}
        <5> DEFINE u == [player |-> p, result |-> r, candidate |-> k, before |-> b[p]]
        <5>1. u.candidate = k
          OBVIOUS
        <5>2. p \in PlayersOf[r] => UpdatesOf(r, p)' = {u}
          BY <4>5
        <5> HIDE DEF u
        <5>3. u \in {u}
          OBVIOUS
        <5>4. QED
          BY <4>5, <5>1, <5>2, <5>3, Zenon
      <4>7. QED
        BY <4>2, <4>4, <4>6 DEF PairedFor
    <3>10. QED
      BY <3>8, <3>9
  <2>6. QED
    BY <1>4, <2>3, <2>4, <2>5 DEF CommitEffect
<1>5. QED
  BY <1>3, <1>4

-----------------------------------------------------------------------------
(***************************************************************************)
(* The timeline.                                                           *)
(***************************************************************************)
LEMMA OvertakenStep ==
    ASSUME ShadowInvariant, [Next]_vars
    PROVE  OvertakenAreLate'
<1>0. OvertakenAreLate /\ row \in [Items -> WorkRow]
  BY DEF ShadowInvariant, TypeOK
<1>1. SUFFICES ASSUME NEW i \in Items, NEW j \in Items, row'[i].status = "pending",
                      row'[j].status = "processed" \/ row'[j].token # 0, Precedes(i, j)
               PROVE  i \in late'
  BY DEF OvertakenAreLate, Processed, Precedes, At
<1>2. i # j
  BY <1>1, PrecedesIsTotal
<1>3. CASE StoreEffect(i)
  <2>1. row'[j] = row[j]
    BY <1>0, <1>2, <1>3, WriteFacts DEF StoreEffect
  <2>2. QED
    BY <1>1, <1>3, <2>1 DEF StoreEffect, Processed
<1>4. CASE ~StoreEffect(i)
  <2>1. row[i].status = "pending" /\ late \subseteq late'
    BY <1>1, <1>4, StatusMoves, EvidenceMoves
  <2>2. ASSUME NEW w \in Workers, ClaimEffect(w, j)
        PROVE  FALSE
    BY <1>1, <2>1, <2>2 DEF ClaimEffect, Head
  <2>3. ASSUME NEW w \in Workers, CommitEffect(w), work[w].item = j
        PROVE  row[j].token # 0
    BY <2>3, CommitFacts
  <2>4. Processed(j) \/ row[j].token # 0
    BY <1>1, <2>2, <2>3, StatusMoves DEF Processed
  <2>5. QED
    BY <1>0, <1>1, <2>1, <2>4 DEF OvertakenAreLate
<1>5. QED
  BY <1>3, <1>4

\* Late items stay late.
LEMMA TimelyBefore ==
    ASSUME ShadowInvariant, [Next]_vars, NEW i, \A j \in late' : Precedes(i, j)
    PROVE  Timely(i)
BY EvidenceMoves DEF Timely

\* While a timely item is claimed, everything processed precedes it and is timely too.
LEMMA TimelyClaim ==
    ASSUME ShadowInvariant, NEW i \in Items, Timely(i), row[i].status = "pending",
           NEW j \in Items, Processed(j)
    PROVE  Precedes(j, i) /\ Timely(j)
<1>0. OvertakenAreLate /\ late \subseteq Items
  BY DEF ShadowInvariant, TypeOK
<1>1. i # j
  BY DEF Processed
<1>2. ~Precedes(i, j)
  BY <1>0, PrecedesIsTotal DEF OvertakenAreLate, Timely
<1>3. Precedes(j, i)
  BY <1>1, <1>2, PrecedesIsTotal
<1>4. ASSUME NEW k \in late
      PROVE  Precedes(j, k)
  <2>1. Precedes(i, k) /\ k \in Items
    BY <1>0, <1>4 DEF Timely
  <2>2. QED
    BY <1>3, <2>1, PrecedesIsTransitive
<1>5. QED
  BY <1>3, <1>4 DEF Timely

\* A transaction on a timely item is alone.
LEMMA TimelyIsAlone ==
    ASSUME ShadowInvariant, NEW w \in Workers, InTransaction(w), Timely(work[w].item),
           NEW v \in Workers, InTransaction(v)
    PROVE  v = w
<1>0. OvertakenAreLate /\ TransactionsHold /\ WorkIsReal
  BY DEF ShadowInvariant
<1>1. SUFFICES ASSUME v # w
               PROVE  FALSE
  OBVIOUS
<1>2. PICK i \in Items : i = work[w].item
  BY <1>0 DEF WorkIsReal, InTransaction
<1>3. PICK j \in Items : j = work[v].item
  BY <1>0 DEF WorkIsReal, InTransaction
<1>4. /\ row[i].status = "pending" /\ row[i].token # 0
      /\ row[j].status = "pending" /\ row[j].token # 0 /\ i # j
  BY <1>0, <1>1, <1>2, <1>3 DEF TransactionsHold, ItemLocked
<1>5. Precedes(i, j) => i \in late
  BY <1>0, <1>4 DEF OvertakenAreLate
<1>6. Precedes(j, i) => j \in late
  BY <1>0, <1>4 DEF OvertakenAreLate
<1>7. \A k \in late : Precedes(i, k)
  BY <1>2 DEF Timely
<1>8. QED
  BY <1>4, <1>5, <1>6, <1>7, PrecedesIsTotal
LEMMA FreshStep ==
    ASSUME ShadowInvariant, [Next]_vars
    PROVE  TimelyReadsAreFresh'
<1>0. TimelyReadsAreFresh /\ WorkIsReal
  BY DEF ShadowInvariant
<1>1. SUFFICES ASSUME NEW v \in Workers, work'[v].phase = "reading",
                      \A j \in late' : Precedes(work'[v].item, j), NEW p \in work'[v].read
               PROVE  work'[v].before[p] = state'[work'[v].candidate][p].counted
  BY DEF TimelyReadsAreFresh, Timely, Precedes, At
<1>2. work'[v].item = work[v].item
  BY <1>1, WhoTransacts
<1>3. Timely(work[v].item)
  BY <1>1, <1>2, TimelyBefore
<1>4. ASSUME NEW w \in Workers, CommitEffect(w)
      PROVE  FALSE
  <2>1. v # w /\ work'[v] = work[v]
    BY <1>1, <1>4, CommitFrees
  <2>2. InTransaction(v) /\ InTransaction(w)
    BY <1>1, <1>4, <2>1, CommitFacts DEF InTransaction
  <2>3. QED
    BY <1>3, <2>1, <2>2, TimelyIsAlone
<1>5. state' = state
  BY <1>4, EvidenceMoves DEF evidence
<1>6. CASE work'[v] = work[v]
  BY <1>0, <1>1, <1>3, <1>5, <1>6 DEF TimelyReadsAreFresh
<1>7. ASSUME NEW c, BecomesOpen(v, c)
      PROVE  FALSE
  BY <1>0, <1>1, <1>7 DEF BecomesOpen, BeginEffect, WorkIsReal
<1>8. ASSUME NEW q \in Players, ReadsOn(v, q)
      PROVE  work'[v].before[p] = state'[work'[v].candidate][p].counted
  <2>1. CASE p = q
    BY <1>5, <1>8, <2>1 DEF ReadsOn
  <2>2. CASE p # q
    <3>1. p \in work[v].read /\ work[v].phase = "reading"
      BY <1>1, <1>8, <2>2 DEF ReadsOn, ReadEffect
    <3>2. p \in Players
      BY <3>1 DEF ShadowInvariant, TypeOK, Handler
    <3>3. QED
      BY <1>0, <1>3, <1>5, <1>8, <2>2, <3>1, <3>2 DEF TimelyReadsAreFresh, ReadsOn
  <2>3. QED
    BY <2>1, <2>2
<1>9. QED
  BY <1>1, <1>6, <1>7, <1>8, WorkerMoves DEF BecomesClaimed, BecomesFree

\* What a commit adds to the results a candidate has learned from.
LEMMA LearnedMoves ==
    ASSUME ShadowInvariant, [Next]_vars, NEW c, NEW p
    PROVE  \/ Learned(c, p)' = Learned(c, p)
           \/ \E w \in Workers :
                /\ CommitEffect(w) /\ Scores(w)
                /\ Learned(c, p)' = Learned(c, p) \cup
                     IF c = work[w].candidate /\ p \in PlayersOf[work[w].item.room]
                       THEN {work[w].item.room} ELSE {}
<1>1. ASSUME observations' = observations
      PROVE  Learned(c, p)' = Learned(c, p)
  BY <1>1 DEF Learned
<1>2. ASSUME NEW w \in Workers, CommitEffect(w), Scores(w)
      PROVE  Learned(c, p)' = Learned(c, p) \cup
                     IF c = work[w].candidate /\ p \in PlayersOf[work[w].item.room]
                       THEN {work[w].item.room} ELSE {}
  <2>1. PICK r : r = work[w].item.room
    OBVIOUS
  <2>2. PICK k : k = work[w].candidate
    OBVIOUS
  <2>3. r \in Rooms /\ observations' = observations \cup {[result |-> r, candidate |-> k]}
    BY <1>2, <2>1, <2>2, CommitFacts DEF Scores
  <2>4. \A d : [result |-> d, candidate |-> c] = [result |-> r, candidate |-> k] <=> d = r /\ c = k
    OBVIOUS
  <2>5. Learned(c, p)' =
          {d \in Rooms : p \in PlayersOf[d] /\ ([result |-> d, candidate |-> c] \in observations
                                               \/ (d = r /\ c = k))}
    BY <2>3, <2>4 DEF Learned
  <2>6. QED
    BY <2>1, <2>2, <2>3, <2>5 DEF Learned
<1>3. QED
  BY <1>1, <1>2, EvidenceMoves DEF CommitEffect, Predicts, Skips, evidence

\* What was learned was processed.
LEMMA LearnedIsProcessed ==
    ASSUME ShadowInvariant, NEW c, NEW p, NEW d \in Learned(c, p)
    PROVE  d \in Finished /\ Processed(ResultItem(d))
<1>1. d \in Rooms /\ [result |-> d, candidate |-> c] \in observations
  BY DEF Learned
<1>2. [result |-> d, candidate |-> c] \in ObservationsOf(d)
  BY <1>1 DEF ObservationsOf
<1>3. PairedFor(d)
  BY <1>1, PairedForRooms DEF ShadowInvariant
<1>4. Scored(d)
  BY <1>2, <1>3 DEF PairedFor
<1>5. QED
  BY <1>4 DEF Scored

\* What a commit on a timely item has read is all that its candidate has learned, and
\* all of that precedes the item.
LEMMA TimelyCommit ==
    ASSUME ShadowInvariant, NEW w \in Workers, CommitEffect(w), AllRead(w),
           Timely(work[w].item), NEW p \in PlayersOf[work[w].item.room]
    PROVE  /\ work[w].before[p] = state[work[w].candidate][p].counted
           /\ work[w].before[p] = Learned(work[w].candidate, p)
           /\ \A d \in Learned(work[w].candidate, p) : Precedes(ResultItem(d), work[w].item)
<1>0. TimelyReadsAreFresh /\ TimelyStatesAreWhole /\ CandidateIsChosen
  BY DEF ShadowInvariant
<1>1. /\ work[w].item \in Items /\ row[work[w].item].status = "pending" /\ p \in Players
      /\ work[w].phase = "reading" /\ work[w].read = PlayersOf[work[w].item.room]
      /\ work[w].candidate \in Candidates
  BY <1>0, CommitFacts DEF AllRead, CandidateIsChosen, InTransaction
<1>2. work[w].before[p] = state[work[w].candidate][p].counted
  BY <1>0, <1>1 DEF TimelyReadsAreFresh
<1>3. \A j \in Items : Processed(j) => Precedes(j, work[w].item) /\ Timely(j)
  BY <1>1, TimelyClaim
<1>4. state[work[w].candidate][p].counted = Learned(work[w].candidate, p)
  BY <1>0, <1>1, <1>3 DEF TimelyStatesAreWhole
<1>5. ASSUME NEW d \in Learned(work[w].candidate, p)
      PROVE  Precedes(ResultItem(d), work[w].item)
  <2>1. d \in Finished /\ Processed(ResultItem(d))
    BY <1>5, LearnedIsProcessed
  <2>2. ResultItem(d) \in Items
    BY <2>1, FinishedAreRooms, ItemsOfRooms
  <2>3. QED
    BY <1>3, <2>1, <2>2
<1>6. QED
  BY <1>2, <1>4, <1>5

LEMMA WholeStep ==
    ASSUME ShadowInvariant, [Next]_vars
    PROVE  TimelyStatesAreWhole'
<1>1. SUFFICES ASSUME \A i \in Items : row'[i].status = "processed" =>
                        \A j \in late' : Precedes(i, j),
                      NEW c \in Candidates, NEW p \in Players
               PROVE  state'[c][p].counted = Learned(c, p)'
  BY DEF TimelyStatesAreWhole, Processed, Timely, Precedes, At
<1>2. \A i \in Items : Processed(i) => Timely(i)
  BY <1>1, StatusMoves, TimelyBefore DEF Processed
<1>3. state[c][p].counted = Learned(c, p)
  BY <1>2 DEF ShadowInvariant, TimelyStatesAreWhole
<1>4. ASSUME NEW w \in Workers, CommitEffect(w), Scores(w)
      PROVE  state'[c][p].counted = Learned(c, p)'
  <2>0. PICK r : r = work[w].item.room
    OBVIOUS
  <2>1. row \in [Items -> WorkRow] /\ work[w].item \in Items
    BY <1>4, CommitFacts DEF ShadowInvariant, TypeOK
  <2>2. row'[work[w].item].status = "processed"
    BY <1>4, <2>1, WriteFacts DEF CommitEffect
  <2>3. Timely(work[w].item) /\ AllRead(w)
    BY <1>1, <1>4, <2>1, <2>2, TimelyBefore DEF Scores
  <2>4. state'[c][p] = IF c = work[w].candidate /\ p \in PlayersOf[r]
                         THEN Advanced(r, work[w].before[p]) ELSE state[c][p]
    BY <1>4, <2>0, ScoredStates
  <2>5. Advanced(r, work[w].before[p]).counted = work[w].before[p] \cup {r}
    BY DEF Advanced
  <2>6. c = work[w].candidate /\ p \in PlayersOf[r] =>
          work[w].before[p] = state[c][p].counted
    BY <1>4, <2>0, <2>3, TimelyCommit
  <2>7. state'[c][p].counted = state[c][p].counted \cup
          IF c = work[w].candidate /\ p \in PlayersOf[r] THEN {r} ELSE {}
    BY <2>4, <2>5, <2>6
  <2>8. Learned(c, p)' = Learned(c, p) \cup
          IF c = work[w].candidate /\ p \in PlayersOf[r] THEN {r} ELSE {}
    <3>1. PICK k : k = work[w].candidate
      OBVIOUS
    <3>2. observations' = observations \cup {[result |-> r, candidate |-> k]} /\ r \in Rooms
      BY <1>4, <2>0, <3>1, CommitFacts DEF Scores
    <3>3. \A d : [result |-> d, candidate |-> c] = [result |-> r, candidate |-> k]
                   <=> d = r /\ c = k
      OBVIOUS
    <3>4. Learned(c, p)' =
            {d \in Rooms : p \in PlayersOf[d] /\ ([result |-> d, candidate |-> c] \in observations
                                                 \/ (d = r /\ c = k))}
      BY <3>2, <3>3 DEF Learned
    <3>5. QED
      BY <3>1, <3>2, <3>4 DEF Learned
  <2>9. QED
    BY <1>3, <2>7, <2>8
<1>5. CASE \A w \in Workers : ~(CommitEffect(w) /\ Scores(w))
  <2>1. state' = state /\ observations' = observations
    BY <1>5, EvidenceMoves DEF CommitEffect, Predicts, Skips, evidence
  <2>2. Learned(c, p)' = Learned(c, p)
    BY <2>1 DEF Learned
  <2>3. QED
    BY <1>3, <2>1, <2>2
<1>6. QED
  BY <1>4, <1>5

-----------------------------------------------------------------------------
(***************************************************************************)
(* Predictions and updates follow the timeline.                            *)
(***************************************************************************)

\* The results before item i that the candidate has learned of p from, where obs are
\* the observations.
EarlierLearned(obs, c, p, i) ==
    {d \in Rooms : /\ p \in PlayersOf[d]
                   /\ [result |-> d, candidate |-> c] \in obs
                   /\ Precedes(ResultItem(d), i)}

\* The order the property names is the order of the queue.
LEMMA EarlierByTime ==
    ASSUME NEW d \in Rooms, NEW r \in Rooms
    PROVE  /\ Precedes(ResultItem(d), RoomItem(r)) <=> AvailableAt[d] < FilledAt[r]
           /\ Precedes(ResultItem(d), ResultItem(r)) <=>
                \/ AvailableAt[d] < AvailableAt[r]
                \/ AvailableAt[d] = AvailableAt[r] /\ Position[d] < Position[r]
BY ItemsOfRooms DEF Precedes

LEMMA TimelineInOrder ==
    ASSUME TypeOK
    PROVE  FollowsTimeline <=>
             /\ \A r \in Rooms : prediction[r].candidate # NoCandidate /\ Timely(RoomItem(r)) =>
                  \A p \in PlayersOf[r] :
                    prediction[r].seen[p] =
                      EarlierLearned(observations, prediction[r].candidate, p, RoomItem(r))
             /\ \A u \in updates : Timely(ResultItem(u.result)) =>
                  u.before = EarlierLearned(observations, u.candidate, u.player,
                                            ResultItem(u.result))
<1>1. ASSUME NEW r \in Rooms, NEW c, NEW p
      PROVE  {d \in Learned(c, p) : AvailableAt[d] < FilledAt[r]} =
               EarlierLearned(observations, c, p, RoomItem(r))
  BY <1>1, EarlierByTime DEF EarlierLearned, Learned
<1>2. ASSUME NEW r \in Rooms, NEW c, NEW p
      PROVE  {d \in Learned(c, p) :
                \/ AvailableAt[d] < AvailableAt[r]
                \/ AvailableAt[d] = AvailableAt[r] /\ Position[d] < Position[r]} =
               EarlierLearned(observations, c, p, ResultItem(r))
  BY <1>2, EarlierByTime DEF EarlierLearned, Learned
<1>3. \A u \in updates : u.result \in Rooms
  BY DEF TypeOK, Update
<1>4. \A r \in Rooms : \A c, p :
        {d \in Learned(c, p) : AvailableAt[d] < FilledAt[r]} =
          EarlierLearned(observations, c, p, RoomItem(r))
  BY <1>1
<1>5. ASSUME NEW u \in updates
      PROVE  {d \in Learned(u.candidate, u.player) :
                \/ AvailableAt[d] < AvailableAt[u.result]
                \/ /\ AvailableAt[d] = AvailableAt[u.result]
                   /\ Position[d] < Position[u.result]} =
               EarlierLearned(observations, u.candidate, u.player, ResultItem(u.result))
  BY <1>2, <1>3, <1>5
<1> DEFINE Known(r, p) ==
             {d \in Learned(prediction[r].candidate, p) : AvailableAt[d] < FilledAt[r]}
           Earlier(u) ==
             {d \in Learned(u.candidate, u.player) :
                \/ AvailableAt[d] < AvailableAt[u.result]
                \/ /\ AvailableAt[d] = AvailableAt[u.result]
                   /\ Position[d] < Position[u.result]}
<1>6. FollowsTimeline <=>
        /\ \A r \in Rooms : prediction[r].candidate # NoCandidate /\ Timely(RoomItem(r)) =>
             \A p \in PlayersOf[r] : prediction[r].seen[p] = Known(r, p)
        /\ \A u \in updates : Timely(ResultItem(u.result)) => u.before = Earlier(u)
  BY DEF FollowsTimeline
<1>7. \A r \in Rooms : \A p :
        Known(r, p) = EarlierLearned(observations, prediction[r].candidate, p, RoomItem(r))
  BY <1>4
<1>8. \A u \in updates : Earlier(u) =
        EarlierLearned(observations, u.candidate, u.player, ResultItem(u.result))
  BY <1>5
<1> HIDE DEF Known, Earlier
<1>9. QED
  BY <1>6, <1>7, <1>8

\* What precedes a timely item that was processed is not learned later.
LEMMA EarlierStays ==
    ASSUME ShadowInvariant, [Next]_vars, NEW i \in Items, Processed(i), Timely(i), NEW c, NEW p
    PROVE  EarlierLearned(observations', c, p, i) = EarlierLearned(observations, c, p, i)
<1>1. CASE observations' = observations
  BY <1>1
<1>2. ASSUME NEW w \in Workers, CommitEffect(w), Scores(w)
      PROVE  EarlierLearned(observations', c, p, i) = EarlierLearned(observations, c, p, i)
  <2>1. PICK q : q = work[w].item.room
    OBVIOUS
  <2>2. PICK k : k = work[w].candidate
    OBVIOUS
  <2>3. observations' = observations \cup {[result |-> q, candidate |-> k]}
    BY <1>2, <2>1, <2>2 DEF Scores
  <2>4. ResultItem(q) \in Items /\ row[ResultItem(q)].status = "pending"
    BY <1>2, <2>1, CommitFacts, ItemFacts DEF Scores
  <2>5. ~Precedes(ResultItem(q), i)
    BY <2>4, PrecedesIsTotal DEF ShadowInvariant, OvertakenAreLate, Timely
  <2>6. \A d : [result |-> d, candidate |-> c] = [result |-> q, candidate |-> k]
                 <=> d = q /\ c = k
    OBVIOUS
  <2>7. QED
    BY <2>3, <2>5, <2>6 DEF EarlierLearned
<1>3. QED
  BY <1>1, <1>2, EvidenceMoves DEF CommitEffect, Predicts, Skips, evidence

\* A commit on a timely item uses everything its candidate has learned, all of it earlier.
LEMMA CommitUsesEarlier ==
    ASSUME ShadowInvariant, NEW w \in Workers, CommitEffect(w), AllRead(w),
           Timely(work[w].item), NEW p \in PlayersOf[work[w].item.room]
    PROVE  work[w].before[p] = EarlierLearned(observations, work[w].candidate, p, work[w].item)
<1>1. /\ work[w].before[p] = Learned(work[w].candidate, p)
      /\ \A d \in Learned(work[w].candidate, p) : Precedes(ResultItem(d), work[w].item)
  BY TimelyCommit
<1>2. QED
  BY <1>1 DEF Learned, EarlierLearned

LEMMA PredictionTimelineStep ==
    ASSUME ShadowInvariant, [Next]_vars, NEW r \in Rooms, NEW p \in PlayersOf[r],
           prediction'[r].candidate # NoCandidate, Timely(RoomItem(r))
    PROVE  prediction'[r].seen[p] =
             EarlierLearned(observations', prediction'[r].candidate, p, RoomItem(r))
<1>0. /\ RoomsFirst /\ TypeOK /\ prediction \in [Rooms -> Prediction] /\ FollowsTimeline
      /\ RoomItem(r) \in Items
  BY ItemsOfRooms DEF ShadowInvariant, TypeOK
<1>1. CASE prediction'[r] = prediction[r]
  <2>1. Processed(RoomItem(r)) /\ prediction[r].candidate # NoCandidate
    BY <1>0, <1>1 DEF RoomsFirst
  <2>2. prediction[r].seen[p] =
          EarlierLearned(observations, prediction[r].candidate, p, RoomItem(r))
    BY <1>0, <2>1, TimelineInOrder
  <2>3. QED
    BY <1>0, <1>1, <2>1, <2>2, EarlierStays
<1>2. CASE prediction'[r] # prediction[r]
  <2>1. PICK w \in Workers : CommitEffect(w)
    BY <1>2, EvidenceMoves DEF evidence
  <2>2. Predicts(w)
    BY <1>2, <2>1 DEF CommitEffect, Scores, Skips, evidence
  <2>3. r = work[w].item.room /\ work[w].item \in Items /\ work[w].item.kind = "room"
    BY <1>0, <1>2, <2>1, <2>2, CommitFacts DEF Predicts
  <2>4. work[w].item = RoomItem(r)
    BY <2>3, ItemFacts
  <2>5. prediction'[r] = [candidate |-> work[w].candidate, seen |-> work[w].before]
        /\ observations' = observations /\ AllRead(w)
    BY <1>0, <2>2, <2>3 DEF Predicts
  <2>6. work[w].before[p] = EarlierLearned(observations, work[w].candidate, p, work[w].item)
    BY <2>1, <2>3, <2>4, <2>5, CommitUsesEarlier
  <2>7. prediction'[r].candidate = work[w].candidate /\ prediction'[r].seen = work[w].before
    BY <2>5
  <2>8. QED
    BY <2>4, <2>5, <2>6, <2>7
<1>3. QED
  BY <1>1, <1>2

\* A stored update is of a result that was processed.
LEMMA UpdatesAreProcessed ==
    ASSUME ShadowInvariant, NEW u \in updates
    PROVE  u.result \in Rooms /\ u.result \in Finished /\ Processed(ResultItem(u.result))
<1>1. u.result \in Rooms /\ u.player \in Players
  BY DEF ShadowInvariant, TypeOK, Update
<1>2. PICK r \in Rooms : r = u.result
  BY <1>1
<1>3. PICK p \in Players : p = u.player
  BY <1>1
<1>4. u \in UpdatesOf(r, p)
  BY <1>2, <1>3 DEF UpdatesOf
<1>5. PairedFor(r)
  BY PairedForRooms DEF ShadowInvariant
<1>6. Scored(r)
  BY <1>4, <1>5 DEF PairedFor
<1>7. QED
  BY <1>1, <1>2, <1>6 DEF Scored

LEMMA UpdateTimelineStep ==
    ASSUME ShadowInvariant, [Next]_vars, NEW u \in updates', Timely(ResultItem(u.result))
    PROVE  u.before = EarlierLearned(observations', u.candidate, u.player, ResultItem(u.result))
<1>0. FollowsTimeline /\ TypeOK
  BY DEF ShadowInvariant
<1>1. CASE u \in updates
  <2>1. ResultItem(u.result) \in Items /\ Processed(ResultItem(u.result))
    BY <1>1, UpdatesAreProcessed, ItemsOfRooms
  <2>2. u.before = EarlierLearned(observations, u.candidate, u.player, ResultItem(u.result))
    BY <1>0, <1>1, TimelineInOrder
  <2>3. QED
    BY <2>1, <2>2, EarlierStays
<1>2. CASE u \notin updates
  <2>1. PICK w \in Workers : CommitEffect(w)
    BY <1>2, EvidenceMoves DEF evidence
  <2>2. Scores(w)
    BY <1>2, <2>1 DEF CommitEffect, Predicts, Skips, evidence
  <2>3. PICK q : q = work[w].item.room
    OBVIOUS
  <2>4. PICK k : k = work[w].candidate
    OBVIOUS
  <2>5. work[w].item = ResultItem(q) /\ ResultItem(q) \in Items
    BY <2>1, <2>2, <2>3, CommitFacts, ItemFacts DEF Scores
  <2>6. PICK p \in PlayersOf[q] :
          u = [player |-> p, result |-> q, candidate |-> k, before |-> work[w].before[p]]
    BY <1>2, <2>2, <2>3, <2>4 DEF Scores
  <2>7. u.player = p /\ u.result = q /\ u.candidate = k /\ u.before = work[w].before[p]
    BY <2>6
  <2>8. observations' = observations \cup {[result |-> q, candidate |-> k]} /\ AllRead(w)
    BY <2>2, <2>3, <2>4 DEF Scores
  <2>9. work[w].before[p] = EarlierLearned(observations, k, p, ResultItem(q))
    BY <2>1, <2>3, <2>4, <2>5, <2>6, <2>7, <2>8, CommitUsesEarlier
  <2>10. ~Precedes(ResultItem(q), ResultItem(q))
    BY <2>5, PrecedesIsTotal
  <2>11. \A d : [result |-> d, candidate |-> k] = [result |-> q, candidate |-> k] <=> d = q
    OBVIOUS
  <2>12. EarlierLearned(observations', k, p, ResultItem(q)) =
           EarlierLearned(observations, k, p, ResultItem(q))
    BY <2>8, <2>10, <2>11 DEF EarlierLearned
  <2>13. QED
    BY <2>7, <2>9, <2>12
<1>3. QED
  BY <1>1, <1>2

LEMMA TimelineStep ==
    ASSUME ShadowInvariant, [Next]_vars
    PROVE  FollowsTimeline'
<1>1. TypeOK'
  BY TypeStep
<1>2. \A u \in updates' : u.result \in Rooms
  BY <1>1 DEF TypeOK, Update
<1>3. ASSUME NEW r \in Rooms, prediction'[r].candidate # NoCandidate,
             \A j \in late' : Precedes(RoomItem(r), j), NEW p \in PlayersOf[r]
      PROVE  prediction'[r].seen[p] =
               {d \in {e \in Rooms : p \in PlayersOf[e] /\
                         [result |-> e, candidate |-> prediction'[r].candidate] \in observations'} :
                  AvailableAt[d] < FilledAt[r]}
  <2>1. Timely(RoomItem(r))
    BY <1>3, TimelyBefore
  <2>2. prediction'[r].seen[p] =
          EarlierLearned(observations', prediction'[r].candidate, p, RoomItem(r))
    BY <1>3, <2>1, PredictionTimelineStep
  <2>3. QED
    BY <2>2, EarlierByTime DEF EarlierLearned
<1>4. ASSUME NEW u \in updates', \A j \in late' : Precedes(ResultItem(u.result), j)
      PROVE  u.before =
               {d \in {e \in Rooms : u.player \in PlayersOf[e] /\
                         [result |-> e, candidate |-> u.candidate] \in observations'} :
                  \/ AvailableAt[d] < AvailableAt[u.result]
                  \/ /\ AvailableAt[d] = AvailableAt[u.result]
                     /\ Position[d] < Position[u.result]}
  <2>1. Timely(ResultItem(u.result))
    BY <1>4, TimelyBefore
  <2>2. u.before = EarlierLearned(observations', u.candidate, u.player, ResultItem(u.result))
    BY <1>4, <2>1, UpdateTimelineStep
  <2>3. QED
    BY <1>2, <1>4, <2>2, EarlierByTime DEF EarlierLearned
<1>5. QED
  BY <1>3, <1>4, Zenon DEF FollowsTimeline, Timely, Learned, Precedes, At, RoomItem, ResultItem

-----------------------------------------------------------------------------
(***************************************************************************)
(* The theorems.                                                           *)
(***************************************************************************)
LEMMA InvariantInitially == Init => ShadowInvariant
<1>1. SUFFICES ASSUME Init
               PROVE  ShadowInvariant
  OBVIOUS
<1>2. /\ \A w \in Workers : work[w] = Idle
      /\ \A r \in Rooms : prediction[r] = NoPrediction
      /\ \A i \in Items : row[i] = NoRow
      /\ \A c \in Candidates, p \in Players : state[c][p] = Prior
      /\ updates = {} /\ observations = {} /\ late = {}
  BY <1>1 DEF Init
<1>3. TypeOK
  <2>1. NoDeployment \in Deployment
    BY DEF NoDeployment, Deployment
  <2>2. /\ work \in [Workers -> Handler] /\ prediction \in [Rooms -> Prediction]
        /\ row \in [Items -> WorkRow] /\ deployment \in [Candidates -> Deployment]
    BY <1>1, <2>1, EmptyHandler, ConstantRows DEF Init
  <2>3. state \in [Candidates -> [Players -> PlayerState]]
    BY <1>1, EmptyHandler DEF Init
  <2>4. QED
    BY <1>1, <2>2, <2>3 DEF Init, TypeOK
<1>4. \A w \in Workers : work[w].phase = "idle" /\ ~InTransaction(w)
  BY <1>2, EmptyHandler DEF InTransaction
<1>5. /\ WorkIsReal /\ TransactionsHold /\ CandidateIsChosen /\ TimelyReadsAreFresh
  BY <1>4 DEF WorkIsReal, TransactionsHold, CandidateIsChosen, TimelyReadsAreFresh
<1>6. \A r \in Rooms : prediction[r].candidate = NoCandidate
  BY <1>2, EmptyHandler
<1>7. \A i \in Items : row[i].status = "none" /\ row[i].token = 0
  BY <1>2, ConstantRows
<1>8. \A r \in Finished : ResultItem(r) \in Items
  BY FinishedAreRooms, ItemsOfRooms
<1>9. RoomsFirst /\ OvertakenAreLate
  BY <1>6, <1>7, <1>8 DEF RoomsFirst, OvertakenAreLate, Processed
<1>10. StatesAreDated /\ ReadsAreDated
  BY <1>2, EmptyHandler DEF StatesAreDated, ReadsAreDated
<1>11. EvidenceIsPaired /\ NoLeakage
  BY <1>2, <1>6 DEF EvidenceIsPaired, NoLeakage
<1>12. TimelyStatesAreWhole /\ FollowsTimeline
  <2>1. \A c, p : Learned(c, p) = {}
    BY <1>2 DEF Learned
  <2>2. QED
    BY <1>2, <1>6, <2>1, EmptyHandler DEF TimelyStatesAreWhole, FollowsTimeline
<1>13. QED
  BY <1>3, <1>5, <1>9, <1>10, <1>11, <1>12 DEF ShadowInvariant

LEMMA InvariantStep ==
    ASSUME ShadowInvariant, [Next]_vars
    PROVE  ShadowInvariant'
BY TypeStep, WorkStep, HoldStep, FirstStep, CandidateStep, StatesDatedStep, ReadsDatedStep,
   PairedStep, LeakageStep, OvertakenStep, FreshStep, WholeStep, TimelineStep
   DEF ShadowInvariant

\* The inductive invariant holds in every reachable state, whatever the runners, the
\* operator, the delays of storage and the faults do.
THEOREM InvariantHolds == Spec => []ShadowInvariant
<1>1. Init => ShadowInvariant
  BY InvariantInitially
<1>2. ShadowInvariant /\ [Next]_vars => ShadowInvariant'
  BY InvariantStep
<1>3. QED
  BY <1>1, <1>2, PTL DEF Spec

\* Rows, predictions, states and handlers keep their types: in particular
\* ClaimNextRatingShadowWork always finds a token that nobody holds for the item.
THEOREM TypeCorrect == Spec => []TypeOK
<1>1. ShadowInvariant => TypeOK
  BY DEF ShadowInvariant
<1>2. QED
  BY <1>1, InvariantHolds, PTL

\* No outcome leaks into shadow evidence: processShadowRoom predicts a room with a
\* candidate that was active when it was filled and from results that were available by
\* then, and processShadowResult scores only results after the training cutoff, however
\* late insertShadowWork stores an item and however transactions interleave.
THEOREM NothingLeaks == Spec => []NoLeakage
<1>1. ShadowInvariant => NoLeakage
  BY DEF ShadowInvariant
<1>2. QED
  BY <1>1, InvariantHolds, PTL

\* The fence of lockRatingShadowClaim and the lock of the item make a result count once:
\* every processed result of a predicted room has one observation and one update per
\* participant for the candidate that predicted it, and there is no other evidence.
THEOREM EvidenceAlwaysPaired == Spec => []EvidenceIsPaired
<1>1. ShadowInvariant => EvidenceIsPaired
  BY DEF ShadowInvariant
<1>2. QED
  BY <1>1, InvariantHolds, PTL

\* The order of ClaimNextRatingShadowWork, head first and one transaction per item, makes
\* the replay exact: up to the first item stored late, a prediction knows exactly the
\* results available before the room was filled and an update exactly the earlier ones,
\* although other runners may commit at the same time.
THEOREM TimelineAlwaysFollowed == Spec => []FollowsTimeline
<1>1. ShadowInvariant => FollowsTimeline
  BY DEF ShadowInvariant
<1>2. QED
  BY <1>1, InvariantHolds, PTL
=============================================================================
