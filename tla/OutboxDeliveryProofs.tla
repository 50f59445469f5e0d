------------------------ MODULE OutboxDeliveryProofs ------------------------
(***************************************************************************)
(* Proofs about OutboxDelivery, for every set of events, aggregates and    *)
(* runners, every batch size, lease, retry policy and clock skew, and      *)
(* without the bounds TLC needs (MaxTime, LastInsert, LastFault and        *)
(* MaxFaults are arbitrary).                                               *)
(***************************************************************************)
EXTENDS OutboxDelivery, InductionLemmas

-----------------------------------------------------------------------------
(***************************************************************************)
(* The retry delay.                                                        *)
(***************************************************************************)

\* One turn of the loop of retryDelay.
DoubledDelay(delay) ==
    IF delay > RetryMaxDelay \div 2 THEN RetryMaxDelay ELSE 2 * delay

\* The delays of the attempts up to n, as the recurrence gives them.
DelaysUpTo(n) ==
    {f \in [0 .. n -> Nat] :
       \A a \in 0 .. n : f[a] = IF a <= 1 THEN RetryBaseDelay ELSE DoubledDelay(f[a - 1])}

\* A turn of the loop keeps the delay between the base and the maximum.
LEMMA DoubledDelayBounds ==
    ASSUME NEW d \in Nat
    PROVE  /\ DoubledDelay(d) \in Nat
           /\ d \in RetryBaseDelay .. RetryMaxDelay =>
                DoubledDelay(d) \in RetryBaseDelay .. RetryMaxDelay
  BY OutboxAssumption DEF DoubledDelay

\* The recurrence has a solution up to every attempt.
LEMMA DelaysExist == \A n \in Nat : DelaysUpTo(n) # {}
<1> DEFINE S == {n \in Nat : DelaysUpTo(n) # {}}
<1>1. 0 \in S
  <2>1. [a \in 0 .. 0 |-> RetryBaseDelay] \in DelaysUpTo(0)
    BY OutboxAssumption DEF DelaysUpTo
  <2>2. QED
    BY <2>1
<1>2. ASSUME NEW n \in S
      PROVE  n + 1 \in S
  <2>1. PICK f \in DelaysUpTo(n) : TRUE
    BY <1>2
  <2>2. f \in [0 .. n -> Nat]
    BY <2>1 DEF DelaysUpTo
  <2>3. \A a \in 0 .. n : f[a] = IF a <= 1 THEN RetryBaseDelay ELSE DoubledDelay(f[a - 1])
    BY <2>1 DEF DelaysUpTo
  <2> DEFINE last == IF n + 1 <= 1 THEN RetryBaseDelay ELSE DoubledDelay(f[n])
             g == [a \in 0 .. n + 1 |-> IF a = n + 1 THEN last ELSE f[a]]
  <2>4. last \in Nat
    BY <1>2, <2>2, DoubledDelayBounds, OutboxAssumption
  <2>5. g \in [0 .. n + 1 -> Nat]
    BY <1>2, <2>2, <2>4
  <2>6. ASSUME NEW a \in 0 .. n + 1
        PROVE  g[a] = IF a <= 1 THEN RetryBaseDelay ELSE DoubledDelay(g[a - 1])
    <3>1. CASE a = n + 1
      BY <1>2, <3>1
    <3>2. CASE a # n + 1
      <4>1. a \in 0 .. n /\ (a > 1 => a - 1 \in 0 .. n /\ a - 1 # n + 1)
        BY <1>2, <3>2
      <4>2. g[a] = f[a] /\ (a > 1 => g[a - 1] = f[a - 1])
        BY <1>2, <3>2, <4>1
      <4>3. QED
        BY <2>3, <4>1, <4>2
    <3>3. QED
      BY <3>1, <3>2
  <2>7. g \in DelaysUpTo(n + 1)
    BY <2>5, <2>6 DEF DelaysUpTo
  <2>8. QED
    BY <1>2, <2>7
<1>3. S = Nat
  <2> HIDE DEF S
  <2>1. S \in SUBSET Nat
    BY DEF S
  <2>2. QED
    BY <1>1, <1>2, <2>1, SetInduction
<1>4. QED
  BY <1>3

\* Two solutions agree where both are defined.
LEMMA DelaysAgree ==
    ASSUME NEW n \in Nat, NEW m \in Nat, n <= m,
           NEW f \in DelaysUpTo(n), NEW g \in DelaysUpTo(m)
    PROVE  \A a \in 0 .. n : f[a] = g[a]
<1> DEFINE T == {a \in 0 .. n : f[a] # g[a]}
<1>1. SUFFICES ASSUME T # {}
               PROVE  FALSE
  OBVIOUS
<1>2. PICK x \in T : \A y \in T : ~(y < x)
  <2>1. T \in SUBSET Nat
    OBVIOUS
  <2> HIDE DEF T
  <2>2. QED
    BY <1>1, <2>1, LeastNumber
<1>3. /\ f[x] = IF x <= 1 THEN RetryBaseDelay ELSE DoubledDelay(f[x - 1])
      /\ g[x] = IF x <= 1 THEN RetryBaseDelay ELSE DoubledDelay(g[x - 1])
  BY DEF DelaysUpTo
<1>4. x > 1 => x - 1 \in 0 .. n /\ x - 1 < x
  BY <1>2
<1>5. x > 1 => f[x - 1] = g[x - 1]
  BY <1>2, <1>4
<1>6. QED
  BY <1>2, <1>3, <1>5

\* The recursive definition of RetryDelay defines a function that satisfies it.
LEMMA RetryDelayEquation ==
    RetryDelay = [a \in Nat |->
                    IF a <= 1 THEN RetryBaseDelay ELSE DoubledDelay(RetryDelay[a - 1])]
<1> DEFINE c(n) == CHOOSE f \in DelaysUpTo(n) : TRUE
           F == [n \in Nat |-> c(n)[n]]
<1>1. ASSUME NEW n \in Nat
      PROVE  c(n) \in DelaysUpTo(n)
  BY DelaysExist
<1>2. ASSUME NEW n \in Nat
      PROVE  F[n] = IF n <= 1 THEN RetryBaseDelay ELSE DoubledDelay(F[n - 1])
  <2>1. c(n)[n] = IF n <= 1 THEN RetryBaseDelay ELSE DoubledDelay(c(n)[n - 1])
    <3> HIDE DEF c
    <3>1. QED
      BY <1>1 DEF DelaysUpTo
  <2>2. n > 1 => c(n - 1)[n - 1] = c(n)[n - 1]
    <3>1. SUFFICES ASSUME n > 1
                   PROVE  c(n - 1)[n - 1] = c(n)[n - 1]
      OBVIOUS
    <3>2. n - 1 \in Nat /\ n - 1 <= n /\ n - 1 \in 0 .. n - 1
      BY <3>1
    <3> HIDE DEF c
    <3>3. c(n - 1) \in DelaysUpTo(n - 1) /\ c(n) \in DelaysUpTo(n)
      BY <1>1, <3>2
    <3>4. QED
      BY <3>2, <3>3, DelaysAgree
  <2>3. F[n] = c(n)[n] /\ (n > 1 => F[n - 1] = c(n - 1)[n - 1])
    <3> HIDE DEF c
    <3>1. QED
      OBVIOUS
  <2> HIDE DEF c, F
  <2>4. QED
    BY <2>1, <2>2, <2>3
<1>3. F = [a \in Nat |-> IF a <= 1 THEN RetryBaseDelay ELSE DoubledDelay(F[a - 1])]
  <2>1. F = [a \in Nat |-> F[a]]
    <3> HIDE DEF c
    <3>1. QED
      OBVIOUS
  <2> HIDE DEF F
  <2>2. QED
    BY <1>2, <2>1
<1>4. \E f : f = [a \in Nat |-> IF a <= 1 THEN RetryBaseDelay ELSE DoubledDelay(f[a - 1])]
  BY <1>3
<1>5. QED
  BY <1>4, Zenon DEF RetryDelay, DoubledDelay

\* Every delay of the retry policy lies between the base and the maximum: doubling
\* neither overshoots RetryMaxDelay nor falls below RetryBaseDelay, at any attempt.
THEOREM RetryDelayBounded ==
    RetryDelay \in [Nat -> RetryBaseDelay .. RetryMaxDelay]
<1> DEFINE S == {n \in Nat : RetryDelay[n] \in RetryBaseDelay .. RetryMaxDelay}
<1>1. \A n \in Nat :
        RetryDelay[n] = IF n <= 1 THEN RetryBaseDelay ELSE DoubledDelay(RetryDelay[n - 1])
  BY RetryDelayEquation
<1>2. 0 \in S
  BY <1>1, OutboxAssumption
<1>3. ASSUME NEW n \in S
      PROVE  n + 1 \in S
  <2>1. RetryDelay[n] \in Nat
    BY <1>3, OutboxAssumption
  <2>2. RetryDelay[n + 1] = IF n + 1 <= 1 THEN RetryBaseDelay ELSE DoubledDelay(RetryDelay[n])
    BY <1>1, <1>3
  <2>3. QED
    BY <1>3, <2>1, <2>2, DoubledDelayBounds, OutboxAssumption
<1>4. S = Nat
  <2>1. S \in SUBSET Nat
    OBVIOUS
  <2> HIDE DEF S
  <2>2. QED
    BY <1>2, <1>3, <2>1, SetInduction
<1>5. RetryDelay = [a \in Nat |-> RetryDelay[a]]
  BY RetryDelayEquation
<1>6. QED
  BY <1>4, <1>5

-----------------------------------------------------------------------------
(***************************************************************************)
(* Type correctness.                                                       *)
(***************************************************************************)

\* The records the module names are of their types.
LEMMA ConstantRecords == NoEvent \in EventRow /\ Idle \in Handler
  BY DEF NoEvent, EventRow, Idle, Handler

\* A stored event is a row.
LEMMA InsertedType ==
    ASSUME NEW at \in Int
    PROVE  [NoEvent EXCEPT !.status = "pending", !.occurredAt = at,
                           !.availableAt = at] \in EventRow
  BY ConstantRecords, Zenon DEF EventRow

\* Releasing a claim keeps a row a row.
LEMMA ReleasedType ==
    ASSUME NEW row \in EventRow
    PROVE  Released(row) \in EventRow
<1>1. 0 \in Nat /\ 0 \in Int
  OBVIOUS
<1>2. QED
  BY <1>1, Zenon DEF Released, EventRow

\* The rows that the operator and the completions release are rows.
LEMMA CompletedType ==
    ASSUME NEW row \in EventRow, NEW at \in Int
    PROVE  /\ [row EXCEPT !.status = "pending", !.availableAt = at] \in EventRow
           /\ [row EXCEPT !.status = "delivered", !.deliveredAt = at] \in EventRow
           /\ [row EXCEPT !.status = "dead"] \in EventRow
           /\ [row EXCEPT !.availableAt = at] \in EventRow
  BY DEF EventRow

\* A claimed row is a row, and the goroutine that holds it a handler.
LEMMA ClaimedType ==
    ASSUME NEW row \in EventRow, NEW until \in Int
    PROVE  /\ [row EXCEPT !.token = row.attempts + 1, !.attempts = row.attempts + 1,
                          !.claimedUntil = until] \in EventRow
           /\ [Idle EXCEPT !.phase = "claimed", !.token = row.attempts + 1] \in Handler
<1>1. row.attempts + 1 \in Nat
  BY DEF EventRow
<1>2. QED
  BY <1>1, ConstantRecords DEF EventRow, Handler, Idle

\* The time of a retry is a time, not before the runner's clock.
LEMMA WillRetryType ==
    ASSUME NEW w \in Workers, NEW h \in Handler, clock \in Int
    PROVE  /\ WillRetry(w, h) \in Handler
           /\ WillRetry(w, h).phase = "retry"
           /\ WillRetry(w, h).token = h.token
           /\ WillRetry(w, h).retryAt \in Int
           /\ WillRetry(w, h).retryAt >= Now(w)
<1>1. Now(w) \in Int
  BY OutboxAssumption DEF Now
<1>2. RetryDelay[h.token] \in Nat
  <2>1. h.token \in Nat
    BY DEF Handler
  <2>2. RetryDelay[h.token] \in RetryBaseDelay .. RetryMaxDelay
    BY <2>1, RetryDelayBounded
  <2>3. QED
    BY <2>2, OutboxAssumption
<1>3. PICK at \in Int : at = Now(w) + RetryDelay[h.token] /\ at >= Now(w)
  BY <1>1, <1>2
<1>4. WillRetry(w, h) = [h EXCEPT !.phase = "retry", !.retryAt = at]
  BY <1>3 DEF WillRetry
<1>5. QED
  BY <1>3, <1>4 DEF Handler

\* Whatever the endpoint answers, the goroutine stays a handler with its token.
LEMMA HeardType ==
    ASSUME NEW w \in Workers, NEW h \in Handler, NEW answer \in Answers, clock \in Int
    PROVE  /\ Heard(w, h, answer) \in Handler
           /\ Heard(w, h, answer).token = h.token
           /\ Heard(w, h, answer).phase = "ack" => answer = "2xx"
           /\ Heard(w, h, answer).phase = "retry" => Heard(w, h, answer).retryAt >= Now(w)
           /\ Heard(w, h, answer).phase # "idle"
<1>1. CASE answer = "2xx"
  BY <1>1 DEF Heard, Handler
<1>2. CASE answer = "permanent"
  BY <1>2 DEF Heard, Handler
<1>3. CASE answer = "retryable"
  <2>1. Heard(w, h, answer) = WillRetry(w, h)
    BY <1>3 DEF Heard
  <2>2. QED
    BY <2>1, WillRetryType
<1>4. QED
  BY <1>1, <1>2, <1>3 DEF Answers

\* Replacing one goroutine keeps the table of goroutines typed, and changes no other.
LEMMA GoesType ==
    ASSUME work \in [Workers -> [Events -> Handler]],
           NEW w \in Workers, NEW e \in Events, NEW h \in Handler, Goes(w, e, h)
    PROVE  /\ work' \in [Workers -> [Events -> Handler]]
           /\ work'[w][e] = h
           /\ \A v \in Workers, d \in Events : v # w \/ d # e => work'[v][d] = work[v][d]
  BY DEF Goes

\* Every step of a producer, the operator, a runner, the endpoint or a fault keeps
\* every table well typed.
LEMMA TypeStep ==
    ASSUME TypeOK, [Next]_vars
    PROVE  TypeOK'
<1> clock \in Int
  BY DEF TypeOK
<1>0. \A w \in Workers : Now(w) \in Int /\ Now(w) + LeaseDuration \in Int
  BY OutboxAssumption DEF Now
<1>1. ASSUME NEW e \in Events, Insert(e)
      PROVE  TypeOK'
  <2>1. PICK o \in OccurredOffsets :
          event' = [event EXCEPT ![e] =
                     [NoEvent EXCEPT !.status = "pending", !.occurredAt = clock + o,
                                     !.availableAt = clock + o]]
    BY <1>1 DEF Insert
  <2>2. clock + o \in Int
    BY OutboxAssumption
  <2>3. event' \in [Events -> EventRow]
    BY <2>1, <2>2, InsertedType DEF TypeOK
  <2>4. QED
    BY <1>1, <2>3 DEF Insert, TypeOK
<1>2. ASSUME NEW e \in Events, Redrive(e)
      PROVE  TypeOK'
  <2>1. Released([event[e] EXCEPT !.status = "pending", !.availableAt = clock]) \in EventRow
    BY CompletedType, ReleasedType DEF TypeOK
  <2>2. event' \in [Events -> EventRow]
    BY <1>2, <2>1 DEF Redrive, TypeOK
  <2>3. QED
    BY <1>2, <2>2 DEF Redrive, TypeOK
<1>3. ASSUME NEW w \in Workers, Claim(w)
      PROVE  TypeOK'
  <2>1. PICK batch \in SUBSET Due(Now(w)) :
          /\ event' = [e \in Events |->
               IF e \in batch
                 THEN [event[e] EXCEPT !.token = event[e].attempts + 1,
                                       !.attempts = event[e].attempts + 1,
                                       !.claimedUntil = Now(w) + LeaseDuration]
                 ELSE event[e]]
          /\ work' = [work EXCEPT ![w] = [e \in Events |->
               IF e \in batch
                 THEN [Idle EXCEPT !.phase = "claimed", !.token = event[e].attempts + 1]
                 ELSE Idle]]
    BY <1>3 DEF Claim
  <2>2. ASSUME NEW e \in Events
        PROVE  /\ event'[e] \in EventRow
               /\ [Idle EXCEPT !.phase = "claimed", !.token = event[e].attempts + 1]
                    \in Handler
    <3>1. event[e] \in EventRow
      BY DEF TypeOK
    <3>2. QED
      BY <1>0, <2>1, <3>1, ClaimedType
  <2>3. event' \in [Events -> EventRow]
    BY <2>1, <2>2
  <2>4. work' \in [Workers -> [Events -> Handler]]
    BY <2>1, <2>2, ConstantRecords DEF TypeOK
  <2>5. QED
    BY <1>3, <2>3, <2>4 DEF Claim, TypeOK
<1>4. ASSUME NEW w \in Workers, NEW e \in Events, Send(w, e)
      PROVE  TypeOK'
  <2>1. [work[w][e] EXCEPT !.phase = "waiting"] \in Handler
    BY DEF TypeOK, Handler
  <2>2. work' \in [Workers -> [Events -> Handler]]
    BY <1>4, <2>1, GoesType DEF Send, TypeOK
  <2>3. requests' \subseteq Request
    BY <1>4 DEF Send, TypeOK, Request, Handler
  <2>4. QED
    BY <1>4, <2>2, <2>3 DEF Send, TypeOK
<1>5. ASSUME NEW w \in Workers, NEW e \in Events, Acknowledge(w, e)
      PROVE  TypeOK'
  <2>1. Released([event[e] EXCEPT !.status = "delivered", !.deliveredAt = Now(w)]) \in EventRow
    BY <1>0, CompletedType, ReleasedType DEF TypeOK
  <2>2. event' \in [Events -> EventRow]
    BY <1>5, <2>1 DEF Acknowledge, TypeOK
  <2>3. QED
    BY <1>5, <2>2, GoesType, ConstantRecords DEF Acknowledge, Stops, TypeOK
<1>6. ASSUME NEW w \in Workers, NEW e \in Events, DeadLetter(w, e)
      PROVE  TypeOK'
  <2>1. Released([event[e] EXCEPT !.status = "dead"]) \in EventRow
    BY CompletedType, ReleasedType DEF TypeOK
  <2>2. event' \in [Events -> EventRow]
    BY <1>6, <2>1 DEF DeadLetter, TypeOK
  <2>3. QED
    BY <1>6, <2>2, GoesType, ConstantRecords DEF DeadLetter, Stops, TypeOK
<1>7. ASSUME NEW w \in Workers, NEW e \in Events, ScheduleRetry(w, e)
      PROVE  TypeOK'
  <2>1. work[w][e].retryAt \in Int
    BY DEF TypeOK, Handler
  <2>2. Released([event[e] EXCEPT !.availableAt = work[w][e].retryAt]) \in EventRow
    BY <2>1, CompletedType, ReleasedType DEF TypeOK
  <2>3. event' \in [Events -> EventRow]
    BY <1>7, <2>2 DEF ScheduleRetry, TypeOK
  <2>4. QED
    BY <1>7, <2>3, GoesType, ConstantRecords DEF ScheduleRetry, Stops, TypeOK
<1>8. ASSUME NEW w \in Workers, NEW e \in Events, ClaimLost(w, e)
      PROVE  TypeOK'
  BY <1>8, GoesType, ConstantRecords DEF ClaimLost, Stops, TypeOK
<1>9. ASSUME NEW q \in requests, NEW answer \in Answers, Answer(q, answer)
      PROVE  TypeOK'
  <2>1. q.worker \in Workers /\ q.event \in Events /\ work[q.worker][q.event] \in Handler
    BY DEF TypeOK, Request
  <2>2. Heard(q.worker, work[q.worker][q.event], answer) \in Handler
    BY <2>1, HeardType
  <2>3. work' \in [Workers -> [Events -> Handler]]
    BY <1>9, <2>1, <2>2, GoesType DEF Answer, TypeOK
  <2>4. faults' \in Nat /\ accepted' \subseteq Events /\ requests' \subseteq Request
    BY <1>9, <2>1 DEF Answer, TypeOK
  <2>5. QED
    BY <1>9, <2>3, <2>4 DEF Answer, TypeOK
<1>10. ASSUME NEW w \in Workers, NEW e \in Events, TransportFails(w, e)
       PROVE  TypeOK'
  <2>1. WillRetry(w, work[w][e]) \in Handler
    BY WillRetryType DEF TypeOK
  <2>2. work' \in [Workers -> [Events -> Handler]]
    BY <1>10, <2>1, GoesType DEF TransportFails, TypeOK
  <2>3. requests' \subseteq Request /\ faults' \in Nat
    BY <1>10 DEF TransportFails, TypeOK
  <2>4. QED
    BY <1>10, <2>2, <2>3 DEF TransportFails, TypeOK
<1>11. ASSUME NEW w \in Workers, NEW e \in Events, StatementFails(w, e)
       PROVE  TypeOK'
  BY <1>11, GoesType, ConstantRecords DEF StatementFails, Stops, TypeOK
<1>12. ASSUME NEW w \in Workers, Crash(w)
       PROVE  TypeOK'
  BY <1>12, ConstantRecords DEF Crash, TypeOK
<1>13. CASE Tick
  BY <1>13 DEF Tick, TypeOK
<1>14. CASE UNCHANGED vars
  BY <1>14 DEF vars, TypeOK
<1>15. QED
  BY <1>1, <1>2, <1>3, <1>4, <1>5, <1>6, <1>7, <1>8, <1>9, <1>10, <1>11, <1>12, <1>13,
     <1>14 DEF Next, HandlerStep

\* Every table of the outbox and its runners stays well typed: attempt numbers are
\* natural numbers, the times of retries are times, a claim is released completely.
THEOREM TypeCorrect == Spec => []TypeOK
<1>1. Init => TypeOK
  BY ConstantRecords DEF Init, TypeOK
<1>2. QED
  BY <1>1, TypeStep, PTL DEF Spec

-----------------------------------------------------------------------------
(***************************************************************************)
(* The inductive invariant.  Delivery in order rests on what a goroutine   *)
(* and a request on its way are entitled to: their event is stored and the *)
(* endpoint has accepted every earlier event of the aggregate, although    *)
(* the claim they started from may be long gone.                           *)
(***************************************************************************)

\* Events of an aggregate are stored in the order of their versions.
StoredInOrder ==
    \A e \in Events : event[e].status # "none" =>
        \A d \in Earlier(e) : event[d].status # "none"

\* No row is available before it occurred, as the schema requires, and only a pending
\* row is claimed.
RowsAreSound ==
    \A e \in Events :
        /\ event[e].status # "none" => event[e].occurredAt <= event[e].availableAt
        /\ event[e].token # 0 => event[e].status = "pending"

\* What a goroutine at work on an event may rely on.
HandlersAreEntitled ==
    \A w \in Workers, e \in Events : work[w][e].phase # "idle" =>
        /\ event[e].status # "none"
        /\ Earlier(e) \subseteq accepted
        /\ event[e].occurredAt <= Now(w)
        /\ work[w][e].phase = "ack" => e \in accepted
        /\ work[w][e].phase = "retry" => event[e].occurredAt <= work[w][e].retryAt

\* A request on its way is for a stored event whose predecessors are accepted.
RequestsAreEntitled ==
    \A q \in requests :
        event[q.event].status # "none" /\ Earlier(q.event) \subseteq accepted

DeliveryInvariant ==
    /\ TypeOK
    /\ StoredInOrder
    /\ RowsAreSound
    /\ DeliveredWasAccepted
    /\ HandlersAreEntitled
    /\ RequestsAreEntitled

\* How one step may change one row.
RowStep(e) ==
    \/ event'[e] = event[e]
    \/ /\ event[e].status = "none"
       /\ event'[e].status = "pending" /\ event'[e].token = 0
       /\ event'[e].occurredAt = event'[e].availableAt
       /\ \A d \in Earlier(e) : event[d].status # "none"
    \/ /\ event[e].status # "none" /\ event'[e].status # "none"
       /\ event'[e].occurredAt = event[e].occurredAt
       /\ event'[e].occurredAt <= event'[e].availableAt
       /\ event'[e].token # 0 => event'[e].status = "pending"
       /\ event[e].status # "delivered"
       /\ event'[e].status = "delivered" =>
            e \in accepted /\ event'[e].occurredAt <= event'[e].deliveredAt
       /\ event[e].status = "dead" =>
            event'[e].status = "pending" /\ event'[e].token = 0

\* Every step changes every row in one of these ways.
LEMMA RowsStep ==
    ASSUME DeliveryInvariant, TypeOK', [Next]_vars, NEW e \in Events
    PROVE  RowStep(e)
<1> clock \in Int /\ event[e] \in EventRow /\ event \in [Events -> EventRow]
  BY DEF DeliveryInvariant, TypeOK
<1>0. \A w \in Workers : Now(w) \in Int /\ Now(w) + LeaseDuration \in Int
  BY OutboxAssumption DEF Now
<1>a. /\ event[e].status # "none" => event[e].occurredAt <= event[e].availableAt
      /\ event[e].token # 0 => event[e].status = "pending"
  BY DEF DeliveryInvariant, RowsAreSound
<1>1. ASSUME NEW d \in Events, Insert(d)
      PROVE  RowStep(e)
  <2>1. PICK o \in OccurredOffsets :
          event' = [event EXCEPT ![d] =
                     [NoEvent EXCEPT !.status = "pending", !.occurredAt = clock + o,
                                     !.availableAt = clock + o]]
    BY <1>1 DEF Insert
  <2>2. clock + o \in Int
    BY OutboxAssumption
  <2>3. CASE d # e
    BY <2>1, <2>3 DEF RowStep
  <2>4. CASE d = e
    <3>1. event'[e] = [NoEvent EXCEPT !.status = "pending", !.occurredAt = clock + o,
                                      !.availableAt = clock + o]
      BY <2>1, <2>4
    <3>2. event'[e].status = "pending" /\ event'[e].token = 0
            /\ event'[e].occurredAt = event'[e].availableAt
      BY <3>1, Zenon DEF NoEvent
    <3>3. QED
      BY <1>1, <2>4, <3>2 DEF RowStep, Insert
  <2>5. QED
    BY <2>3, <2>4
<1>2. ASSUME NEW d \in Events, Redrive(d)
      PROVE  RowStep(e)
  <2>1. CASE d # e
    BY <1>2, <2>1 DEF Redrive, RowStep
  <2>2. CASE d = e
    <3>1. event'[e] = Released([event[e] EXCEPT !.status = "pending", !.availableAt = clock])
      BY <1>2, <2>2 DEF Redrive
    <3>2. event'[e].status = "pending" /\ event'[e].occurredAt = event[e].occurredAt
            /\ event'[e].availableAt = clock /\ event'[e].token = 0
      BY <3>1, Zenon DEF Released, EventRow
    <3>3. event[e].status = "dead" /\ clock >= event[e].occurredAt
      BY <1>2, <2>2 DEF Redrive
    <3>4. QED
      BY <3>2, <3>3 DEF RowStep, EventRow
  <2>3. QED
    BY <2>1, <2>2
<1>3. ASSUME NEW w \in Workers, Claim(w)
      PROVE  RowStep(e)
  <2>1. PICK batch \in SUBSET Due(Now(w)) :
          event' = [d \in Events |->
            IF d \in batch
              THEN [event[d] EXCEPT !.token = event[d].attempts + 1,
                                    !.attempts = event[d].attempts + 1,
                                    !.claimedUntil = Now(w) + LeaseDuration]
              ELSE event[d]]
    BY <1>3 DEF Claim
  <2>2. CASE e \notin batch
    BY <2>1, <2>2 DEF RowStep
  <2>3. CASE e \in batch
    <3>1. event'[e] = [event[e] EXCEPT !.token = event[e].attempts + 1,
                                       !.attempts = event[e].attempts + 1,
                                       !.claimedUntil = Now(w) + LeaseDuration]
      BY <2>1, <2>3
    <3>3. event'[e].status = event[e].status /\ event'[e].occurredAt = event[e].occurredAt
            /\ event'[e].availableAt = event[e].availableAt
      BY <3>1, Zenon DEF EventRow
    <3>4. event[e].status = "pending"
      BY <2>3 DEF Due
    <3>5. QED
      BY <1>a, <3>3, <3>4 DEF RowStep
  <2>4. QED
    BY <2>2, <2>3
<1>4. ASSUME NEW w \in Workers, NEW d \in Events, Acknowledge(w, d)
      PROVE  RowStep(e)
  <2>1. CASE d # e
    BY <1>4, <2>1 DEF Acknowledge, RowStep
  <2>2. CASE d = e
    <3>1. event'[e] = Released([event[e] EXCEPT !.status = "delivered", !.deliveredAt = Now(w)])
      BY <1>4, <2>2 DEF Acknowledge
    <3>2. event'[e].status = "delivered" /\ event'[e].occurredAt = event[e].occurredAt
            /\ event'[e].availableAt = event[e].availableAt /\ event'[e].token = 0
            /\ event'[e].deliveredAt = Now(w)
      BY <3>1, Zenon DEF Released, EventRow
    <3>3. event[e].status = "pending"
      BY <1>4, <2>2 DEF Acknowledge, OwnsClaim
    <3>4. e \in accepted /\ event[e].occurredAt <= Now(w)
      BY <1>4, <2>2 DEF Acknowledge, DeliveryInvariant, HandlersAreEntitled
    <3>5. QED
      BY <1>a, <3>2, <3>3, <3>4 DEF RowStep
  <2>3. QED
    BY <2>1, <2>2
<1>5. ASSUME NEW w \in Workers, NEW d \in Events, DeadLetter(w, d)
      PROVE  RowStep(e)
  <2>1. CASE d # e
    BY <1>5, <2>1 DEF DeadLetter, RowStep
  <2>2. CASE d = e
    <3>1. event'[e] = Released([event[e] EXCEPT !.status = "dead"])
      BY <1>5, <2>2 DEF DeadLetter
    <3>2. event'[e].status = "dead" /\ event'[e].occurredAt = event[e].occurredAt
            /\ event'[e].availableAt = event[e].availableAt /\ event'[e].token = 0
      BY <3>1, Zenon DEF Released, EventRow
    <3>3. event[e].status = "pending"
      BY <1>5, <2>2 DEF DeadLetter, OwnsClaim
    <3>4. QED
      BY <1>a, <3>2, <3>3 DEF RowStep
  <2>3. QED
    BY <2>1, <2>2
<1>6. ASSUME NEW w \in Workers, NEW d \in Events, ScheduleRetry(w, d)
      PROVE  RowStep(e)
  <2>1. CASE d # e
    BY <1>6, <2>1 DEF ScheduleRetry, RowStep
  <2>2. CASE d = e
    <3>1. event'[e] = Released([event[e] EXCEPT !.availableAt = work[w][e].retryAt])
      BY <1>6, <2>2 DEF ScheduleRetry
    <3>2. work[w][e].retryAt \in Int
      BY DEF DeliveryInvariant, TypeOK, Handler
    <3>3. event'[e].status = event[e].status /\ event'[e].occurredAt = event[e].occurredAt
            /\ event'[e].availableAt = work[w][e].retryAt /\ event'[e].token = 0
      BY <3>1, Zenon DEF Released, EventRow
    <3>4. event[e].status = "pending"
      BY <1>6, <2>2 DEF ScheduleRetry, OwnsClaim
    <3>5. event[e].occurredAt <= work[w][e].retryAt
      BY <1>6, <2>2 DEF ScheduleRetry, DeliveryInvariant, HandlersAreEntitled
    <3>6. QED
      BY <3>3, <3>4, <3>5 DEF RowStep
  <2>3. QED
    BY <2>1, <2>2
<1>7. CASE UNCHANGED event
  BY <1>7 DEF RowStep
<1>8. QED
  BY <1>1, <1>2, <1>3, <1>4, <1>5, <1>6, <1>7
  DEF Next, HandlerStep, vars, Send, ClaimLost, Answer, TransportFails, StatementFails,
      Crash, Tick

\* A stored event stays stored and keeps its time, what is accepted stays accepted, and
\* no clock goes back.
LEMMA NothingIsTakenBack ==
    ASSUME DeliveryInvariant, TypeOK', [Next]_vars
    PROVE  /\ \A e \in Events : event[e].status # "none" =>
                event'[e].status # "none" /\ event'[e].occurredAt = event[e].occurredAt
           /\ accepted \subseteq accepted'
           /\ \A w \in Workers : Now(w) \in Int /\ Now(w)' \in Int /\ Now(w) <= Now(w)'
<1>1. \A e \in Events : event[e].status # "none" =>
        event'[e].status # "none" /\ event'[e].occurredAt = event[e].occurredAt
  BY RowsStep DEF RowStep
<1>2. accepted \subseteq accepted'
  BY DEF Next, vars, Insert, Redrive, Claim, HandlerStep, Send, Acknowledge, DeadLetter,
         ScheduleRetry, ClaimLost, Answer, TransportFails, StatementFails, Crash, Tick
<1>3. clock \in Int /\ clock' \in Int /\ clock <= clock'
  <2>1. clock' = clock \/ clock' = clock + 1
    BY DEF Next, vars, Insert, Redrive, Claim, HandlerStep, Send, Acknowledge, DeadLetter,
           ScheduleRetry, ClaimLost, Answer, TransportFails, StatementFails, Crash, Tick
  <2>2. QED
    BY <2>1 DEF DeliveryInvariant, TypeOK
<1>4. QED
  BY <1>1, <1>2, <1>3, OutboxAssumption DEF Now

\* When an event is due, the endpoint has accepted every earlier event of its aggregate:
\* the earlier ones are stored, and not one of them is pending or dead.
LEMMA DueIsUnblocked ==
    ASSUME DeliveryInvariant, NEW at \in Int, NEW e \in Due(at)
    PROVE  /\ e \in Events /\ event[e].status = "pending"
           /\ Earlier(e) \subseteq accepted
           /\ event[e].occurredAt <= at
<1>1. e \in Events /\ event[e].status = "pending" /\ event[e].availableAt <= at /\ ~Blocked(e)
  BY DEF Due
<1>2. ASSUME NEW d \in Earlier(e)
      PROVE  d \in accepted
  <2>1. d \in Events /\ event[d].status # "none"
    BY <1>1 DEF Earlier, DeliveryInvariant, StoredInOrder
  <2>2. event[d].status = "delivered"
    BY <1>1, <2>1 DEF Blocked, DeliveryInvariant, TypeOK, EventRow
  <2>3. QED
    BY <2>1, <2>2 DEF DeliveryInvariant, DeliveredWasAccepted
<1>3. event[e].occurredAt <= event[e].availableAt
  BY <1>1 DEF DeliveryInvariant, RowsAreSound
<1>4. event[e].occurredAt \in Int /\ event[e].availableAt \in Int
  BY <1>1 DEF DeliveryInvariant, TypeOK, EventRow
<1>5. QED
  BY <1>1, <1>2, <1>3, <1>4

\* What HandlersAreEntitled says of one goroutine.
Entitled(w, e) ==
    work[w][e].phase # "idle" =>
        /\ event[e].status # "none"
        /\ Earlier(e) \subseteq accepted
        /\ event[e].occurredAt <= Now(w)
        /\ work[w][e].phase = "ack" => e \in accepted
        /\ work[w][e].phase = "retry" => event[e].occurredAt <= work[w][e].retryAt

\* A goroutine that does not move stays entitled.
LEMMA RestingHandler ==
    ASSUME DeliveryInvariant, TypeOK', [Next]_vars,
           NEW w \in Workers, NEW e \in Events, work'[w][e] = work[w][e]
    PROVE  Entitled(w, e)'
<1>1. Entitled(w, e)
  BY DEF DeliveryInvariant, HandlersAreEntitled, Entitled
<1>2. event[e].occurredAt \in Int
  BY DEF DeliveryInvariant, TypeOK, EventRow
<1>3. Earlier(e)' = Earlier(e)
  BY DEF Earlier
<1>4. SUFFICES ASSUME work[w][e].phase # "idle"
               PROVE  Entitled(w, e)'
  BY DEF Entitled
<1>5. event'[e].status # "none" /\ event'[e].occurredAt = event[e].occurredAt
        /\ accepted \subseteq accepted' /\ event[e].occurredAt <= Now(w)'
  BY <1>1, <1>2, <1>4, NothingIsTakenBack DEF Entitled
<1>6. QED
  BY <1>1, <1>3, <1>5 DEF Entitled

\* A goroutine that was at work and moves on, with the clocks standing, stays entitled
\* when it enters "ack" only for an accepted event and plans its retry from now on.
LEMMA MovingHandler ==
    ASSUME DeliveryInvariant, TypeOK', [Next]_vars, UNCHANGED clock,
           NEW w \in Workers, NEW e \in Events, work[w][e].phase # "idle",
           work'[w][e].phase = "ack" => e \in accepted',
           work'[w][e].phase = "retry" => work'[w][e].retryAt >= Now(w)
    PROVE  Entitled(w, e)'
<1>1. Entitled(w, e)
  BY DEF DeliveryInvariant, HandlersAreEntitled, Entitled
<1>2. event[e].occurredAt \in Int /\ work'[w][e].retryAt \in Int
  BY DEF DeliveryInvariant, TypeOK, EventRow, Handler
<1>3. Earlier(e)' = Earlier(e)
  BY DEF Earlier
<1>5. event'[e].status # "none" /\ event'[e].occurredAt = event[e].occurredAt
        /\ accepted \subseteq accepted' /\ event[e].occurredAt <= Now(w)'
  BY <1>1, <1>2, NothingIsTakenBack DEF Entitled
<1>6. Now(w) \in Int
  BY NothingIsTakenBack
<1>7. QED
  BY <1>1, <1>2, <1>3, <1>5, <1>6 DEF Entitled

\* Every step leaves every goroutine entitled.
LEMMA HandlersStep ==
    ASSUME DeliveryInvariant, TypeOK', [Next]_vars
    PROVE  HandlersAreEntitled'
<1> SUFFICES ASSUME NEW v \in Workers, NEW d \in Events
             PROVE  Entitled(v, d)'
  BY DEF HandlersAreEntitled, Entitled
<1> work \in [Workers -> [Events -> Handler]] /\ clock \in Int
  BY DEF DeliveryInvariant, TypeOK
<1>0. CASE work'[v][d] = work[v][d]
  BY <1>0, RestingHandler
<1>a. CASE work'[v][d] = Idle
  BY <1>a DEF Entitled, Idle
<1>1. ASSUME NEW w \in Workers, Claim(w), work'[v][d] # work[v][d], work'[v][d] # Idle
      PROVE  Entitled(v, d)'
  <2>1. PICK batch \in SUBSET Due(Now(w)) :
          work' = [work EXCEPT ![w] = [e \in Events |->
            IF e \in batch
              THEN [Idle EXCEPT !.phase = "claimed", !.token = event[e].attempts + 1]
              ELSE Idle]]
    BY <1>1 DEF Claim
  <2>2. v = w /\ d \in batch
    BY <1>1, <2>1
  <2>3. work'[v][d] = [Idle EXCEPT !.phase = "claimed", !.token = event[d].attempts + 1]
    BY <2>1, <2>2
  <2>4. work'[v][d].phase = "claimed"
    BY <2>3, Zenon DEF Idle
  <2>5. Now(v) \in Int
    BY OutboxAssumption DEF Now
  <2>6. event[d].status = "pending" /\ Earlier(d) \subseteq accepted
          /\ event[d].occurredAt <= Now(v)
    BY <2>2, <2>5, DueIsUnblocked
  <2>7. event'[d].status # "none" /\ event'[d].occurredAt = event[d].occurredAt
    BY <2>6, NothingIsTakenBack
  <2>8. Earlier(d)' = Earlier(d) /\ Now(v)' = Now(v) /\ accepted' = accepted
    BY <1>1 DEF Earlier, Now, Claim
  <2>9. QED
    BY <2>4, <2>6, <2>7, <2>8 DEF Entitled
<1>2. ASSUME NEW w \in Workers, NEW e \in Events, Send(w, e), work'[v][d] # work[v][d]
      PROVE  Entitled(v, d)'
  <2>1. [work[w][e] EXCEPT !.phase = "waiting"] \in Handler
    BY DEF Handler
  <2>2. v = w /\ d = e
    BY <1>2, <2>1, GoesType DEF Send
  <2>3. work'[v][d].phase = "waiting" /\ work[v][d].phase # "idle"
    BY <1>2, <2>1, <2>2, GoesType DEF Send, Handler
  <2>4. QED
    BY <1>2, <2>3, MovingHandler DEF Send
<1>3. ASSUME NEW q \in requests, NEW answer \in Answers, Answer(q, answer),
             work'[v][d] # work[v][d]
      PROVE  Entitled(v, d)'
  <2>1. q.worker \in Workers /\ q.event \in Events /\ work[q.worker][q.event] \in Handler
    BY DEF DeliveryInvariant, TypeOK, Request
  <2> DEFINE h == Heard(q.worker, work[q.worker][q.event], answer)
  <2>2. h \in Handler /\ (h.phase = "ack" => answer = "2xx")
          /\ (h.phase = "retry" => h.retryAt >= Now(q.worker))
    BY <2>1, HeardType
  <2>3. work[q.worker][q.event].phase = "waiting" /\ Goes(q.worker, q.event, h)
    BY <1>3 DEF Answer
  <2> HIDE DEF h
  <2>4. v = q.worker /\ d = q.event /\ work'[v][d] = h
    BY <1>3, <2>1, <2>2, <2>3, GoesType
  <2>5. answer = "2xx" => d \in accepted'
    BY <1>3, <2>4 DEF Answer
  <2>6. QED
    BY <1>3, <2>2, <2>3, <2>4, <2>5, MovingHandler DEF Answer
<1>4. ASSUME NEW w \in Workers, NEW e \in Events, TransportFails(w, e),
             work'[v][d] # work[v][d]
      PROVE  Entitled(v, d)'
  <2>1. work[w][e] \in Handler
    OBVIOUS
  <2>2. WillRetry(w, work[w][e]) \in Handler
          /\ WillRetry(w, work[w][e]).phase = "retry"
          /\ WillRetry(w, work[w][e]).retryAt >= Now(w)
    BY <2>1, WillRetryType
  <2>3. v = w /\ d = e /\ work'[v][d] = WillRetry(w, work[w][e])
    BY <1>4, <2>2, GoesType DEF TransportFails
  <2>4. QED
    BY <1>4, <2>2, <2>3, MovingHandler DEF TransportFails
<1>5. ASSUME NEW w \in Workers, NEW e \in Events, Stops(w, e)
      PROVE  work'[v][d] = work[v][d] \/ work'[v][d] = Idle
  BY <1>5, GoesType, ConstantRecords DEF Stops
<1>6. ASSUME NEW w \in Workers, Crash(w)
      PROVE  work'[v][d] = work[v][d] \/ work'[v][d] = Idle
  BY <1>6 DEF Crash
<1>7. CASE UNCHANGED work
  BY <1>7, <1>0
<1>8. QED
  BY <1>0, <1>a, <1>1, <1>2, <1>3, <1>4, <1>5, <1>6, <1>7
  DEF Next, HandlerStep, vars, Insert, Redrive, Acknowledge, DeadLetter, ScheduleRetry,
      ClaimLost, StatementFails, Tick

\* Every step leaves every request on its way entitled.
LEMMA RequestsStep ==
    ASSUME DeliveryInvariant, TypeOK', [Next]_vars
    PROVE  RequestsAreEntitled'
<1> SUFFICES ASSUME NEW q \in requests'
             PROVE  event'[q.event].status # "none" /\ Earlier(q.event) \subseteq accepted'
  BY DEF RequestsAreEntitled, Earlier
<1>1. CASE q \in requests
  <2>1. q.event \in Events
    BY <1>1 DEF DeliveryInvariant, TypeOK, Request
  <2>2. event[q.event].status # "none" /\ Earlier(q.event) \subseteq accepted
    BY <1>1 DEF DeliveryInvariant, RequestsAreEntitled
  <2>3. QED
    BY <2>1, <2>2, NothingIsTakenBack
<1>2. ASSUME NEW w \in Workers, NEW e \in Events, Send(w, e), q \notin requests
      PROVE  event'[q.event].status # "none" /\ Earlier(q.event) \subseteq accepted'
  <2>1. q.event = e
    BY <1>2 DEF Send
  <2>2. event[e].status # "none" /\ Earlier(e) \subseteq accepted
    BY <1>2 DEF Send, DeliveryInvariant, HandlersAreEntitled
  <2>3. QED
    BY <1>2, <2>1, <2>2 DEF Send
<1>3. CASE requests' \subseteq requests
  BY <1>1, <1>3
<1>4. QED
  BY <1>1, <1>2, <1>3
  DEF Next, vars, Insert, Redrive, Claim, HandlerStep, Acknowledge, DeadLetter,
      ScheduleRetry, ClaimLost, Answer, TransportFails, StatementFails, Crash, Tick

\* Every step keeps the invariant.
LEMMA InvariantStep ==
    ASSUME DeliveryInvariant, [Next]_vars
    PROVE  DeliveryInvariant'
<1>1. TypeOK'
  BY TypeStep DEF DeliveryInvariant
<1>2. StoredInOrder'
  <2> SUFFICES ASSUME NEW e \in Events, event'[e].status # "none", NEW d \in Earlier(e)
               PROVE  event'[d].status # "none"
    BY DEF StoredInOrder, Earlier
  <2>1. event[d].status # "none"
    BY <1>1, RowsStep DEF RowStep, DeliveryInvariant, StoredInOrder
  <2>2. d \in Events
    BY DEF Earlier
  <2>3. QED
    BY <1>1, <2>1, <2>2, NothingIsTakenBack
<1>3. RowsAreSound'
  <2> SUFFICES ASSUME NEW e \in Events
               PROVE  /\ event'[e].status # "none" =>
                           event'[e].occurredAt <= event'[e].availableAt
                      /\ event'[e].token # 0 => event'[e].status = "pending"
    BY DEF RowsAreSound
  <2>1. RowStep(e)
    BY <1>1, RowsStep
  <2>2. event'[e].availableAt \in Int
    BY <1>1 DEF TypeOK, EventRow
  <2>3. QED
    BY <2>1, <2>2 DEF RowStep, DeliveryInvariant, RowsAreSound
<1>4. DeliveredWasAccepted'
  <2> SUFFICES ASSUME NEW e \in Events, event'[e].status = "delivered"
               PROVE  e \in accepted' /\ event'[e].deliveredAt >= event'[e].occurredAt
    BY DEF DeliveredWasAccepted
  <2>1. RowStep(e) /\ accepted \subseteq accepted'
    BY <1>1, RowsStep, NothingIsTakenBack
  <2>2. QED
    BY <2>1 DEF RowStep, DeliveryInvariant, DeliveredWasAccepted
<1>5. QED
  BY <1>1, <1>2, <1>3, <1>4, HandlersStep, RequestsStep DEF DeliveryInvariant

\* The invariant holds in every state.
THEOREM InvariantHolds == Spec => []DeliveryInvariant
<1>1. Init => DeliveryInvariant
  <2> SUFFICES ASSUME Init
               PROVE  DeliveryInvariant
    OBVIOUS
  <2>1. TypeOK
    BY ConstantRecords DEF Init, TypeOK
  <2>2. \A e \in Events : event[e].status = "none" /\ event[e].token = 0
    BY DEF Init, NoEvent
  <2>3. \A w \in Workers, e \in Events : work[w][e].phase = "idle"
    BY DEF Init, Idle
  <2>4. requests = {}
    BY DEF Init
  <2>5. QED
    BY <2>1, <2>2, <2>3, <2>4
    DEF DeliveryInvariant, StoredInOrder, RowsAreSound, DeliveredWasAccepted,
        HandlersAreEntitled, RequestsAreEntitled
<1>2. QED
  BY <1>1, InvariantStep, PTL DEF Spec

\* MarkOutboxDelivered marks only events the endpoint has accepted, at a time the schema
\* accepts, whatever leases expire, answers are lost or clocks disagree.
THEOREM DeliveredAlwaysAccepted == Spec => []DeliveredWasAccepted
<1>1. DeliveryInvariant => DeliveredWasAccepted
  BY DEF DeliveryInvariant
<1>2. QED
  BY <1>1, InvariantHolds, PTL

-----------------------------------------------------------------------------
(***************************************************************************)
(* The outbox implements OrderedDelivery.                                  *)
(***************************************************************************)
Stored == {e \in Events : event[e].status # "none"}

\* A step stores one event, or makes the endpoint accept one, or does neither.
LEMMA RefinementStep ==
    ASSUME DeliveryInvariant, DeliveryInvariant', [Next]_vars
    PROVE  [Ordered!OrderedNext]_<<Stored, accepted>>
<1>1. Stored \subseteq Stored'
  BY NothingIsTakenBack DEF Stored, DeliveryInvariant
<1>2. ASSUME NEW e \in Events, Insert(e)
      PROVE  Ordered!Store(e)
  <2>1. event[e].status = "none" /\ \A d \in Earlier(e) : event[d].status # "none"
    BY <1>2 DEF Insert
  <2>2. \A d \in Events \ {e} : event'[d] = event[d]
    BY <1>2 DEF Insert, DeliveryInvariant, TypeOK
  <2>3. PICK o \in OccurredOffsets :
          event' = [event EXCEPT ![e] =
                     [NoEvent EXCEPT !.status = "pending", !.occurredAt = clock + o,
                                     !.availableAt = clock + o]]
    BY <1>2 DEF Insert
  <2>4. event'[e] = [NoEvent EXCEPT !.status = "pending", !.occurredAt = clock + o,
                                    !.availableAt = clock + o]
    BY <2>3 DEF DeliveryInvariant, TypeOK
  <2>5. event'[e].status = "pending"
    BY <2>4, Zenon DEF NoEvent
  <2>6. Stored' = Stored \cup {e}
    BY <2>2, <2>5 DEF Stored
  <2>7. Ordered!Earlier(e) \subseteq Stored
    BY <2>1 DEF Ordered!Earlier, Earlier, Stored
  <2>8. QED
    BY <1>2, <2>6, <2>7 DEF Ordered!Store, Stored, Insert
<1>3. ASSUME NEW q \in requests, NEW answer \in Answers, Answer(q, answer)
      PROVE  UNCHANGED <<Stored, accepted>> \/ Ordered!FirstAccept(q.event)
  <2>1. Stored' = Stored
    BY <1>3 DEF Answer, Stored
  <2>2. q.event \in Stored /\ Earlier(q.event) \subseteq accepted
    BY DEF DeliveryInvariant, RequestsAreEntitled, TypeOK, Request, Stored
  <2>3. accepted' = accepted \/ accepted' = accepted \cup {q.event}
    BY <1>3 DEF Answer
  <2>4. Ordered!Earlier(q.event) = Earlier(q.event)
    BY DEF Ordered!Earlier, Earlier
  <2>5. QED
    BY <2>1, <2>2, <2>3, <2>4 DEF Ordered!FirstAccept, Stored
<1>4. ASSUME \A e \in Events : event[e].status = "none" => event'[e] = event[e],
             UNCHANGED accepted
      PROVE  UNCHANGED <<Stored, accepted>>
  BY <1>1, <1>4 DEF Stored
<1>5. ASSUME NEW w \in Workers, Claim(w)
      PROVE  \A e \in Events : event[e].status = "none" => event'[e] = event[e]
  BY <1>5 DEF Claim, Due
<1>6. ASSUME NEW e \in Events,
             \/ Redrive(e)
             \/ \E w \in Workers : Acknowledge(w, e) \/ DeadLetter(w, e) \/ ScheduleRetry(w, e)
      PROVE  \A d \in Events : event[d].status = "none" => event'[d] = event[d]
  BY <1>6 DEF Redrive, Acknowledge, DeadLetter, ScheduleRetry, OwnsClaim, DeliveryInvariant,
              TypeOK
<1>7. ASSUME UNCHANGED <<event, accepted>>
      PROVE  UNCHANGED <<Stored, accepted>>
  BY <1>7 DEF Stored
<1>8. \A q \in requests : q.event \in Events
  BY DEF DeliveryInvariant, TypeOK, Request
<1>9. CASE \E e \in Events : Insert(e)
  BY <1>2, <1>9 DEF Ordered!OrderedNext
<1>10. CASE \E q \in requests, answer \in Answers : Answer(q, answer)
  BY <1>3, <1>8, <1>10 DEF Ordered!OrderedNext
<1>11. CASE UNCHANGED <<Stored, accepted>>
  BY <1>11
<1>12. \/ \E e \in Events : Insert(e)
       \/ \E q \in requests, answer \in Answers : Answer(q, answer)
       \/ UNCHANGED <<Stored, accepted>>
  <2>1. ASSUME NEW w \in Workers, Claim(w)
        PROVE  UNCHANGED <<Stored, accepted>>
    BY <1>4, <1>5, <2>1 DEF Claim
  <2>2. ASSUME NEW e \in Events,
               \/ Redrive(e)
               \/ \E w \in Workers : Acknowledge(w, e) \/ DeadLetter(w, e) \/ ScheduleRetry(w, e)
        PROVE  UNCHANGED <<Stored, accepted>>
    <3>1. UNCHANGED accepted
      BY <2>2 DEF Redrive, Acknowledge, DeadLetter, ScheduleRetry
    <3>2. QED
      BY <1>4, <1>6, <2>2, <3>1
  <2>3. ASSUME NEW w \in Workers, NEW e \in Events,
               \/ Send(w, e) \/ ClaimLost(w, e) \/ TransportFails(w, e) \/ StatementFails(w, e)
        PROVE  UNCHANGED <<Stored, accepted>>
    BY <1>7, <2>3 DEF Send, ClaimLost, TransportFails, StatementFails
  <2>4. ASSUME (\E w \in Workers : Crash(w)) \/ Tick \/ UNCHANGED vars
        PROVE  UNCHANGED <<Stored, accepted>>
    BY <1>7, <2>4 DEF Crash, Tick, vars
  <2>5. QED
    BY <2>1, <2>2, <2>3, <2>4 DEF Next, HandlerStep
<1>13. QED
  BY <1>9, <1>10, <1>11, <1>12

\* Claims, leases, retries, crashes, dead letters and their re-drive implement ordered
\* delivery: the endpoint first accepts the events of an aggregate in the order of their
\* versions.
THEOREM DeliveryAlwaysOrdered == Spec => DeliveryIsOrdered
<1>1. Init => Ordered!OrderedInit
  BY DEF Init, Ordered!OrderedInit, NoEvent
<1>2. DeliveryInvariant /\ DeliveryInvariant' /\ [Next]_vars =>
        [Ordered!OrderedNext]_<<{e \in Events : event[e].status # "none"}, accepted>>
  BY RefinementStep DEF Stored
<1>3. QED
  BY <1>1, <1>2, InvariantHolds, PTL DEF Spec, DeliveryIsOrdered, Ordered!OrderedSpec

-----------------------------------------------------------------------------
(***************************************************************************)
(* What no step may do.                                                    *)
(***************************************************************************)

\* No runner picks up a delivered event or a dead letter again; only the operator changes
\* a dead letter, and leaves it unclaimed.
THEOREM SettledEventsAlwaysRest == Spec => SettledEventsRest
<1>1. ASSUME DeliveryInvariant, DeliveryInvariant', [Next]_vars, NEW e \in Events
      PROVE  /\ event[e].status = "delivered" => event'[e] = event[e]
             /\ event[e].status = "dead" /\ event'[e] # event[e] =>
                  event'[e].status = "pending" /\ event'[e].token = 0
  <2>1. RowStep(e)
    BY <1>1, RowsStep DEF DeliveryInvariant
  <2>2. QED
    BY <2>1 DEF RowStep
<1>2. DeliveryInvariant /\ DeliveryInvariant' /\ [Next]_vars =>
        [\A e \in Events :
           /\ event[e].status = "delivered" => event'[e] = event[e]
           /\ event[e].status = "dead" /\ event'[e] # event[e] =>
                event'[e].status = "pending" /\ event'[e].token = 0]_vars
  BY <1>1
<1>3. QED
  BY <1>2, InvariantHolds, PTL DEF Spec, SettledEventsRest

\* What ClaimsAreFenced says of one row in one step.
Fenced(e) ==
    event[e].token # 0 /\ event'[e].token # event[e].token =>
      \/ \E w \in Workers :
           /\ work[w][e].phase \in {"ack", "dead", "retry"}
           /\ work[w][e].token = event[e].token
           /\ work'[w][e] = Idle
      \/ \E w \in Workers :
           /\ work[w][e].phase = "idle"
           /\ work'[w][e].token = event'[e].token
           /\ event[e].claimedUntil <= Now(w)

\* Every step respects the claim of every row.
LEMMA ClaimsStep ==
    ASSUME DeliveryInvariant, [Next]_vars, NEW e \in Events
    PROVE  Fenced(e)
<1> /\ event \in [Events -> EventRow]
    /\ work \in [Workers -> [Events -> Handler]]
  BY DEF DeliveryInvariant, TypeOK
<1>0. CASE event'[e] = event[e]
  BY <1>0 DEF Fenced
<1>a. event[e].token # 0 => event[e].status = "pending"
  BY DEF DeliveryInvariant, RowsAreSound
<1>1. ASSUME NEW d \in Events, Insert(d) \/ Redrive(d)
      PROVE  Fenced(e)
  <2>1. CASE d # e
    BY <1>0, <1>1, <2>1 DEF Insert, Redrive
  <2>2. CASE d = e
    <3>1. event[e].status \in {"none", "dead"}
      BY <1>1, <2>2 DEF Insert, Redrive
    <3>2. QED
      BY <1>a, <3>1 DEF Fenced
  <2>3. QED
    BY <2>1, <2>2
<1>2. ASSUME NEW w \in Workers, Claim(w)
      PROVE  Fenced(e)
  <2>1. PICK batch \in SUBSET Due(Now(w)) :
          /\ event' = [d \in Events |->
               IF d \in batch
                 THEN [event[d] EXCEPT !.token = event[d].attempts + 1,
                                       !.attempts = event[d].attempts + 1,
                                       !.claimedUntil = Now(w) + LeaseDuration]
                 ELSE event[d]]
          /\ work' = [work EXCEPT ![w] = [d \in Events |->
               IF d \in batch
                 THEN [Idle EXCEPT !.phase = "claimed", !.token = event[d].attempts + 1]
                 ELSE Idle]]
    BY <1>2 DEF Claim
  <2>2. CASE e \notin batch
    BY <1>0, <2>1, <2>2
  <2>3. CASE e \in batch
    <3>1. /\ event'[e] = [event[e] EXCEPT !.token = event[e].attempts + 1,
                                          !.attempts = event[e].attempts + 1,
                                          !.claimedUntil = Now(w) + LeaseDuration]
          /\ work'[w][e] = [Idle EXCEPT !.phase = "claimed", !.token = event[e].attempts + 1]
      BY <2>1, <2>3
    <3>2. event'[e].token = event[e].attempts + 1
      <4>1. event[e] \in EventRow
        OBVIOUS
      <4>2. [event[e] EXCEPT !.token = event[e].attempts + 1,
                             !.attempts = event[e].attempts + 1,
                             !.claimedUntil = Now(w) + LeaseDuration].token
              = event[e].attempts + 1
        BY <4>1, Zenon DEF EventRow
      <4>3. QED
        BY <3>1, <4>2, Zenon
    <3>3. work'[w][e].token = event[e].attempts + 1
      BY <3>1, Zenon DEF Idle
    <3>4. event[e].token = 0 \/ event[e].claimedUntil <= Now(w)
      BY <2>3 DEF Due
    <3>5. work[w][e].phase = "idle"
      BY <1>2 DEF Claim
    <3>6. QED
      BY <3>2, <3>3, <3>4, <3>5, Zenon DEF Fenced
  <2>4. QED
    BY <2>2, <2>3
<1>3. ASSUME NEW w \in Workers, NEW d \in Events,
             Acknowledge(w, d) \/ DeadLetter(w, d) \/ ScheduleRetry(w, d)
      PROVE  Fenced(e)
  <2>1. CASE d # e
    BY <1>0, <1>3, <2>1 DEF Acknowledge, DeadLetter, ScheduleRetry
  <2>2. CASE d = e
    <3>1. work[w][e].phase \in {"ack", "dead", "retry"} /\ work[w][e].token = event[e].token
      BY <1>3, <2>2 DEF Acknowledge, DeadLetter, ScheduleRetry, OwnsClaim
    <3>2. Stops(w, e)
      BY <1>3, <2>2 DEF Acknowledge, DeadLetter, ScheduleRetry
    <3>3. work'[w][e] = Idle
      BY <3>2, GoesType, ConstantRecords DEF Stops
    <3>4. QED
      BY <3>1, <3>3 DEF Fenced
  <2>3. QED
    BY <2>1, <2>2
<1>4. CASE UNCHANGED event
  BY <1>0, <1>4
<1>5. QED
  BY <1>1, <1>2, <1>3, <1>4
  DEF Next, HandlerStep, vars, Send, ClaimLost, Answer, TransportFails, StatementFails,
      Crash, Tick

\* An answer that comes after another runner has taken the claim over releases,
\* reschedules and buries nothing: the token in every WHERE clause fences it off.
THEOREM ClaimsAlwaysFenced == Spec => ClaimsAreFenced
<1>1. DeliveryInvariant /\ [Next]_vars =>
        [\A e \in Events :
           event[e].token # 0 /\ event'[e].token # event[e].token =>
             \/ \E w \in Workers :
                  /\ work[w][e].phase \in {"ack", "dead", "retry"}
                  /\ work[w][e].token = event[e].token
                  /\ work'[w][e] = Idle
             \/ \E w \in Workers :
                  /\ work[w][e].phase = "idle"
                  /\ work'[w][e].token = event'[e].token
                  /\ event[e].claimedUntil <= Now(w)]_vars
  BY ClaimsStep, Zenon DEF Fenced
<1>2. QED
  BY <1>1, InvariantHolds, PTL DEF Spec, ClaimsAreFenced
=============================================================================
