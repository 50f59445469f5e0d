----------------------- MODULE TicketAssignmentProofs -----------------------
(***************************************************************************)
(* Proofs about TicketAssignment, for every number of tickets, rooms and   *)
(* workers, every policy, lease and clock skew, and without the bounds TLC *)
(* needs (MaxTime, LastRequest, LastFault and MaxFaults are arbitrary).    *)
(***************************************************************************)
EXTENDS TicketAssignment, FiniteSetTheorems, TLAPS

\* The records the module names are of their types.
LEMMA ConstantRecords ==
    /\ NoTicket \in TicketRow
    /\ RoomUnborn \in RoomRow
    /\ Unseated \in MembershipRow
    /\ Idle \in Handler
  BY DEF NoTicket, TicketRow, TicketStatus, RoomUnborn, RoomRow, Unseated,
         MembershipRow, Idle, Handler

\* A terminal transition keeps a row a row.
LEMMA EndedType ==
    ASSUME NEW row \in TicketRow, NEW s \in TicketStatus, NEW at \in Int
    PROVE  Ended(row, s, at) \in TicketRow
<1>1. row.version + 1 \in Nat /\ 0 \in Nat /\ 0 \in Int
  BY DEF TicketRow
<1>2. QED
  BY <1>1, Zenon DEF Ended, TicketRow

\* An assignment keeps the row of its room a row.
LEMMA JoinedType ==
    ASSUME NEW row \in RoomRow, NEW filled, NEW at \in Int
    PROVE  Joined(row, filled, at) \in RoomRow
<1>1. row.version + 1 \in Nat /\ at + ResultTimeout \in Int
  BY AssignmentAssumption DEF RoomRow
<1>2. QED
  BY <1>1, Zenon DEF Joined, RoomRow

\* A claimed row is a row.
LEMMA ClaimedType ==
    ASSUME NEW row \in TicketRow, NEW n \in Nat, NEW until \in Int
    PROVE  [row EXCEPT !.token = n, !.attempts = n, !.claimedUntil = until] \in TicketRow
  BY Zenon DEF TicketRow

\* A handler that will schedule a retry is a handler.
LEMMA RetryHandlerType ==
    ASSUME NEW token \in Nat, NEW at \in Int, NEW b \in Int, NEW phase \in {"retry", "failed"}
    PROVE  [Idle EXCEPT !.phase = phase, !.token = token, !.at = at,
                        !.retryAt = b] \in Handler
  BY ConstantRecords, Zenon DEF Handler

\* The handler's error path leads to a handler.
LEMMA FailedType ==
    ASSUME NEW w \in Workers, NEW h \in Handler, clock \in Int
    PROVE  Failed(w, h) \in Handler
<1>1. Now(w) + FailureBackoff \in Int
  BY AssignmentAssumption DEF Now
<1>2. QED
  BY <1>1, RetryHandlerType DEF Failed, Handler

\* Replacing one handler keeps the table of handlers a table of handlers.
LEMMA GoesType ==
    ASSUME work \in [Workers -> [Tickets -> Handler]],
           NEW w \in Workers, NEW t \in Tickets, NEW h \in Handler,
           Goes(w, t, h)
    PROVE  work' \in [Workers -> [Tickets -> Handler]]
  BY DEF Goes

\* Whatever AfterCommit chooses, the handlers and the fault counter are typed.
LEMMA AfterCommitType ==
    ASSUME TypeOK, NEW w \in Workers, NEW t \in Tickets, AfterCommit(w, t)
    PROVE  /\ work' \in [Workers -> [Tickets -> Handler]]
           /\ faults' \in Nat
<1>1. work[w][t] \in Handler /\ clock \in Int
  BY DEF TypeOK
<1>2. CASE Stops(w, t) /\ UNCHANGED faults
  BY <1>2, GoesType, ConstantRecords DEF Stops, TypeOK
<1>3. CASE CanFault /\ Goes(w, t, Failed(w, work[w][t])) /\ faults' = faults + 1
  BY <1>1, <1>3, GoesType, FailedType DEF TypeOK
<1>4. QED
  BY <1>2, <1>3 DEF AfterCommit

-----------------------------------------------------------------------------
(***************************************************************************)
(* Type correctness.                                                       *)
(***************************************************************************)

\* Every step of the ticket API, the worker, a fault or the clock keeps every
\* table well typed.
LEMMA TypeStep ==
    ASSUME TypeOK, [Next]_vars
    PROVE  TypeOK'
<1> USE AssignmentAssumption, PolicyAssumption
<1> clock \in Int
  BY DEF TypeOK
<1>1. ASSUME NEW t \in Tickets, Accept(t)
      PROVE  TypeOK'
  <2>1. PICK d \in RequestOffsets :
          ticket' = [ticket EXCEPT ![t] =
                      [NoTicket EXCEPT !.status = "queued", !.version = 1,
                                       !.requestedAt = clock + d,
                                       !.nextAttemptAt = clock + d]]
    BY <1>1 DEF Accept
  <2>2. clock + d \in Int /\ 1 \in Nat /\ "queued" \in TicketStatus
    BY DEF TicketStatus
  <2>5. [NoTicket EXCEPT !.status = "queued", !.version = 1, !.requestedAt = clock + d,
                         !.nextAttemptAt = clock + d] \in TicketRow
    BY <2>2, ConstantRecords, Zenon DEF TicketRow
  <2>6. ticket' \in [Tickets -> TicketRow]
    BY <2>1, <2>5 DEF TypeOK
  <2>3. outbox' \subseteq Event
    BY <1>1 DEF Accept, TypeOK, Event
  <2>4. QED
    BY <1>1, <2>6, <2>3 DEF Accept, TypeOK
<1>2. ASSUME NEW t \in Tickets, NEW c \in CancelCommands, Cancel(t, c)
      PROVE  TypeOK'
  <2>1. Ended(ticket[t], "cancelled", clock) \in TicketRow
    BY EndedType DEF TypeOK, TicketStatus
  <2>2. ticket' \in [Tickets -> TicketRow]
    BY <1>2, <2>1 DEF Cancel, TypeOK
  <2>3. outbox' \subseteq Event
    BY <1>2 DEF Cancel, TypeOK, Event, TicketRow
  <2>4. QED
    BY <1>2, <2>2, <2>3 DEF Cancel, TypeOK
<1>3. ASSUME NEW t \in Tickets, NEW c \in CancelCommands, CancelAgain(t, c)
      PROVE  TypeOK'
  BY <1>3 DEF CancelAgain, TypeOK
<1>4. ASSUME NEW r \in Rooms, OpenRoom(r)
      PROVE  TypeOK'
  <2>1. clock \in Int /\ clock + RoomWindow \in Int /\ 1 \in Nat
    OBVIOUS
  <2>2. [RoomUnborn EXCEPT !.status = "forming", !.version = 1, !.createdAt = clock,
                           !.fillDeadline = clock + RoomWindow] \in RoomRow
    BY <2>1, ConstantRecords, Zenon DEF RoomRow
  <2>3. room' \in [Rooms -> RoomRow]
    BY <1>4, <2>2 DEF OpenRoom, TypeOK
  <2>4. QED
    BY <1>4, <2>3 DEF OpenRoom, TypeOK
<1>5. ASSUME NEW w \in Workers, Claim(w)
      PROVE  TypeOK'
  <2>1. PICK batch \in SUBSET Due(Now(w)) :
          /\ ticket' = [t \in Tickets |->
               IF t \in batch
                 THEN [ticket[t] EXCEPT !.token = ticket[t].attempts + 1,
                                        !.attempts = ticket[t].attempts + 1,
                                        !.claimedUntil = Now(w) + LeaseDuration]
                 ELSE ticket[t]]
          /\ work' = [work EXCEPT ![w] = [t \in Tickets |->
               IF t \in batch
                 THEN [Idle EXCEPT !.phase = "claimed", !.at = Now(w),
                                   !.token = ticket[t].attempts + 1]
                 ELSE Idle]]
    BY <1>5 DEF Claim
  <2>2. Now(w) \in Int /\ Now(w) + LeaseDuration \in Int
    BY DEF Now
  <2>7. ASSUME NEW t \in Tickets
        PROVE  /\ ticket[t] \in TicketRow
               /\ ticket[t].attempts + 1 \in Nat
    BY DEF TypeOK, TicketRow
  <2>8. ASSUME NEW t \in Tickets
        PROVE  [ticket[t] EXCEPT !.token = ticket[t].attempts + 1,
                                 !.attempts = ticket[t].attempts + 1,
                                 !.claimedUntil = Now(w) + LeaseDuration] \in TicketRow
    BY <2>2, <2>7, ClaimedType
  <2>3. ticket' \in [Tickets -> TicketRow]
    BY <2>1, <2>7, <2>8
  <2>4. ASSUME NEW t \in Tickets
        PROVE  [Idle EXCEPT !.phase = "claimed", !.at = Now(w),
                            !.token = ticket[t].attempts + 1] \in Handler
    BY <2>2, <2>7, ConstantRecords, Zenon DEF Handler
  <2>5. work' \in [Workers -> [Tickets -> Handler]]
    BY <2>1, <2>4, ConstantRecords DEF TypeOK
  <2>6. QED
    BY <1>5, <2>3, <2>5 DEF Claim, TypeOK
<1>6. ASSUME NEW w \in Workers, NEW t \in Tickets, LoadRooms(w, t)
      PROVE  TypeOK'
  <2> DEFINE Views(L) == {[id |-> r, version |-> room[r].version,
                           createdAt |-> room[r].createdAt,
                           deadline |-> room[r].fillDeadline,
                           members |-> {}] : r \in L}
  <2>1. PICK L \in OldestRooms(CompatibleRooms(work[w][t].at), RoomLimit) :
          Goes(w, t, [work[w][t] EXCEPT !.phase = "loaded", !.views = Views(L)])
    BY <1>6 DEF LoadRooms
  <2>2. L \subseteq Rooms
    BY DEF OldestRooms, CompatibleRooms
  <2>3. Views(L) \subseteq RoomView
    BY <2>2 DEF TypeOK, RoomRow, RoomView
  <2>4. work[w][t] \in Handler
    BY DEF TypeOK
  <2>5. [work[w][t] EXCEPT !.phase = "loaded", !.views = Views(L)] \in Handler
    <3> HIDE DEF Views
    <3> QED BY <2>3, <2>4 DEF Handler
  <2>6. work' \in [Workers -> [Tickets -> Handler]]
    <3> HIDE DEF Views
    <3> QED BY <2>1, <2>5, GoesType DEF TypeOK
  <2>7. QED
    BY <1>6, <2>6 DEF LoadRooms, TypeOK
<1>7. ASSUME NEW w \in Workers, NEW t \in Tickets, Evaluate(w, t)
      PROVE  TypeOK'
  <2> DEFINE h     == work[w][t]
             views == WithMembers(h.views)
             next  == [h EXCEPT !.views = {}]
  <2>1. h \in Handler /\ next \in Handler
    <3>1. h \in Handler
      BY DEF TypeOK
    <3>2. next \in Handler
      <4> HIDE DEF h
      <4> QED BY <3>1, Zenon DEF Handler
    <3>3. QED BY <3>1, <3>2
  <2>2. views \subseteq RoomView
    BY <2>1 DEF WithMembers, Handler, RoomView, MembersOf
  <2>3. ticket[t].requestedAt \in Int /\ h.at \in Int
    BY <2>1 DEF TypeOK, TicketRow, Handler
  <2>4. \E g \in Handler : Goes(w, t, g)
    <3>1. CASE Goes(w, t, Failed(w, h))
      BY <2>1, <3>1, FailedType
    <3>2. ASSUME NEW v \in Matches(views, t, ticket[t].requestedAt, h.at),
                 Goes(w, t, [next EXCEPT !.phase = "assign", !.room = v.id,
                                         !.version = v.version, !.scored = v.members])
          PROVE  \E g \in Handler : Goes(w, t, g)
      <4>1. v \in RoomView
        BY <2>2 DEF Matches, Selectable
      <4>2. [next EXCEPT !.phase = "assign", !.room = v.id,
                         !.version = v.version, !.scored = v.members] \in Handler
        <5> HIDE DEF next
        <5> QED BY <2>1, <4>1 DEF Handler, RoomView
      <4>3. QED
        BY <3>2, <4>2
    <3>3. CASE Goes(w, t, [next EXCEPT !.phase = "expire"])
      <4>1. [next EXCEPT !.phase = "expire"] \in Handler
        <5> HIDE DEF next
        <5> QED BY <2>1 DEF Handler
      <4>2. QED
        BY <3>3, <4>1
    <3>4. ASSUME NEW b \in NextRetryBoundary(views, ticket[t].requestedAt, h.at),
                 Goes(w, t, [next EXCEPT !.phase = "retry", !.retryAt = b])
          PROVE  \E g \in Handler : Goes(w, t, g)
      <4>1. \A v \in views : v.createdAt \in Int /\ v.deadline \in Int
        BY <2>2 DEF RoomView
      <4>2. \A v \in views : RoomBoundary(v, h.at) \in Int
        <5> HIDE DEF views, h
        <5> QED BY <2>3, <4>1 DEF RoomBoundary, NextPeriodicBoundary
      <4>3. b \in Int
        <5> HIDE DEF views, h
        <5> QED BY <2>3, <4>2
                DEF NextRetryBoundary, Boundaries, NextPeriodicBoundary, FillDeadline
      <4>4. [next EXCEPT !.phase = "retry", !.retryAt = b] \in Handler
        <5> HIDE DEF next
        <5> QED BY <2>1, <4>3 DEF Handler
      <4>5. QED
        BY <3>4, <4>4
    <3>5. QED
      BY <1>7, <3>1, <3>2, <3>3, <3>4 DEF Evaluate
  <2>5. work' \in [Workers -> [Tickets -> Handler]]
    BY <2>4, GoesType DEF TypeOK
  <2>6. QED
    BY <1>7, <2>5 DEF Evaluate, TypeOK
<1>8. ASSUME NEW w \in Workers, NEW t \in Tickets, Assign(w, t)
      PROVE  TypeOK'
  <2> DEFINE h == work[w][t]
  <2>1. h \in Handler /\ h.at \in Int
    BY DEF TypeOK, Handler
  <2>2. h.room \in Rooms
    BY <1>8 DEF Assign, RoomAvailable
  <2>3. Ended(ticket[t], "assigned", h.at) \in TicketRow
    <3> HIDE DEF h
    <3> QED BY <2>1, EndedType DEF TypeOK, TicketStatus
  <2>4. ticket' \in [Tickets -> TicketRow]
    BY <1>8, <2>3 DEF Assign, TypeOK
  <2>5. room' \in [Rooms -> RoomRow]
    <3>1. room[h.room] \in RoomRow
      BY <2>2 DEF TypeOK
    <3>2. Joined(room[h.room], Fills(h.room), h.at) \in RoomRow
      <4> HIDE DEF h
      <4> QED BY <2>1, <3>1, JoinedType
    <3>3. QED
      BY <1>8, <2>2, <3>2 DEF Assign, TypeOK
  <2>6. membership' \in [Tickets -> MembershipRow]
    BY <1>8, <2>1, <2>2 DEF Assign, TypeOK, RoomRow, MembershipRow, LowestFreeSeat,
                             FreeSeats, Handler
  <2>7. outbox' \subseteq Event
    <3>1. ticket[t].version + 1 \in Nat /\ room[h.room].version + 1 \in Nat
      BY <2>2 DEF TypeOK, TicketRow, RoomRow
    <3>2. [aggregate |-> t, version |-> ticket[t].version + 1,
           type |-> "ticket.assigned"] \in Event
      BY <3>1 DEF Event
    <3>3. [aggregate |-> h.room, version |-> room[h.room].version + 1,
           type |-> "room.filled"] \in Event
      BY <2>2, <3>1 DEF Event
    <3>4. outbox' \subseteq outbox
            \cup {[aggregate |-> t, version |-> ticket[t].version + 1,
                   type |-> "ticket.assigned"]}
            \cup {[aggregate |-> h.room, version |-> room[h.room].version + 1,
                   type |-> "room.filled"]}
      BY <1>8, Zenon DEF Assign
    <3>5. QED
      BY <3>2, <3>3, <3>4, Zenon DEF TypeOK
  <2>8. shadowWork' \subseteq Rooms \X Int
    BY <1>8, <2>1, <2>2 DEF Assign, TypeOK
  <2>9. work' \in [Workers -> [Tickets -> Handler]] /\ faults' \in Nat
    BY <1>8, AfterCommitType DEF Assign
  <2>10. QED
    BY <1>8, <2>4, <2>5, <2>6, <2>7, <2>8, <2>9 DEF Assign, TypeOK
<1>9. ASSUME NEW w \in Workers, NEW t \in Tickets, AssignStale(w, t)
      PROVE  TypeOK'
  <2>1. [Idle EXCEPT !.phase = "retry", !.token = work[w][t].token, !.at = work[w][t].at,
                     !.retryAt = work[w][t].at + StaleRetryDelay] \in Handler
    <3>1. /\ work[w][t].token \in Nat
          /\ work[w][t].at \in Int
          /\ work[w][t].at + StaleRetryDelay \in Int
      BY DEF TypeOK, Handler
    <3>2. QED
      BY <3>1, RetryHandlerType
  <2>2. work' \in [Workers -> [Tickets -> Handler]]
    BY <1>9, <2>1, GoesType DEF AssignStale, TypeOK
  <2>3. QED
    BY <1>9, <2>2 DEF AssignStale, TypeOK
<1>10. ASSUME NEW w \in Workers, NEW t \in Tickets, Expire(w, t)
       PROVE  TypeOK'
  <2>1. work[w][t].at \in Int
    BY DEF TypeOK, Handler
  <2>2. Ended(ticket[t], "expired", work[w][t].at) \in TicketRow
    BY <2>1, EndedType DEF TypeOK, TicketStatus
  <2>3. ticket' \in [Tickets -> TicketRow]
    BY <1>10, <2>2 DEF Expire, TypeOK
  <2>4. outbox' \subseteq Event
    BY <1>10 DEF Expire, TypeOK, Event, TicketRow
  <2>5. commands' \subseteq Tickets \X (CancelCommands \cup {"expiry"})
    BY <1>10 DEF Expire, TypeOK
  <2>6. work' \in [Workers -> [Tickets -> Handler]] /\ faults' \in Nat
    BY <1>10, AfterCommitType DEF Expire
  <2>7. QED
    BY <1>10, <2>3, <2>4, <2>5, <2>6 DEF Expire, TypeOK
<1>11. ASSUME NEW w \in Workers, NEW t \in Tickets, ScheduleRetry(w, t)
       PROVE  TypeOK'
  <2>1. ticket' \in [Tickets -> TicketRow]
    <3> DEFINE row == [ticket[t] EXCEPT !.nextAttemptAt = work[w][t].retryAt,
                                        !.token = 0, !.claimedUntil = 0]
    <3>1. ticket[t] \in TicketRow /\ work[w][t].retryAt \in Int /\ 0 \in Nat /\ 0 \in Int
      BY DEF TypeOK, Handler
    <3>2. row \in TicketRow
      BY <3>1, Zenon DEF TicketRow
    <3>3. ticket' = [ticket EXCEPT ![t] = row]
      BY <1>11 DEF ScheduleRetry, TypeOK, TicketRow
    <3>4. QED
      <4> HIDE DEF row
      <4> QED BY <3>2, <3>3 DEF TypeOK
  <2>2. work' \in [Workers -> [Tickets -> Handler]]
    BY <1>11, GoesType, ConstantRecords DEF ScheduleRetry, Stops, TypeOK
  <2>3. QED
    BY <1>11, <2>1, <2>2 DEF ScheduleRetry, TypeOK
<1>12. ASSUME NEW w \in Workers, NEW t \in Tickets, ClaimLost(w, t)
       PROVE  TypeOK'
  <2>1. work' \in [Workers -> [Tickets -> Handler]]
    BY <1>12, GoesType, ConstantRecords DEF ClaimLost, Stops, TypeOK
  <2>2. QED
    BY <1>12, <2>1 DEF ClaimLost, TypeOK
<1>13. ASSUME NEW w \in Workers, NEW t \in Tickets, StatementFails(w, t)
       PROVE  TypeOK'
  <2>1. work[w][t] \in Handler
    BY DEF TypeOK
  <2>2. work' \in [Workers -> [Tickets -> Handler]]
    BY <1>13, <2>1, GoesType, FailedType, ConstantRecords DEF StatementFails, Stops, TypeOK
  <2>3. QED
    BY <1>13, <2>2 DEF StatementFails, TypeOK
<1>14. ASSUME NEW w \in Workers, Crash(w)
       PROVE  TypeOK'
  BY <1>14, ConstantRecords DEF Crash, TypeOK
<1>15. CASE Tick
  BY <1>15 DEF Tick, TypeOK
<1>16. CASE UNCHANGED vars
  BY <1>16 DEF vars, TypeOK
<1>17. QED
  BY <1>1, <1>2, <1>3, <1>4, <1>5, <1>6, <1>7, <1>8, <1>9, <1>10, <1>11, <1>12,
     <1>13, <1>14, <1>15, <1>16
     DEF Next, HandlerStep, Done

\* Tickets, rooms, seats, events and handlers keep their types in every
\* reachable state.
THEOREM TypeCorrect == Spec => []TypeOK
<1>1. Init => TypeOK
  BY ConstantRecords DEF Init, TypeOK
<1>2. TypeOK /\ [Next]_vars => TypeOK'
  BY TypeStep
<1>3. QED
  BY <1>1, <1>2, PTL DEF Spec

-----------------------------------------------------------------------------
(***************************************************************************)
(* The rooms are as fair as the matcher thought.                           *)
(*                                                                         *)
(* A seat is given at a room version nobody has read yet, so a handler     *)
(* whose version is still current has scored every member.                 *)
(***************************************************************************)

\* What any step does to rooms and seats: versions never go back, and a ticket
\* that gets a seat had none and sits at a version the room had not reached.
SeatsGrow ==
    /\ \A r \in Rooms : room[r].version <= room'[r].version
    /\ \A u \in Tickets :
         \/ membership'[u] = membership[u]
         \/ /\ membership[u].room = NoRoom
            /\ membership'[u].room \in Rooms
            /\ membership'[u].roomVersion = room[membership'[u].room].version + 1
            /\ membership'[u].roomVersion <= room'[membership'[u].room].version

\* What a successful AssignTicket does, in the terms the invariant speaks of.
AssignEffect(t, h) ==
    /\ h.room \in Rooms
    /\ room[h.room].status = "forming"
    /\ room[h.room].version = h.version
    /\ ticket[t].status = "queued"
    /\ ticket' = [ticket EXCEPT ![t] = Ended(ticket[t], "assigned", h.at)]
    /\ room' = [room EXCEPT ![h.room] = Joined(room[h.room], Fills(h.room), h.at)]
    /\ \E s \in Nat :
         membership' = [membership EXCEPT ![t] =
                          [room |-> h.room, seat |-> s, assignedAt |-> h.at,
                           roomVersion |-> room[h.room].version + 1,
                           scored |-> h.scored]]

\* Assign has that effect.
LEMMA AssignHasEffect ==
    ASSUME NEW w \in Workers, NEW t \in Tickets, Assign(w, t)
    PROVE  AssignEffect(t, work[w][t])
<1>1. \A r \in Rooms : LowestFreeSeat(r) \subseteq Nat
  BY PolicyAssumption DEF LowestFreeSeat, FreeSeats
<1>2. QED
  BY <1>1 DEF Assign, AssignEffect, RoomAvailable, OwnsActiveClaim

\* The status a terminal transition writes.
LEMMA EndedStatus ==
    ASSUME NEW row \in TicketRow, NEW s, NEW at
    PROVE  Ended(row, s, at).status = s
  BY Zenon DEF Ended, TicketRow

\* The version and the status an assignment writes to its room.
LEMMA JoinedFields ==
    ASSUME NEW row \in RoomRow, NEW filled, NEW at
    PROVE  /\ Joined(row, filled, at).version = row.version + 1
           /\ Joined(row, filled, at).status = IF filled THEN "collecting" ELSE row.status
  BY Zenon DEF Joined, RoomRow

\* Only AssignTicket touches a seat, and only the game backend and AssignTicket
\* touch a room.
LEMMA SeatsGrowStep ==
    ASSUME AssignmentInvariant, [Next]_vars
    PROVE  SeatsGrow
<1>1. TypeOK /\ \A r \in Rooms : room[r].version \in Nat
  BY DEF AssignmentInvariant, TypeOK, RoomRow
<1>2. CASE UNCHANGED <<room, membership>>
  BY <1>1, <1>2 DEF SeatsGrow
<1>3. ASSUME NEW r \in Rooms, OpenRoom(r)
      PROVE  SeatsGrow
  <2>1. room[r].version = 0 /\ UNCHANGED membership
    BY <1>3 DEF OpenRoom, AssignmentInvariant, VersionsBoundSeats
  <2>2. [RoomUnborn EXCEPT !.status = "forming", !.version = 1, !.createdAt = clock,
                           !.fillDeadline = clock + RoomWindow].version = 1
    BY Zenon DEF RoomUnborn
  <2>3. room'[r].version = 1 /\ \A q \in Rooms \ {r} : room'[q] = room[q]
    BY <1>1, <1>3, <2>2, Zenon DEF OpenRoom, TypeOK
  <2>4. QED
    BY <1>1, <2>1, <2>3 DEF SeatsGrow
<1>4. ASSUME NEW w \in Workers, NEW t \in Tickets, Assign(w, t)
      PROVE  SeatsGrow
  <2>1. PICK h : h = work[w][t]
    OBVIOUS
  <2>2. AssignEffect(t, h)
    BY <1>4, <2>1, AssignHasEffect
  <2>3. room'[h.room].version = room[h.room].version + 1
    BY <1>1, <2>2, JoinedFields DEF AssignEffect, TypeOK
  <2>4. \A r \in Rooms : room[r].version <= room'[r].version
    BY <1>1, <2>2, <2>3 DEF AssignEffect, TypeOK
  <2>5. membership[t].room = NoRoom
    BY <2>2 DEF AssignEffect, AssignmentInvariant, SeatedIffAssigned
  <2>6. /\ membership'[t].room = h.room
        /\ membership'[t].roomVersion = room[h.room].version + 1
        /\ \A u \in Tickets \ {t} : membership'[u] = membership[u]
    BY <1>1, <2>2 DEF AssignEffect, TypeOK
  <2>7. QED
    BY <1>1, <2>2, <2>3, <2>4, <2>5, <2>6 DEF SeatsGrow, AssignEffect
<1>5. ASSUME NEW w \in Workers, NEW t \in Tickets, HandlerStep(w, t), ~Assign(w, t)
      PROVE  UNCHANGED <<room, membership>>
  BY <1>5, Zenon DEF HandlerStep, LoadRooms, Evaluate, AssignStale, Expire,
                     ScheduleRetry, ClaimLost
<1>6. ASSUME NEW t \in Tickets,
             \/ Accept(t)
             \/ \E c \in CancelCommands : Cancel(t, c) \/ CancelAgain(t, c)
             \/ \E w \in Workers : StatementFails(w, t)
      PROVE  UNCHANGED <<room, membership>>
  BY <1>6, Zenon DEF Accept, Cancel, CancelAgain, StatementFails
<1>7. ASSUME NEW w \in Workers, Claim(w) \/ Crash(w)
      PROVE  UNCHANGED <<room, membership>>
  BY <1>7, Zenon DEF Claim, Crash
<1>8. ASSUME Tick \/ Done \/ UNCHANGED vars
      PROVE  UNCHANGED <<room, membership>>
  BY <1>8, Zenon DEF Tick, Done, vars
<1>9. QED
  BY <1>2, <1>3, <1>4, <1>5, <1>6, <1>7, <1>8, Zenon DEF Next

\* What any step makes a handler know: what it knew, nothing about rooms, or what
\* it has just read.
ReadsFresh(w, t) ==
    \/ work'[w][t] = work[w][t]
    \/ work'[w][t].phase \notin {"loaded", "assign"}
    \/ /\ UNCHANGED <<room, membership>>
       /\ ReadIsOld(work'[w][t])
       /\ ChoiceIsFair(t, work'[w][t])

\* A handler other than the one that moves keeps what it knows.
LEMMA GoesOthers ==
    ASSUME TypeOK, NEW w \in Workers, NEW t \in Tickets, NEW h, Goes(w, t, h)
    PROVE  /\ work'[w][t] = h
           /\ \A v \in Workers, u \in Tickets :
                v # w \/ u # t => work'[v][u] = work[v][u]
  BY DEF Goes, TypeOK

\* Reading the rooms: the versions read are the present ones.
LEMMA LoadReadsFresh ==
    ASSUME TypeOK, NEW w \in Workers, NEW t \in Tickets, LoadRooms(w, t)
    PROVE  /\ ReadIsOld(work'[w][t])
           /\ ChoiceIsFair(t, work'[w][t])
<1>1. PICK L \in OldestRooms(CompatibleRooms(work[w][t].at), RoomLimit) :
        Goes(w, t, [work[w][t] EXCEPT !.phase = "loaded",
                      !.views = {[id |-> r, version |-> room[r].version,
                                  createdAt |-> room[r].createdAt,
                                  deadline |-> room[r].fillDeadline,
                                  members |-> {}] : r \in L}])
  BY DEF LoadRooms
<1> DEFINE V == {[id |-> r, version |-> room[r].version,
                  createdAt |-> room[r].createdAt,
                  deadline |-> room[r].fillDeadline,
                  members |-> {}] : r \in L}
<1>2. L \subseteq Rooms
  BY DEF OldestRooms, CompatibleRooms
<1>3. \A v \in V : v.version <= room[v.id].version
  BY <1>2 DEF TypeOK, RoomRow
<1>4. work[w][t] \in Handler
  BY DEF TypeOK
<1> HIDE DEF V
<1>5. /\ [work[w][t] EXCEPT !.phase = "loaded", !.views = V].phase = "loaded"
      /\ [work[w][t] EXCEPT !.phase = "loaded", !.views = V].views = V
  BY <1>4, Zenon DEF Handler
<1>6. work'[w][t] = [work[w][t] EXCEPT !.phase = "loaded", !.views = V]
  BY <1>1, GoesOthers DEF V
<1>7. work'[w][t].phase = "loaded" /\ work'[w][t].views = V
  BY <1>5, <1>6
<1>8. QED
  BY <1>3, <1>7 DEF ReadIsOld, ChoiceIsFair

\* An eligible decision is a fair one for the members it was made for.
LEMMA EligibleIsFair ==
    ASSUME NEW v, NEW t, NEW at, Eligible(v, t, at)
    PROVE  /\ GapWithin(v.members \cup {t}, MaxSkillGap)
           /\ \A m \in v.members : PlayerOf[m] # PlayerOf[t]
           /\ Cardinality(v.members) + 1 = Capacity => v.members \cup {t} \in BalancedRooms
  BY Zenon DEF Eligible, SeatOpen, SkillFits, Completes

\* Evaluating them: the members are read now, after the versions, and the choice
\* was made for these members.
LEMMA EvaluateReadsFresh ==
    ASSUME TypeOK, NEW w \in Workers, NEW t \in Tickets,
           ReadIsOld(work[w][t]), Evaluate(w, t)
    PROVE  \/ work'[w][t].phase \notin {"loaded", "assign"}
           \/ ReadIsOld(work'[w][t]) /\ ChoiceIsFair(t, work'[w][t])
<1>1. PICK h : h = work[w][t]
  OBVIOUS
<1> DEFINE views == WithMembers(h.views)
           next  == [h EXCEPT !.views = {}]
<1>2. /\ h \in Handler
      /\ h.views \subseteq RoomView
      /\ h.phase = "loaded"
      /\ \A v \in h.views : v.version <= room[v.id].version
  <2>1. h \in Handler
    BY <1>1 DEF TypeOK
  <2>2. h.phase = "loaded"
    BY <1>1 DEF Evaluate
  <2>3. h.views \subseteq RoomView
    BY <2>1 DEF Handler
  <2>4. QED
    BY <1>1, <2>1, <2>2, <2>3 DEF ReadIsOld
<1>3. next \in Handler
  BY <1>2, Zenon DEF Handler
<1>4. CASE Goes(w, t, Failed(w, h))
  <2>1. Failed(w, h).phase = "failed"
    BY Zenon DEF Failed, Idle
  <2>2. QED
    BY <1>4, <2>1, GoesOthers
<1>5. ASSUME NEW v \in Matches(views, t, ticket[t].requestedAt, h.at),
             Goes(w, t, [next EXCEPT !.phase = "assign", !.room = v.id,
                                     !.version = v.version, !.scored = v.members])
      PROVE  ReadIsOld(work'[w][t]) /\ ChoiceIsFair(t, work'[w][t])
  <2> DEFINE g == [next EXCEPT !.phase = "assign", !.room = v.id,
                               !.version = v.version, !.scored = v.members]
  <2>1. PICK u \in h.views : v = [u EXCEPT !.members = MembersOf(u.id)]
    BY <1>5 DEF Matches, Selectable, WithMembers
  <2>2. u \in RoomView
    BY <1>2
  <2>3. v.id = u.id /\ v.version = u.version /\ v.members = MembersOf(u.id) /\ u.id \in Rooms
    BY <2>1, <2>2, Zenon DEF RoomView
  <2>4. Eligible(v, t, h.at)
    BY <1>5 DEF Matches, Selectable
  <2>5. /\ g.phase = "assign"
        /\ g.room = v.id
        /\ g.version = v.version
        /\ g.scored = v.members
    <3> HIDE DEF next
    <3> QED BY <1>3, Zenon DEF Handler
  <2>6. work'[w][t] = g
    <3> HIDE DEF g
    <3> QED BY <1>5, GoesOthers DEF g
  <2>7. g.version <= room[g.room].version
    BY <1>2, <2>3, <2>5
  <2>8. ReadIsOld(g)
    <3> HIDE DEF g
    <3> QED BY <2>3, <2>5, <2>7 DEF ReadIsOld
  <2>9. ChoiceIsFair(t, g)
    <3> HIDE DEF g
    <3> QED BY <2>4, <2>5, EligibleIsFair, Zenon DEF ChoiceIsFair
  <2>10. QED
    BY <2>6, <2>8, <2>9
<1>6. ASSUME Goes(w, t, [next EXCEPT !.phase = "expire"])
      PROVE  work'[w][t].phase = "expire"
  <2> DEFINE g == [next EXCEPT !.phase = "expire"]
  <2>1. g.phase = "expire"
    <3> HIDE DEF next
    <3> QED BY <1>3, Zenon DEF Handler
  <2>2. work'[w][t] = g
    <3> HIDE DEF g
    <3> QED BY <1>6, GoesOthers DEF g
  <2>3. QED
    BY <2>1, <2>2
<1>7. ASSUME NEW b, Goes(w, t, [next EXCEPT !.phase = "retry", !.retryAt = b])
      PROVE  work'[w][t].phase = "retry"
  <2> DEFINE g == [next EXCEPT !.phase = "retry", !.retryAt = b]
  <2>1. g.phase = "retry"
    <3> HIDE DEF next
    <3> QED BY <1>3, Zenon DEF Handler
  <2>2. work'[w][t] = g
    <3> HIDE DEF g
    <3> QED BY <1>7, GoesOthers DEF g
  <2>3. QED
    BY <2>1, <2>2
<1>8. \/ Goes(w, t, Failed(w, h))
      \/ \E v \in Matches(views, t, ticket[t].requestedAt, h.at) :
           Goes(w, t, [next EXCEPT !.phase = "assign", !.room = v.id,
                                   !.version = v.version, !.scored = v.members])
      \/ Goes(w, t, [next EXCEPT !.phase = "expire"])
      \/ \E b : Goes(w, t, [next EXCEPT !.phase = "retry", !.retryAt = b])
  BY <1>1, Zenon DEF Evaluate
<1>9. QED
  BY <1>4, <1>5, <1>6, <1>7, <1>8

\* Every step of every handler, and of everybody else, reads like that.
LEMMA ReadsFreshStep ==
    ASSUME TypeOK, ReadsAreOld, [Next]_vars, NEW v \in Workers, NEW u \in Tickets
    PROVE  ReadsFresh(v, u)
<1>1. CASE UNCHANGED work
  BY <1>1 DEF ReadsFresh
<1>2. Idle.phase = "idle"
  BY DEF Idle
<1>3. ASSUME NEW w \in Workers, NEW t \in Tickets, NEW h, Goes(w, t, h),
             h.phase \notin {"loaded", "assign"}
      PROVE  ReadsFresh(v, u)
  BY <1>3, GoesOthers DEF ReadsFresh
<1>4. ASSUME NEW w \in Workers, NEW t \in Tickets, Stops(w, t)
      PROVE  ReadsFresh(v, u)
  BY <1>2, <1>3, <1>4 DEF Stops
<1>5. ASSUME NEW w \in Workers, NEW t \in Tickets, Goes(w, t, Failed(w, work[w][t]))
      PROVE  ReadsFresh(v, u)
  <2>1. Failed(w, work[w][t]).phase = "failed"
    BY Zenon DEF Failed, Idle
  <2>2. QED
    BY <1>3, <1>5, <2>1
<1>6. ASSUME NEW w \in Workers, Claim(w)
      PROVE  ReadsFresh(v, u)
  <2>1. PICK batch \in SUBSET Due(Now(w)) :
          work' = [work EXCEPT ![w] = [t \in Tickets |->
               IF t \in batch
                 THEN [Idle EXCEPT !.phase = "claimed", !.at = Now(w),
                                   !.token = ticket[t].attempts + 1]
                 ELSE Idle]]
    BY <1>6 DEF Claim
  <2>2. [Idle EXCEPT !.phase = "claimed", !.at = Now(w),
                     !.token = ticket[u].attempts + 1].phase = "claimed"
    BY Zenon DEF Idle
  <2>3. CASE v = w
    <3>1. work'[v][u] = IF u \in batch
                          THEN [Idle EXCEPT !.phase = "claimed", !.at = Now(w),
                                            !.token = ticket[u].attempts + 1]
                          ELSE Idle
      BY <2>1, <2>3, Zenon DEF TypeOK
    <3>2. work'[v][u].phase \in {"claimed", "idle"}
      BY <1>2, <2>2, <3>1, Zenon
    <3>3. QED
      BY <3>2 DEF ReadsFresh
  <2>4. CASE v # w
    BY <2>1, <2>4, Zenon DEF TypeOK, ReadsFresh
  <2>5. QED
    BY <2>3, <2>4
<1>7. ASSUME NEW w \in Workers, Crash(w)
      PROVE  ReadsFresh(v, u)
  BY <1>2, <1>7 DEF Crash, TypeOK, ReadsFresh
<1>8. ASSUME NEW w \in Workers, NEW t \in Tickets, LoadRooms(w, t)
      PROVE  ReadsFresh(v, u)
  <2>1. UNCHANGED <<room, membership>> /\ \E h : Goes(w, t, h)
    BY <1>8, Zenon DEF LoadRooms
  <2>2. QED
    BY <1>8, <2>1, LoadReadsFresh, GoesOthers DEF ReadsFresh
<1>9. ASSUME NEW w \in Workers, NEW t \in Tickets, Evaluate(w, t)
      PROVE  ReadsFresh(v, u)
  <2>1. UNCHANGED <<room, membership>> /\ \E h : Goes(w, t, h)
    BY <1>9, Zenon DEF Evaluate
  <2>2. ReadIsOld(work[w][t])
    BY DEF ReadsAreOld
  <2>3. QED
    BY <1>9, <2>1, <2>2, EvaluateReadsFresh, GoesOthers DEF ReadsFresh
<1>10. ASSUME NEW w \in Workers, NEW t \in Tickets, AssignStale(w, t)
       PROVE  ReadsFresh(v, u)
  <2> DEFINE g == [Idle EXCEPT !.phase = "retry", !.token = work[w][t].token,
                               !.at = work[w][t].at,
                               !.retryAt = work[w][t].at + StaleRetryDelay]
  <2>1. g.phase = "retry"
    BY Zenon DEF Idle
  <2>2. Goes(w, t, g)
    BY <1>10 DEF AssignStale
  <2> HIDE DEF g
  <2>3. QED
    BY <1>3, <2>1, <2>2
<1>11. ASSUME NEW w \in Workers, NEW t \in Tickets,
              Assign(w, t) \/ Expire(w, t) \/ ScheduleRetry(w, t) \/ ClaimLost(w, t)
                \/ StatementFails(w, t)
       PROVE  Stops(w, t) \/ Goes(w, t, Failed(w, work[w][t]))
  BY <1>11, Zenon
     DEF Assign, Expire, ScheduleRetry, ClaimLost, StatementFails, AfterCommit
<1>12. ASSUME \/ \E t \in Tickets : Accept(t)
              \/ \E t \in Tickets, c \in CancelCommands : Cancel(t, c) \/ CancelAgain(t, c)
              \/ \E r \in Rooms : OpenRoom(r)
              \/ Tick \/ Done \/ UNCHANGED vars
       PROVE  UNCHANGED work
  BY <1>12, Zenon DEF Accept, Cancel, CancelAgain, OpenRoom, Tick, Done, vars
<1>13. QED
  BY <1>1, <1>4, <1>5, <1>6, <1>7, <1>8, <1>9, <1>10, <1>11, <1>12, Zenon
     DEF Next, HandlerStep

\* Handlers keep knowing what is old or true.
LEMMA ReadsAreOldStep ==
    ASSUME AssignmentInvariant, [Next]_vars
    PROVE  ReadsAreOld' /\ ChoicesAreFair'
<1>1. SeatsGrow /\ TypeOK /\ TypeOK'
  BY SeatsGrowStep, TypeStep DEF AssignmentInvariant
<1> SUFFICES ASSUME NEW w \in Workers, NEW t \in Tickets
             PROVE  ReadIsOld(work[w][t])' /\ ChoiceIsFair(t, work[w][t])'
  BY DEF ReadsAreOld, ChoicesAreFair
<1>2. ReadIsOld(work[w][t]) /\ ChoiceIsFair(t, work[w][t]) /\ ReadsFresh(w, t)
  BY <1>1, ReadsFreshStep DEF AssignmentInvariant, ReadsAreOld, ChoicesAreFair
<1>3. CASE work'[w][t] = work[w][t]
  <2>1. PICK h : h = work[w][t]
    OBVIOUS
  <2>2. h \in Handler /\ h.views \subseteq RoomView /\ h.version \in Nat
    BY <1>1, <2>1 DEF TypeOK, Handler
  <2>3. \A r \in Rooms : /\ room[r].version \in Nat /\ room'[r].version \in Nat
                         /\ room[r].version <= room'[r].version
    BY <1>1 DEF TypeOK, RoomRow, SeatsGrow
  <2>4. ASSUME h.phase = "loaded", NEW v \in h.views
        PROVE  v.version <= room'[v.id].version
    <3>1. v.version <= room[v.id].version /\ v.id \in Rooms /\ v.version \in Nat
      BY <1>2, <2>1, <2>2, <2>4 DEF ReadIsOld, RoomView
    <3>2. QED
      BY <2>3, <3>1
  <2>5. ASSUME h.phase = "assign"
        PROVE  /\ h.room \in Rooms
               /\ h.version <= room'[h.room].version
               /\ h.scored \subseteq MembersOf(h.room)'
               /\ \A u \in MembersOf(h.room)' :
                    membership'[u].roomVersion <= h.version => u \in h.scored
    <3>1. /\ h.room \in Rooms
          /\ h.version <= room[h.room].version
          /\ h.scored \subseteq MembersOf(h.room)
          /\ \A u \in MembersOf(h.room) :
               membership[u].roomVersion <= h.version => u \in h.scored
      BY <1>2, <2>1, <2>5 DEF ReadIsOld
    <3>2. h.version <= room'[h.room].version
      BY <2>2, <2>3, <3>1
    <3>3. h.scored \subseteq MembersOf(h.room)'
      BY <1>1, <3>1, AssignmentAssumption DEF SeatsGrow, MembersOf
    <3>4. ASSUME NEW u \in MembersOf(h.room)', membership'[u].roomVersion <= h.version
          PROVE  u \in h.scored
      <4>1. u \in Tickets /\ membership'[u].room = h.room
        BY DEF MembersOf
      <4>2. CASE membership'[u] = membership[u]
        BY <3>1, <3>4, <4>1, <4>2 DEF MembersOf
      <4>3. CASE membership'[u].roomVersion = room[h.room].version + 1
        BY <2>2, <2>3, <3>1, <3>4, <4>3
      <4>4. QED
        BY <1>1, <4>1, <4>2, <4>3 DEF SeatsGrow
    <3>5. QED
      BY <3>1, <3>2, <3>3, <3>4
  <2>6. ReadIsOld(work[w][t])'
    BY <1>3, <2>1, <2>4, <2>5 DEF ReadIsOld
  <2>7. ChoiceIsFair(t, work[w][t])'
    BY <1>2, <1>3 DEF ChoiceIsFair
  <2>8. QED
    BY <2>6, <2>7
<1>4. CASE work'[w][t].phase \notin {"loaded", "assign"}
  BY <1>4 DEF ReadIsOld, ChoiceIsFair
<1>5. CASE /\ UNCHANGED <<room, membership>>
           /\ ReadIsOld(work'[w][t])
           /\ ChoiceIsFair(t, work'[w][t])
  BY <1>5 DEF ReadIsOld, ChoiceIsFair, MembersOf
<1>6. QED
  BY <1>2, <1>3, <1>4, <1>5 DEF ReadsFresh

\* Steps other than OpenRoom and Assign leave rooms, seats and the set of
\* assigned tickets alone.
LEMMA OtherStepsLeaveSeats ==
    ASSUME TypeOK, [Next]_vars,
           \A r \in Rooms : ~OpenRoom(r),
           \A w \in Workers, t \in Tickets : ~Assign(w, t)
    PROVE  /\ UNCHANGED <<room, membership>>
           /\ \A t \in Tickets :
                (ticket'[t].status = "assigned") <=> (ticket[t].status = "assigned")
<1> DEFINE Goal == /\ UNCHANGED <<room, membership>>
                   /\ \A t \in Tickets :
                        (ticket'[t].status = "assigned") <=> (ticket[t].status = "assigned")
<1>1. ASSUME UNCHANGED <<room, membership, ticket>>
      PROVE  Goal
  BY <1>1
<1>2. ASSUME NEW t \in Tickets, NEW row, UNCHANGED <<room, membership>>,
             ticket' = [ticket EXCEPT ![t] = row],
             (row.status = "assigned") <=> (ticket[t].status = "assigned")
      PROVE  Goal
  BY <1>2 DEF TypeOK
<1>3. ASSUME NEW t \in Tickets, Accept(t)
      PROVE  Goal
  <2>1. PICK d \in RequestOffsets :
          ticket' = [ticket EXCEPT ![t] =
                      [NoTicket EXCEPT !.status = "queued", !.version = 1,
                                       !.requestedAt = clock + d,
                                       !.nextAttemptAt = clock + d]]
    BY <1>3 DEF Accept
  <2> DEFINE row == [NoTicket EXCEPT !.status = "queued", !.version = 1,
                                     !.requestedAt = clock + d,
                                     !.nextAttemptAt = clock + d]
  <2>2. row.status = "queued"
    BY Zenon DEF NoTicket
  <2>3. UNCHANGED <<room, membership>> /\ ticket[t].status = "none"
    BY <1>3 DEF Accept
  <2> HIDE DEF Goal
  <2>4. ticket' = [ticket EXCEPT ![t] = row]
    BY <2>1
  <2> HIDE DEF row
  <2>5. QED
    BY <1>2, <2>2, <2>3, <2>4
<1>4. ASSUME NEW t \in Tickets, NEW c \in CancelCommands, Cancel(t, c)
      PROVE  Goal
  <2>1. Ended(ticket[t], "cancelled", clock).status = "cancelled"
    BY EndedStatus DEF TypeOK
  <2>2. /\ UNCHANGED <<room, membership>>
        /\ ticket[t].status = "queued"
        /\ ticket' = [ticket EXCEPT ![t] = Ended(ticket[t], "cancelled", clock)]
    BY <1>4 DEF Cancel, Cancellable
  <2>3. QED
    BY <1>2, <2>1, <2>2
<1>5. ASSUME NEW w \in Workers, NEW t \in Tickets, Expire(w, t)
      PROVE  Goal
  <2>1. Ended(ticket[t], "expired", work[w][t].at).status = "expired"
    BY EndedStatus DEF TypeOK
  <2>2. /\ UNCHANGED <<room, membership>>
        /\ ticket[t].status = "queued"
        /\ ticket' = [ticket EXCEPT ![t] = Ended(ticket[t], "expired", work[w][t].at)]
    BY <1>5 DEF Expire, OwnsActiveClaim
  <2>3. QED
    BY <1>2, <2>1, <2>2
<1>6. ASSUME NEW w \in Workers, NEW t \in Tickets, ScheduleRetry(w, t)
      PROVE  Goal
  <2> DEFINE row == [ticket[t] EXCEPT !.nextAttemptAt = work[w][t].retryAt,
                                      !.token = 0, !.claimedUntil = 0]
  <2>1. ticket[t] \in TicketRow
    BY DEF TypeOK
  <2>2. row.status = ticket[t].status
    BY <2>1, Zenon DEF TicketRow
  <2>3. UNCHANGED <<room, membership>> /\ ticket' = [ticket EXCEPT ![t] = row]
    BY <1>6, Zenon DEF ScheduleRetry
  <2> HIDE DEF row, Goal
  <2>4. QED
    BY <1>2, <2>2, <2>3
<1>7. ASSUME NEW w \in Workers, Claim(w)
      PROVE  Goal
  <2>1. PICK batch \in SUBSET Due(Now(w)) :
          ticket' = [t \in Tickets |->
               IF t \in batch
                 THEN [ticket[t] EXCEPT !.token = ticket[t].attempts + 1,
                                        !.attempts = ticket[t].attempts + 1,
                                        !.claimedUntil = Now(w) + LeaseDuration]
                 ELSE ticket[t]]
    BY <1>7 DEF Claim
  <2>2. ASSUME NEW t \in Tickets
        PROVE  ticket'[t].status = ticket[t].status
    <3>1. ticket[t] \in TicketRow
      BY DEF TypeOK
    <3>2. [ticket[t] EXCEPT !.token = ticket[t].attempts + 1,
                            !.attempts = ticket[t].attempts + 1,
                            !.claimedUntil = Now(w) + LeaseDuration].status
            = ticket[t].status
      BY <3>1, Zenon DEF TicketRow
    <3>3. QED
      BY <2>1, <3>2, Zenon
  <2>3. UNCHANGED <<room, membership>>
    BY <1>7 DEF Claim
  <2>4. QED
    BY <2>2, <2>3
<1>8. ASSUME NEW w \in Workers, NEW t \in Tickets,
             LoadRooms(w, t) \/ Evaluate(w, t) \/ AssignStale(w, t) \/ ClaimLost(w, t)
               \/ StatementFails(w, t)
      PROVE  UNCHANGED <<room, membership, ticket>>
  BY <1>8, Zenon DEF LoadRooms, Evaluate, AssignStale, ClaimLost, StatementFails
<1>9. ASSUME \/ \E t \in Tickets, c \in CancelCommands : CancelAgain(t, c)
             \/ \E w \in Workers : Crash(w)
             \/ Tick \/ Done \/ UNCHANGED vars
      PROVE  UNCHANGED <<room, membership, ticket>>
  BY <1>9, Zenon DEF CancelAgain, Crash, Tick, Done, vars
<1> HIDE DEF Goal
<1>10. Goal
  BY <1>1, <1>3, <1>4, <1>5, <1>6, <1>7, <1>8, <1>9, Zenon DEF Next, HandlerStep
<1>11. QED
  BY <1>10 DEF Goal

\* Opening a room seats nobody.
LEMMA OpenRoomKeepsInvariant ==
    ASSUME AssignmentInvariant, NEW r \in Rooms, OpenRoom(r)
    PROVE  /\ VersionsBoundSeats'
           /\ SeatedIffAssigned'
           /\ ScoredMembersAreActual'
           /\ RoomsAreFair'
<1>1. UNCHANGED <<ticket, membership>> /\ TypeOK
  BY DEF OpenRoom, AssignmentInvariant
<1>2. [RoomUnborn EXCEPT !.status = "forming", !.version = 1, !.createdAt = clock,
                         !.fillDeadline = clock + RoomWindow].status = "forming"
  BY Zenon DEF RoomUnborn
<1>3. room'[r].status = "forming" /\ \A q \in Rooms \ {r} : room'[q] = room[q]
  BY <1>1, <1>2, Zenon DEF OpenRoom, TypeOK
<1>4. SeatsGrow
  BY SeatsGrowStep DEF Next
<1>5. VersionsBoundSeats'
  <2>1. \A q \in Rooms : room'[q].status = "none" => room'[q].version = 0
    BY <1>3 DEF AssignmentInvariant, VersionsBoundSeats
  <2>2. ASSUME NEW t \in Tickets, membership[t].room # NoRoom
        PROVE  membership[t].roomVersion <= room'[membership[t].room].version
    <3>1. /\ membership[t].room \in Rooms
          /\ membership[t].roomVersion \in Nat
          /\ \A q \in Rooms : room[q].version \in Nat
      BY <1>1, <2>2 DEF TypeOK, MembershipRow, RoomRow
    <3>2. membership[t].roomVersion <= room[membership[t].room].version
      BY <2>2 DEF AssignmentInvariant, VersionsBoundSeats
    <3>3. CASE membership[t].room = r
      <4>1. room[r].version <= room'[r].version /\ room'[r].version \in Nat
        BY <1>4, TypeStep DEF SeatsGrow, AssignmentInvariant, Next, TypeOK, RoomRow
      <4>2. QED
        BY <3>1, <3>2, <3>3, <4>1
    <3>4. QED
      BY <1>3, <3>1, <3>2, <3>3
  <2>3. QED
    BY <1>1, <2>1, <2>2 DEF VersionsBoundSeats
<1>6. SeatedIffAssigned' /\ ScoredMembersAreActual'
  BY <1>1 DEF AssignmentInvariant, SeatedIffAssigned, ScoredMembersAreActual, MembersOf
<1>7. RoomsAreFair'
  BY <1>1, <1>3 DEF AssignmentInvariant, RoomsAreFair, MembersOf
<1>8. QED
  BY <1>5, <1>6, <1>7

\* The members a handler scored are all the members of a room whose version it
\* still holds.
LEMMA CurrentVersionScoredAll ==
    ASSUME AssignmentInvariant, NEW h, ReadIsOld(h), h.phase = "assign",
           room[h.room].version = h.version
    PROVE  h.scored = MembersOf(h.room)
<1>1. /\ h.room \in Rooms
      /\ h.scored \subseteq MembersOf(h.room)
      /\ \A u \in MembersOf(h.room) :
           membership[u].roomVersion <= h.version => u \in h.scored
  BY DEF ReadIsOld
<1>2. \A u \in MembersOf(h.room) : membership[u].roomVersion <= room[h.room].version
  BY <1>1, AssignmentAssumption DEF AssignmentInvariant, VersionsBoundSeats, MembersOf
<1>3. QED
  BY <1>1, <1>2

\* The crux: a ticket that joins a room joins the members it was scored with.
LEMMA AssignKeepsInvariant ==
    ASSUME AssignmentInvariant, NEW w \in Workers, NEW t \in Tickets, Assign(w, t)
    PROVE  /\ VersionsBoundSeats'
           /\ SeatedIffAssigned'
           /\ ScoredMembersAreActual'
           /\ RoomsAreFair'
<1>1. PICK h : h = work[w][t]
  OBVIOUS
<1> DEFINE r == h.room
<1>2. AssignEffect(t, h) /\ h.phase = "assign"
  BY <1>1, AssignHasEffect DEF Assign
<1>3. TypeOK /\ ReadIsOld(h) /\ ChoiceIsFair(t, h)
  BY <1>1 DEF AssignmentInvariant, ReadsAreOld, ChoicesAreFair
<1>4. /\ r \in Rooms
      /\ r # NoRoom
      /\ membership[t].room = NoRoom
      /\ \A q \in Rooms : room[q].version \in Nat
      /\ \A u \in Tickets : /\ membership[u].roomVersion \in Nat
                            /\ membership[u].room \in Rooms \cup {NoRoom}
  BY <1>2, <1>3, AssignmentAssumption
     DEF AssignEffect, AssignmentInvariant, SeatedIffAssigned, TypeOK, RoomRow, MembershipRow
<1>5. h.scored = MembersOf(r)
  BY <1>2, <1>3, CurrentVersionScoredAll DEF AssignEffect
<1>6. /\ room'[r].version = room[r].version + 1
      /\ room'[r].status = IF Fills(r) THEN "collecting" ELSE "forming"
      /\ \A q \in Rooms \ {r} : room'[q] = room[q]
  <2>1. room[r] \in RoomRow
    BY <1>3, <1>4 DEF TypeOK
  <2>2. QED
    BY <1>2, <1>3, <2>1, JoinedFields DEF AssignEffect, TypeOK
<1>7. /\ membership'[t].room = r
      /\ membership'[t].roomVersion = room[r].version + 1
      /\ membership'[t].scored = h.scored
      /\ \A u \in Tickets \ {t} : membership'[u] = membership[u]
  BY <1>2, <1>3 DEF AssignEffect, TypeOK
<1>8. /\ MembersOf(r)' = MembersOf(r) \cup {t}
      /\ \A q \in Rooms \ {r} : MembersOf(q)' = MembersOf(q)
  <2>1. ASSUME NEW q \in Rooms, NEW u \in Tickets
        PROVE  (membership'[u].room = q)
                 <=> (membership[u].room = q \/ (u = t /\ q = r))
    BY <1>4, <1>7, AssignmentAssumption
  <2>2. \A q \in Rooms : MembersOf(q)' =
          {u \in Tickets : membership[u].room = q \/ (u = t /\ q = r)}
    BY <2>1 DEF MembersOf
  <2>3. QED
    BY <1>4, <2>2 DEF MembersOf
<1>9. \A u \in MembersOf(r) : u # t /\ membership[u].roomVersion <= room[r].version
  BY <1>4 DEF AssignmentInvariant, VersionsBoundSeats, MembersOf
<1>10. VersionsBoundSeats'
  <2>1. \A q \in Rooms : room'[q].status = "none" => room'[q].version = 0
    BY <1>6 DEF AssignmentInvariant, VersionsBoundSeats
  <2>2. ASSUME NEW u \in Tickets, membership'[u].room # NoRoom
        PROVE  membership'[u].roomVersion <= room'[membership'[u].room].version
    <3>1. CASE u = t
      BY <1>4, <1>6, <1>7, <3>1
    <3>2. CASE u # t
      <4>1. membership[u].roomVersion <= room[membership[u].room].version
        BY <1>7, <2>2, <3>2 DEF AssignmentInvariant, VersionsBoundSeats
      <4>2. QED
        BY <1>4, <1>6, <1>7, <2>2, <3>2, <4>1
    <3>3. QED
      BY <3>1, <3>2
  <2>3. QED
    BY <2>1, <2>2 DEF VersionsBoundSeats
<1>11. SeatedIffAssigned'
  <2>1. /\ ticket'[t].status = "assigned"
        /\ \A u \in Tickets \ {t} : ticket'[u] = ticket[u]
    BY <1>2, <1>3, EndedStatus DEF AssignEffect, TypeOK
  <2>2. QED
    BY <1>4, <1>7, <2>1 DEF AssignmentInvariant, SeatedIffAssigned
<1>12. ScoredMembersAreActual'
  <2> SUFFICES ASSUME NEW u \in Tickets, membership'[u].room # NoRoom
               PROVE  membership'[u].scored =
                        {x \in MembersOf(membership[u].room)' :
                           membership'[x].roomVersion < membership'[u].roomVersion}
    BY DEF ScoredMembersAreActual, MembersOf
  <2>1. CASE u = t
    BY <1>4, <1>5, <1>7, <1>8, <1>9, <2>1 DEF MembersOf
  <2>2. CASE u # t /\ membership[u].room = r
    <3>1. membership[u].scored =
            {x \in MembersOf(r) : membership[x].roomVersion < membership[u].roomVersion}
      BY <1>4, <2>2 DEF AssignmentInvariant, ScoredMembersAreActual
    <3>2. membership[u].roomVersion <= room[r].version
      BY <1>9, <2>2 DEF MembersOf
    <3>3. \A x \in MembersOf(r) : x \in Tickets \ {t}
      BY <1>9 DEF MembersOf
    <3>4. {x \in MembersOf(r) \cup {t} : membership'[x].roomVersion < membership[u].roomVersion}
            = {x \in MembersOf(r) : membership[x].roomVersion < membership[u].roomVersion}
      BY <1>4, <1>7, <3>2, <3>3
    <3>5. QED
      BY <1>7, <1>8, <2>2, <3>1, <3>4
  <2>3. CASE u # t /\ membership[u].room # r
    <3>1. membership[u].room \in Rooms \ {r} /\ membership'[u] = membership[u]
      BY <1>4, <1>7, <2>3
    <3>2. MembersOf(membership[u].room)' = MembersOf(membership[u].room)
      <4>1. PICK q : q = membership[u].room
        OBVIOUS
      <4>2. MembersOf(q)' = MembersOf(q)
        BY <1>8, <3>1, <4>1
      <4>3. QED
        BY <3>1, <4>1, <4>2 DEF MembersOf
    <3>3. \A x \in MembersOf(membership[u].room) : membership'[x] = membership[x]
      BY <1>4, <1>7, <3>1 DEF MembersOf
    <3>4. membership[u].scored =
            {x \in MembersOf(membership[u].room) :
               membership[x].roomVersion < membership[u].roomVersion}
      BY <3>1, AssignmentAssumption DEF AssignmentInvariant, ScoredMembersAreActual
    <3>5. QED
      BY <3>1, <3>2, <3>3, <3>4
  <2>4. QED
    BY <2>1, <2>2, <2>3
<1>13. RoomsAreFair'
  <2>1. ASSUME NEW q \in Rooms \ {r}
        PROVE  /\ GapWithin(MembersOf(q)', MaxSkillGap)
               /\ \A a, b \in MembersOf(q)' : a # b => PlayerOf[a] # PlayerOf[b]
               /\ room'[q].status = "collecting" => MembersOf(q)' \in BalancedRooms
    BY <1>6, <1>8 DEF AssignmentInvariant, RoomsAreFair
  <2>2. GapWithin(MembersOf(r) \cup {t}, MaxSkillGap)
    BY <1>2, <1>3, <1>5 DEF ChoiceIsFair
  <2>3. \A a, b \in MembersOf(r) \cup {t} : a # b => PlayerOf[a] # PlayerOf[b]
    BY <1>2, <1>3, <1>4, <1>5 DEF ChoiceIsFair, AssignmentInvariant, RoomsAreFair
  <2>4. room'[r].status = "collecting" => MembersOf(r) \cup {t} \in BalancedRooms
    BY <1>2, <1>3, <1>5, <1>6 DEF ChoiceIsFair, Fills
  <2>5. QED
    BY <1>8, <2>1, <2>2, <2>3, <2>4 DEF RoomsAreFair
<1>14. QED
  BY <1>10, <1>11, <1>12, <1>13

\* The invariant is inductive.
LEMMA InvariantStep ==
    ASSUME AssignmentInvariant, [Next]_vars
    PROVE  AssignmentInvariant'
<1>1. TypeOK /\ TypeOK'
  BY TypeStep DEF AssignmentInvariant
<1>2. ReadsAreOld' /\ ChoicesAreFair'
  BY ReadsAreOldStep
<1>3. /\ VersionsBoundSeats'
      /\ SeatedIffAssigned'
      /\ ScoredMembersAreActual'
      /\ RoomsAreFair'
  <2>1. CASE /\ UNCHANGED <<room, membership>>
             /\ \A t \in Tickets :
                  (ticket'[t].status = "assigned") <=> (ticket[t].status = "assigned")
    BY <2>1 DEF AssignmentInvariant, VersionsBoundSeats, SeatedIffAssigned,
                ScoredMembersAreActual, RoomsAreFair, MembersOf
  <2>2. QED
    BY <1>1, <2>1, OtherStepsLeaveSeats, OpenRoomKeepsInvariant, AssignKeepsInvariant
<1>4. QED
  BY <1>1, <1>2, <1>3 DEF AssignmentInvariant

\* The invariant holds in every reachable state.
THEOREM InvariantHolds == Spec => []AssignmentInvariant
<1>1. Init => AssignmentInvariant
  <2> SUFFICES ASSUME Init
               PROVE  AssignmentInvariant
    OBVIOUS
  <2>1. TypeOK
    BY ConstantRecords DEF Init, TypeOK
  <2>2. /\ \A t \in Tickets : membership[t].room = NoRoom /\ ticket[t].status = "none"
        /\ \A r \in Rooms : room[r].status = "none" /\ room[r].version = 0
        /\ \A w \in Workers, t \in Tickets : work[w][t].phase = "idle"
    BY DEF Init, Unseated, NoTicket, RoomUnborn, Idle
  <2>3. \A r \in Rooms : MembersOf(r) = {}
    BY <2>2, AssignmentAssumption DEF MembersOf
  <2>4. RoomsAreFair
    BY <2>2, <2>3 DEF RoomsAreFair, GapWithin
  <2>5. QED
    BY <2>1, <2>2, <2>4 DEF AssignmentInvariant, VersionsBoundSeats, SeatedIffAssigned,
          ReadsAreOld, ReadIsOld, ChoicesAreFair, ChoiceIsFair, ScoredMembersAreActual
<1>2. AssignmentInvariant /\ [Next]_vars => AssignmentInvariant'
  BY InvariantStep
<1>3. QED
  BY <1>1, <1>2, PTL DEF Spec

\* The members AssignTicket adds a ticket to are the members the matcher scored.
THEOREM ScoredMembersAlwaysActual == Spec => []ScoredMembersAreActual
<1>1. AssignmentInvariant => ScoredMembersAreActual
  BY DEF AssignmentInvariant
<1>2. QED
  BY <1>1, InvariantHolds, PTL

\* No interleaving of workers breaks the hard limits of the policy of a room.
THEOREM RoomsAlwaysFair == Spec => []RoomsAreFair
<1>1. AssignmentInvariant => RoomsAreFair
  BY DEF AssignmentInvariant
<1>2. QED
  BY <1>1, InvariantHolds, PTL

-----------------------------------------------------------------------------
(***************************************************************************)
(* One outcome, told once, in time.                                        *)
(***************************************************************************)

\* The columns of a ticket that its status decides.
RowsFollowStatus ==
    \A t \in Tickets :
        /\ ticket[t].status = "none" => ticket[t].token = 0
        /\ ticket[t].status = "queued" => ticket[t].version = 1
        /\ ticket[t].status \in Terminal => ticket[t].token = 0 /\ ticket[t].claimedUntil = 0

\* A room that was never opened has no members, and no room has infinitely many.
MembersAreCounted ==
    \A r \in Rooms :
        /\ IsFiniteSet(MembersOf(r))
        /\ room[r].status = "none" => MembersOf(r) = {}

\* What a handler knows of times: the room it chose exists since before its attempt, and
\* the deadline of its ticket has the side its decision says.
KnowsTimes(t, h) ==
    /\ h.phase # "idle" => ticket[t].status # "none"
    /\ h.phase = "loaded" =>
         \A v \in h.views :
           room[v.id].status # "none" /\ v.createdAt = room[v.id].createdAt
    /\ h.phase = "assign" =>
         /\ room[h.room].status # "none"
         /\ room[h.room].createdAt <= h.at
         /\ ticket[t].requestedAt <= h.at
         /\ h.at <= FillDeadline(ticket[t].requestedAt)
    /\ h.phase = "expire" => FillDeadline(ticket[t].requestedAt) <= h.at

HandlersKnowTimes == \A w \in Workers, t \in Tickets : KnowsTimes(t, work[w][t])

OutcomeInvariant ==
    /\ AssignmentInvariant
    /\ RowsFollowStatus
    /\ MembersAreCounted
    /\ HandlersKnowTimes
    /\ RoomFillsExactlyOnce
    /\ OutboxTellsTheOutcome
    /\ OutcomeInTime

\* The columns a terminal transition writes and the ones it keeps.
LEMMA EndedFields ==
    ASSUME NEW row \in TicketRow, NEW s, NEW at
    PROVE  LET e == Ended(row, s, at)
           IN  /\ e.status = s /\ e.endedAt = at /\ e.token = 0 /\ e.claimedUntil = 0
               /\ e.version = row.version + 1 /\ e.requestedAt = row.requestedAt
  BY Zenon DEF Ended, TicketRow

\* The columns of a room that an assignment writes only when the room fills, and the
\* ones it never writes.
LEMMA JoinedTimes ==
    ASSUME NEW row \in RoomRow, NEW filled, NEW at
    PROVE  LET j == Joined(row, filled, at)
           IN  /\ j.createdAt = row.createdAt /\ j.fillDeadline = row.fillDeadline
               /\ j.filledAt = IF filled THEN at ELSE row.filledAt
  BY Zenon DEF Joined, RoomRow

-----------------------------------------------------------------------------
(***************************************************************************)
(* What a step may do to the tables.                                       *)
(***************************************************************************)
TicketEvent(t, v, type) == [aggregate |-> t, version |-> v, type |-> type]

AcceptEffect(t) ==
    /\ ticket[t].status = "none"
    /\ \E row \in TicketRow :
         /\ row.status = "queued" /\ row.version = 1
         /\ row.token = 0 /\ row.claimedUntil = 0
         /\ ticket' = [ticket EXCEPT ![t] = row]
    /\ outbox' = outbox \cup {TicketEvent(t, 1, "ticket.accepted")}
    /\ UNCHANGED <<room, membership, shadowWork>>

CancelEffect(t) ==
    /\ ticket[t].status = "queued"
    /\ ticket' = [ticket EXCEPT ![t] = Ended(ticket[t], "cancelled", clock)]
    /\ outbox' = outbox \cup {TicketEvent(t, ticket[t].version + 1, "ticket.cancelled")}
    /\ UNCHANGED <<room, membership, shadowWork>>

ExpireEffect(t, at) ==
    /\ ticket[t].status = "queued"
    /\ at \in Int
    /\ FillDeadline(ticket[t].requestedAt) <= at
    /\ ticket' = [ticket EXCEPT ![t] = Ended(ticket[t], "expired", at)]
    /\ outbox' = outbox \cup {TicketEvent(t, ticket[t].version + 1, "ticket.expired")}
    /\ UNCHANGED <<room, membership, shadowWork>>

\* Claims and retries: the life of every ticket stays as it is.
ScheduleEffect ==
    /\ \A t \in Tickets :
         /\ ticket'[t].status = ticket[t].status
         /\ ticket'[t].version = ticket[t].version
         /\ ticket'[t].requestedAt = ticket[t].requestedAt
         /\ ticket'[t].endedAt = ticket[t].endedAt
         /\ ticket[t].status # "queued" => ticket'[t] = ticket[t]
    /\ UNCHANGED <<room, membership, outbox, shadowWork>>

OpenEffect(r) ==
    /\ room[r].status = "none"
    /\ \E row \in RoomRow :
         /\ row.status = "forming" /\ row.version = 1
         /\ room' = [room EXCEPT ![r] = row]
    /\ UNCHANGED <<ticket, membership, outbox, shadowWork>>

\* The step is one of these, or AssignTicket, or leaves the tables alone.
LEMMA StepEffects ==
    ASSUME OutcomeInvariant, [Next]_vars
    PROVE  \/ \E t \in Tickets : AcceptEffect(t)
           \/ \E t \in Tickets : CancelEffect(t)
           \/ \E t \in Tickets, at \in Int : ExpireEffect(t, at)
           \/ ScheduleEffect
           \/ \E r \in Rooms : OpenEffect(r)
           \/ \E w \in Workers, t \in Tickets : Assign(w, t)
<1> DEFINE Goal == \/ \E t \in Tickets : AcceptEffect(t)
                   \/ \E t \in Tickets : CancelEffect(t)
                   \/ \E t \in Tickets, at \in Int : ExpireEffect(t, at)
                   \/ ScheduleEffect
                   \/ \E r \in Rooms : OpenEffect(r)
                   \/ \E w \in Workers, t \in Tickets : Assign(w, t)
<1>0. TypeOK
  BY DEF OutcomeInvariant, AssignmentInvariant
<1>1. ASSUME NEW t \in Tickets, Accept(t)
      PROVE  AcceptEffect(t)
  <2>1. PICK d \in RequestOffsets :
          ticket' = [ticket EXCEPT ![t] =
                      [NoTicket EXCEPT !.status = "queued", !.version = 1,
                                       !.requestedAt = clock + d,
                                       !.nextAttemptAt = clock + d]]
    BY <1>1 DEF Accept
  <2> DEFINE row == [NoTicket EXCEPT !.status = "queued", !.version = 1,
                                     !.requestedAt = clock + d,
                                     !.nextAttemptAt = clock + d]
  <2>2. clock + d \in Int /\ 1 \in Nat /\ "queued" \in TicketStatus
    BY <1>0, AssignmentAssumption DEF TicketStatus, TypeOK
  <2>3. row \in TicketRow
    BY <2>2, ConstantRecords, Zenon DEF TicketRow
  <2>4. row.status = "queued" /\ row.version = 1 /\ row.token = 0 /\ row.claimedUntil = 0
    BY Zenon DEF NoTicket
  <2>5. ticket' = [ticket EXCEPT ![t] = row]
    BY <2>1
  <2>6. /\ ticket[t].status = "none"
        /\ outbox' = outbox \cup {TicketEvent(t, 1, "ticket.accepted")}
        /\ UNCHANGED <<room, membership, shadowWork>>
    BY <1>1 DEF Accept, TicketEvent
  <2> HIDE DEF row
  <2>7. QED
    BY <2>3, <2>4, <2>5, <2>6 DEF AcceptEffect
<1>2. ASSUME NEW t \in Tickets, NEW c \in CancelCommands, Cancel(t, c)
      PROVE  CancelEffect(t)
  BY <1>2, Zenon DEF Cancel, Cancellable, CancelEffect, TicketEvent
<1>3. ASSUME NEW w \in Workers, NEW t \in Tickets, Expire(w, t)
      PROVE  ExpireEffect(t, work[w][t].at) /\ work[w][t].at \in Int
  <2>1. work[w][t].at \in Int
    BY <1>0 DEF TypeOK, Handler
  <2>2. FillDeadline(ticket[t].requestedAt) <= work[w][t].at
    BY <1>3 DEF Expire, OutcomeInvariant, HandlersKnowTimes, KnowsTimes
  <2>3. QED
    BY <1>3, <2>1, <2>2, Zenon DEF Expire, OwnsActiveClaim, ExpireEffect, TicketEvent
<1>4. ASSUME NEW w \in Workers, NEW t \in Tickets, ScheduleRetry(w, t)
      PROVE  ScheduleEffect
  <2> DEFINE row == [ticket[t] EXCEPT !.nextAttemptAt = work[w][t].retryAt,
                                      !.token = 0, !.claimedUntil = 0]
  <2>1. ticket[t] \in TicketRow
    BY <1>0 DEF TypeOK
  <2>2. /\ row.status = ticket[t].status /\ row.version = ticket[t].version
        /\ row.requestedAt = ticket[t].requestedAt /\ row.endedAt = ticket[t].endedAt
    BY <2>1, Zenon DEF TicketRow
  <2>3. /\ ticket' = [ticket EXCEPT ![t] = row] /\ ticket[t].status = "queued"
        /\ UNCHANGED <<room, membership, outbox, shadowWork>>
    BY <1>4, Zenon DEF ScheduleRetry, OwnsActiveClaim
  <2> HIDE DEF row
  <2>4. QED
    BY <1>0, <2>2, <2>3 DEF ScheduleEffect, TypeOK
<1>5. ASSUME NEW w \in Workers, Claim(w)
      PROVE  ScheduleEffect
  <2>1. PICK batch \in SUBSET Due(Now(w)) :
          ticket' = [t \in Tickets |->
               IF t \in batch
                 THEN [ticket[t] EXCEPT !.token = ticket[t].attempts + 1,
                                        !.attempts = ticket[t].attempts + 1,
                                        !.claimedUntil = Now(w) + LeaseDuration]
                 ELSE ticket[t]]
    BY <1>5 DEF Claim
  <2>2. \A t \in batch : ticket[t].status = "queued"
    BY DEF Due
  <2>3. ASSUME NEW t \in Tickets
        PROVE  LET row == [ticket[t] EXCEPT !.token = ticket[t].attempts + 1,
                                            !.attempts = ticket[t].attempts + 1,
                                            !.claimedUntil = Now(w) + LeaseDuration]
               IN  /\ row.status = ticket[t].status /\ row.version = ticket[t].version
                   /\ row.requestedAt = ticket[t].requestedAt
                   /\ row.endedAt = ticket[t].endedAt
    <3>1. ticket[t] \in TicketRow
      BY <1>0 DEF TypeOK
    <3>2. QED
      BY <3>1, Zenon DEF TicketRow
  <2>4. ASSUME NEW t \in Tickets
        PROVE  /\ ticket'[t].status = ticket[t].status
               /\ ticket'[t].version = ticket[t].version
               /\ ticket'[t].requestedAt = ticket[t].requestedAt
               /\ ticket'[t].endedAt = ticket[t].endedAt
               /\ ticket[t].status # "queued" => ticket'[t] = ticket[t]
    <3>1. CASE t \in batch
      BY <2>1, <2>2, <2>3, <3>1, Zenon
    <3>2. CASE t \notin batch
      BY <2>1, <3>2, Zenon
    <3>3. QED
      BY <3>1, <3>2
  <2>5. UNCHANGED <<room, membership, outbox, shadowWork>>
    BY <1>5 DEF Claim
  <2>6. QED
    BY <2>4, <2>5, Zenon DEF ScheduleEffect
<1>6. ASSUME NEW r \in Rooms, OpenRoom(r)
      PROVE  OpenEffect(r)
  <2> DEFINE row == [RoomUnborn EXCEPT !.status = "forming", !.version = 1,
                                       !.createdAt = clock,
                                       !.fillDeadline = clock + RoomWindow]
  <2>1. clock \in Int /\ clock + RoomWindow \in Int /\ 1 \in Nat
    BY <1>0, AssignmentAssumption, PolicyAssumption DEF TypeOK
  <2>2. row \in RoomRow
    BY <2>1, ConstantRecords, Zenon DEF RoomRow
  <2>3. row.status = "forming" /\ row.version = 1
    BY Zenon DEF RoomUnborn
  <2>4. /\ room[r].status = "none" /\ room' = [room EXCEPT ![r] = row]
        /\ UNCHANGED <<ticket, membership, outbox, shadowWork>>
    BY <1>6, Zenon DEF OpenRoom
  <2> HIDE DEF row
  <2>5. QED
    BY <2>2, <2>3, <2>4 DEF OpenEffect
<1>7. ASSUME UNCHANGED <<ticket, room, membership, outbox, shadowWork>>
      PROVE  ScheduleEffect
  BY <1>7 DEF ScheduleEffect
<1>8. ASSUME NEW w \in Workers, NEW t \in Tickets,
             LoadRooms(w, t) \/ Evaluate(w, t) \/ AssignStale(w, t) \/ ClaimLost(w, t)
               \/ StatementFails(w, t)
      PROVE  UNCHANGED <<ticket, room, membership, outbox, shadowWork>>
  BY <1>8, Zenon DEF LoadRooms, Evaluate, AssignStale, ClaimLost, StatementFails
<1>9. ASSUME \/ \E t \in Tickets, c \in CancelCommands : CancelAgain(t, c)
             \/ \E w \in Workers : Crash(w)
             \/ Tick \/ Done \/ UNCHANGED vars
      PROVE  UNCHANGED <<ticket, room, membership, outbox, shadowWork>>
  BY <1>9, Zenon DEF CancelAgain, Crash, Tick, Done, vars
<1>10. CASE \E w \in Workers, t \in Tickets : HandlerStep(w, t)
  BY <1>10, <1>3, <1>4, <1>7, <1>8, Zenon DEF HandlerStep
<1>11. QED
  BY <1>1, <1>2, <1>5, <1>6, <1>7, <1>8, <1>9, <1>10, Zenon DEF Next

\* What AssignTicket does to everything but the room's members and seats.
AssignTables(t, h) ==
    /\ h.room \in Rooms /\ h.at \in Int
    /\ ticket[t].status = "queued"
    /\ room[h.room].status = "forming"
    /\ h.at <= room[h.room].fillDeadline
    /\ Cardinality(MembersOf(h.room)) < Capacity
    /\ membership[t].room = NoRoom
    /\ ticket' = [ticket EXCEPT ![t] = Ended(ticket[t], "assigned", h.at)]
    /\ room' = [room EXCEPT ![h.room] = Joined(room[h.room], Fills(h.room), h.at)]
    /\ membership'[t].room = h.room
    /\ membership'[t].seat \in LowestFreeSeat(h.room)
    /\ membership'[t].assignedAt = h.at
    /\ membership'[t].roomVersion = room[h.room].version + 1
    /\ \A u \in Tickets \ {t} : membership'[u] = membership[u]
    /\ outbox' = outbox
         \cup {TicketEvent(t, ticket[t].version + 1, "ticket.assigned")}
         \cup (IF Fills(h.room)
                 THEN {TicketEvent(h.room, room[h.room].version + 1, "room.filled")}
                 ELSE {})
    /\ shadowWork' = IF Fills(h.room) THEN shadowWork \cup {<<h.room, h.at>>} ELSE shadowWork

LEMMA AssignDoes ==
    ASSUME OutcomeInvariant, NEW w \in Workers, NEW t \in Tickets, Assign(w, t)
    PROVE  AssignTables(t, work[w][t])
<1>0. TypeOK /\ work[w][t] \in Handler
  BY DEF OutcomeInvariant, AssignmentInvariant, TypeOK
<1>1. PICK h : h = work[w][t]
  OBVIOUS
<1>2. h.at \in Int
  BY <1>0, <1>1 DEF Handler
<1>3. /\ ticket[t].status = "queued" /\ h.room \in Rooms
      /\ room[h.room].status = "forming" /\ h.at <= room[h.room].fillDeadline
      /\ Cardinality(MembersOf(h.room)) < Capacity
  BY <1>1 DEF Assign, OwnsActiveClaim, RoomAvailable
<1>4. membership[t].room = NoRoom
  BY <1>3 DEF OutcomeInvariant, AssignmentInvariant, SeatedIffAssigned
<1>5. PICK s \in LowestFreeSeat(h.room) :
        membership' = [membership EXCEPT ![t] =
                         [room |-> h.room, seat |-> s, assignedAt |-> h.at,
                          roomVersion |-> room[h.room].version + 1,
                          scored |-> h.scored]]
  BY <1>1 DEF Assign
<1>6. /\ membership'[t].room = h.room /\ membership'[t].seat = s
      /\ membership'[t].assignedAt = h.at
      /\ membership'[t].roomVersion = room[h.room].version + 1
      /\ \A u \in Tickets \ {t} : membership'[u] = membership[u]
  BY <1>0, <1>5 DEF TypeOK
<1>7. /\ ticket' = [ticket EXCEPT ![t] = Ended(ticket[t], "assigned", h.at)]
      /\ room' = [room EXCEPT ![h.room] = Joined(room[h.room], Fills(h.room), h.at)]
      /\ outbox' = outbox
           \cup {TicketEvent(t, ticket[t].version + 1, "ticket.assigned")}
           \cup (IF Fills(h.room)
                   THEN {TicketEvent(h.room, room[h.room].version + 1, "room.filled")}
                   ELSE {})
      /\ shadowWork' = IF Fills(h.room) THEN shadowWork \cup {<<h.room, h.at>>} ELSE shadowWork
  BY <1>1, Zenon DEF Assign, TicketEvent
<1>8. AssignTables(t, h)
  BY <1>2, <1>3, <1>4, <1>5, <1>6, <1>7, Zenon DEF AssignTables
<1>9. QED
  BY <1>1, <1>8
\* Types and fields that every step lemma below needs.
LEMMA TablesTyped ==
    ASSUME OutcomeInvariant
    PROVE  /\ TypeOK
           /\ \A t \in Tickets : ticket[t] \in TicketRow /\ membership[t] \in MembershipRow
           /\ \A r \in Rooms : room[r] \in RoomRow
           /\ DOMAIN ticket = Tickets /\ DOMAIN room = Rooms
  BY DEF OutcomeInvariant, AssignmentInvariant, TypeOK

\* A request time and the times of a room are never rewritten.
LEMMA TimesStand ==
    ASSUME OutcomeInvariant, [Next]_vars
    PROVE  /\ \A t \in Tickets : ticket[t].status # "none" =>
                ticket'[t].status # "none" /\ ticket'[t].requestedAt = ticket[t].requestedAt
           /\ \A r \in Rooms : room[r].status # "none" =>
                /\ room'[r].status # "none"
                /\ room'[r].createdAt = room[r].createdAt
                /\ room'[r].fillDeadline = room[r].fillDeadline
<1> DEFINE TicketsStand == \A t \in Tickets : ticket[t].status # "none" =>
             ticket'[t].status # "none" /\ ticket'[t].requestedAt = ticket[t].requestedAt
           RoomsStand == \A r \in Rooms : room[r].status # "none" =>
             /\ room'[r].status # "none"
             /\ room'[r].createdAt = room[r].createdAt
             /\ room'[r].fillDeadline = room[r].fillDeadline
<1>0. /\ ticket \in [Tickets -> TicketRow] /\ room \in [Rooms -> RoomRow]
  BY TablesTyped DEF TypeOK
<1>1. ASSUME NEW t \in Tickets, AcceptEffect(t)
      PROVE  TicketsStand /\ RoomsStand
  BY <1>0, <1>1 DEF AcceptEffect
<1>2. ASSUME NEW t \in Tickets, NEW s, NEW at, s # "none",
             ticket' = [ticket EXCEPT ![t] = Ended(ticket[t], s, at)]
      PROVE  TicketsStand
  <2>1. Ended(ticket[t], s, at).status = s
          /\ Ended(ticket[t], s, at).requestedAt = ticket[t].requestedAt
    BY <1>0, EndedFields
  <2>2. QED
    BY <1>0, <1>2, <2>1
<1>3. ASSUME NEW t \in Tickets, CancelEffect(t)
      PROVE  TicketsStand /\ RoomsStand
  BY <1>2, <1>3 DEF CancelEffect
<1>4. ASSUME NEW t \in Tickets, NEW at \in Int, ExpireEffect(t, at)
      PROVE  TicketsStand /\ RoomsStand
  BY <1>2, <1>4 DEF ExpireEffect
<1>5. CASE ScheduleEffect
  BY <1>5 DEF ScheduleEffect
<1>6. ASSUME NEW r \in Rooms, OpenEffect(r)
      PROVE  TicketsStand /\ RoomsStand
  BY <1>0, <1>6 DEF OpenEffect
<1>7. ASSUME NEW w \in Workers, NEW t \in Tickets, Assign(w, t)
      PROVE  TicketsStand /\ RoomsStand
  <2>1. PICK h : AssignTables(t, h)
    BY <1>7, AssignDoes
  <2>2. TicketsStand
    BY <1>2, <2>1 DEF AssignTables
  <2>3. /\ h.room \in Rooms /\ room[h.room] \in RoomRow /\ room[h.room].status = "forming"
        /\ room' = [room EXCEPT ![h.room] = Joined(room[h.room], Fills(h.room), h.at)]
    BY <1>0, <2>1 DEF AssignTables
  <2>4. LET j == Joined(room[h.room], Fills(h.room), h.at)
        IN  /\ j.createdAt = room[h.room].createdAt
            /\ j.fillDeadline = room[h.room].fillDeadline
            /\ j.status # "none"
    BY <2>3, JoinedFields, JoinedTimes
  <2>5. RoomsStand
    BY <1>0, <2>3, <2>4
  <2>6. QED
    BY <2>2, <2>5
<1> HIDE DEF TicketsStand, RoomsStand
<1>8. TicketsStand /\ RoomsStand
  BY <1>1, <1>3, <1>4, <1>6, <1>7, StepEffects, <1>5 DEF TicketsStand, RoomsStand
<1>9. QED
  BY <1>8 DEF TicketsStand, RoomsStand

LEMMA RowsStep ==
    ASSUME OutcomeInvariant, [Next]_vars
    PROVE  RowsFollowStatus'
<1>0. ticket \in [Tickets -> TicketRow] /\ RowsFollowStatus
  BY TablesTyped DEF TypeOK, OutcomeInvariant
<1>1. ASSUME NEW t \in Tickets, NEW row, ticket' = [ticket EXCEPT ![t] = row],
             row.status = "none" => row.token = 0,
             row.status = "queued" => row.version = 1,
             row.status \in Terminal => row.token = 0 /\ row.claimedUntil = 0
      PROVE  RowsFollowStatus'
  BY <1>0, <1>1 DEF RowsFollowStatus
<1>2. ASSUME NEW t \in Tickets, AcceptEffect(t)
      PROVE  RowsFollowStatus'
  BY <1>1, <1>2 DEF AcceptEffect, Terminal
<1>3. ASSUME NEW t \in Tickets, NEW s \in Terminal, NEW at,
             ticket' = [ticket EXCEPT ![t] = Ended(ticket[t], s, at)]
      PROVE  RowsFollowStatus'
  <2>1. LET e == Ended(ticket[t], s, at)
        IN  e.status = s /\ e.token = 0 /\ e.claimedUntil = 0
    BY <1>0, EndedFields
  <2>2. QED
    BY <1>1, <1>3, <2>1 DEF Terminal
<1>4. ASSUME ScheduleEffect
      PROVE  RowsFollowStatus'
  BY <1>0, <1>4 DEF ScheduleEffect, RowsFollowStatus, Terminal
<1>5. ASSUME UNCHANGED ticket
      PROVE  RowsFollowStatus'
  BY <1>0, <1>5 DEF RowsFollowStatus
<1>6. "cancelled" \in Terminal /\ "expired" \in Terminal /\ "assigned" \in Terminal
  BY DEF Terminal
<1>7. ASSUME NEW w \in Workers, NEW t \in Tickets, Assign(w, t)
      PROVE  RowsFollowStatus'
  BY <1>3, <1>6, <1>7, AssignDoes DEF AssignTables
<1>8. QED
  BY <1>2, <1>3, <1>4, <1>5, <1>6, <1>7, StepEffects
     DEF CancelEffect, ExpireEffect, OpenEffect

\* What a step makes a handler know of times: what it knew, nothing, or what it has just
\* found out.
TimesFresh(w, t) ==
    \/ work'[w][t] = work[w][t]
    \/ work'[w][t].phase = "idle"
    \/ work'[w][t].phase \in {"claimed", "retry", "failed"} /\ ticket[t].status # "none"
    \/ KnowsTimes(t, work'[w][t])

LEMMA LoadKnows ==
    ASSUME OutcomeInvariant, NEW w \in Workers, NEW t \in Tickets, LoadRooms(w, t)
    PROVE  KnowsTimes(t, work'[w][t])
<1>0. TypeOK /\ work[w][t] \in Handler
  BY TablesTyped DEF TypeOK
<1>1. PICK L \in OldestRooms(CompatibleRooms(work[w][t].at), RoomLimit) :
        Goes(w, t, [work[w][t] EXCEPT !.phase = "loaded",
                      !.views = {[id |-> r, version |-> room[r].version,
                                  createdAt |-> room[r].createdAt,
                                  deadline |-> room[r].fillDeadline,
                                  members |-> {}] : r \in L}])
  BY DEF LoadRooms
<1> DEFINE V == {[id |-> r, version |-> room[r].version,
                  createdAt |-> room[r].createdAt,
                  deadline |-> room[r].fillDeadline,
                  members |-> {}] : r \in L}
           g == [work[w][t] EXCEPT !.phase = "loaded", !.views = V]
<1>2. \A r \in L : room[r].status = "forming"
  BY DEF OldestRooms, CompatibleRooms
<1>3. \A v \in V : room[v.id].status # "none" /\ v.createdAt = room[v.id].createdAt
  BY <1>2
<1>4. ticket[t].status # "none"
  BY DEF LoadRooms, OutcomeInvariant, HandlersKnowTimes, KnowsTimes
<1> HIDE DEF V
<1>5. g.phase = "loaded" /\ g.views = V
  BY <1>0, Zenon DEF Handler
<1>6. work'[w][t] = g
  BY <1>0, <1>1, GoesOthers DEF V
<1> HIDE DEF g
<1>7. QED
  BY <1>3, <1>4, <1>5, <1>6 DEF KnowsTimes

LEMMA EvaluateKnows ==
    ASSUME OutcomeInvariant, NEW w \in Workers, NEW t \in Tickets, Evaluate(w, t)
    PROVE  \/ work'[w][t].phase \in {"retry", "failed"} /\ ticket[t].status # "none"
           \/ KnowsTimes(t, work'[w][t])
<1>0. TypeOK /\ work[w][t] \in Handler /\ ticket[t] \in TicketRow
  BY TablesTyped DEF TypeOK
<1>1. PICK h : h = work[w][t]
  OBVIOUS
<1> DEFINE views == WithMembers(h.views)
           next  == [h EXCEPT !.views = {}]
           joined == ticket[t].requestedAt
<1>2. /\ h \in Handler /\ h.views \subseteq RoomView /\ h.at \in Int /\ joined \in Int
      /\ ticket[t].status # "none"
      /\ \A v \in h.views : room[v.id].status # "none" /\ v.createdAt = room[v.id].createdAt
  BY <1>0, <1>1 DEF Handler, TicketRow, Evaluate, OutcomeInvariant, HandlersKnowTimes, KnowsTimes
<1>3. next \in Handler
  BY <1>2, Zenon DEF Handler
<1>4. CASE Goes(w, t, Failed(w, h))
  <2>1. Failed(w, h).phase = "failed"
    BY Zenon DEF Failed, Idle
  <2>2. QED
    BY <1>0, <1>2, <1>4, <2>1, GoesOthers
<1>5. ASSUME NEW v \in Matches(views, t, joined, h.at),
             ~AttemptFails(views, t, h.at, Snapshots),
             Goes(w, t, [next EXCEPT !.phase = "assign", !.room = v.id,
                                     !.version = v.version, !.scored = v.members])
      PROVE  KnowsTimes(t, work'[w][t])
  <2> DEFINE g == [next EXCEPT !.phase = "assign", !.room = v.id,
                               !.version = v.version, !.scored = v.members]
  <2>1. v \in views /\ ~(h.at > FillDeadline(joined))
    BY <1>5 DEF Matches, Selectable
  <2>2. PICK u \in h.views : v = [u EXCEPT !.members = MembersOf(u.id)]
    BY <2>1 DEF WithMembers
  <2>3. u \in RoomView
    BY <1>2
  <2>4. v.id = u.id /\ v.createdAt = u.createdAt /\ u.id \in Rooms /\ u.createdAt \in Int
    BY <2>2, <2>3, Zenon DEF RoomView
  <2>5. ~(h.at < Snapshots[t]) /\ ~(h.at < v.createdAt) /\ Snapshots[t] = joined
    <3>1. Snapshots[t] = joined
      BY DEF Snapshots
    <3>2. ~(h.at < Snapshots[t]) /\ ~(h.at < v.createdAt)
      <4> HIDE DEF views, joined
      <4> QED BY <1>5, <2>1, Zenon DEF AttemptFails
    <3>3. QED
      BY <3>1, <3>2
  <2>6. FillDeadline(joined) \in Int
    BY <1>2, PolicyAssumption DEF FillDeadline
  <2>7. /\ room[v.id].status # "none" /\ room[v.id].createdAt <= h.at
        /\ joined <= h.at /\ h.at <= FillDeadline(joined)
    <3>1. room[v.id].status # "none" /\ room[v.id].createdAt = v.createdAt /\ v.createdAt \in Int
      BY <1>2, <2>4
    <3> HIDE DEF joined, views
    <3>2. QED
      BY <1>2, <2>1, <2>5, <2>6, <3>1
  <2>8. g.phase = "assign" /\ g.room = v.id /\ g.at = h.at
    <3>1. next.at = h.at
      BY <1>2, Zenon DEF Handler
    <3> HIDE DEF next
    <3>2. QED
      BY <1>3, <3>1, Zenon DEF Handler
  <2>9. work'[w][t] = g
    <3> HIDE DEF g
    <3> QED BY <1>0, <1>5, GoesOthers DEF g
  <2> HIDE DEF g, views
  <2>10. QED
    BY <1>2, <2>7, <2>8, <2>9 DEF KnowsTimes
<1>6. ASSUME TimedOut(views, t, joined, h.at), Goes(w, t, [next EXCEPT !.phase = "expire"])
      PROVE  KnowsTimes(t, work'[w][t])
  <2> DEFINE g == [next EXCEPT !.phase = "expire"]
  <2>1. g.phase = "expire" /\ g.at = h.at
    <3>1. next.at = h.at
      BY <1>2, Zenon DEF Handler
    <3> HIDE DEF next
    <3>2. QED
      BY <1>3, <3>1, Zenon DEF Handler
  <2>2. work'[w][t] = g
    <3> HIDE DEF g
    <3> QED BY <1>0, <1>6, GoesOthers DEF g
  <2>3. FillDeadline(joined) <= h.at
    BY <1>2, <1>6, PolicyAssumption DEF TimedOut, FillDeadline
  <2> HIDE DEF g
  <2>4. QED
    BY <1>2, <2>1, <2>2, <2>3 DEF KnowsTimes
<1>7. ASSUME NEW b, Goes(w, t, [next EXCEPT !.phase = "retry", !.retryAt = b])
      PROVE  work'[w][t].phase = "retry"
  <2> DEFINE g == [next EXCEPT !.phase = "retry", !.retryAt = b]
  <2>1. g.phase = "retry"
    <3> HIDE DEF next
    <3> QED BY <1>3, Zenon DEF Handler
  <2>2. work'[w][t] = g
    <3> HIDE DEF g
    <3> QED BY <1>0, <1>7, GoesOthers DEF g
  <2>3. QED
    BY <2>1, <2>2
<1>8. \/ Goes(w, t, Failed(w, h))
      \/ /\ ~AttemptFails(views, t, h.at, Snapshots)
         /\ \E v \in Matches(views, t, joined, h.at) :
              Goes(w, t, [next EXCEPT !.phase = "assign", !.room = v.id,
                                      !.version = v.version, !.scored = v.members])
      \/ TimedOut(views, t, joined, h.at) /\ Goes(w, t, [next EXCEPT !.phase = "expire"])
      \/ \E b : Goes(w, t, [next EXCEPT !.phase = "retry", !.retryAt = b])
  BY <1>1, Zenon DEF Evaluate
<1>9. QED
  BY <1>2, <1>4, <1>5, <1>6, <1>7, <1>8
LEMMA TimesFreshStep ==
    ASSUME OutcomeInvariant, [Next]_vars, NEW v \in Workers, NEW u \in Tickets
    PROVE  TimesFresh(v, u)
<1>0. TypeOK /\ \A w \in Workers, t \in Tickets :
                  work[w][t].phase # "idle" => ticket[t].status # "none"
  BY TablesTyped DEF OutcomeInvariant, HandlersKnowTimes, KnowsTimes
<1>1. CASE UNCHANGED work
  BY <1>1 DEF TimesFresh
<1>2. Idle.phase = "idle"
  BY DEF Idle
<1>3. ASSUME NEW w \in Workers, NEW t \in Tickets, Stops(w, t)
      PROVE  TimesFresh(v, u)
  BY <1>0, <1>2, <1>3, GoesOthers DEF Stops, TimesFresh
<1>4. ASSUME NEW w \in Workers, NEW t \in Tickets, work[w][t].phase # "idle",
             NEW h, h.phase \in {"retry", "failed"}, Goes(w, t, h)
      PROVE  TimesFresh(v, u)
  BY <1>0, <1>4, GoesOthers DEF TimesFresh
<1>5. ASSUME NEW w \in Workers, NEW t \in Tickets, work[w][t].phase # "idle",
             Goes(w, t, Failed(w, work[w][t]))
      PROVE  TimesFresh(v, u)
  <2>1. Failed(w, work[w][t]).phase = "failed"
    BY Zenon DEF Failed, Idle
  <2>2. QED
    BY <1>4, <1>5, <2>1
<1>6. ASSUME NEW w \in Workers, Claim(w)
      PROVE  TimesFresh(v, u)
  <2>1. PICK batch \in SUBSET Due(Now(w)) :
          work' = [work EXCEPT ![w] = [t \in Tickets |->
               IF t \in batch
                 THEN [Idle EXCEPT !.phase = "claimed", !.at = Now(w),
                                   !.token = ticket[t].attempts + 1]
                 ELSE Idle]]
    BY <1>6 DEF Claim
  <2>2. [Idle EXCEPT !.phase = "claimed", !.at = Now(w),
                     !.token = ticket[u].attempts + 1].phase = "claimed"
    BY Zenon DEF Idle
  <2>3. CASE v = w
    <3>1. work'[v][u] = IF u \in batch
                          THEN [Idle EXCEPT !.phase = "claimed", !.at = Now(w),
                                            !.token = ticket[u].attempts + 1]
                          ELSE Idle
      BY <1>0, <2>1, <2>3, Zenon DEF TypeOK
    <3>2. CASE u \in batch
      <4>1. ticket[u].status = "queued"
        BY <3>2 DEF Due
      <4>2. work'[v][u].phase = "claimed"
        BY <2>2, <3>1, <3>2, Zenon
      <4>3. QED
        BY <4>1, <4>2 DEF TimesFresh
    <3>3. CASE u \notin batch
      BY <1>2, <3>1, <3>3 DEF TimesFresh
    <3>4. QED
      BY <3>2, <3>3
  <2>4. CASE v # w
    BY <1>0, <2>1, <2>4, Zenon DEF TypeOK, TimesFresh
  <2>5. QED
    BY <2>3, <2>4
<1>7. ASSUME NEW w \in Workers, Crash(w)
      PROVE  TimesFresh(v, u)
  BY <1>0, <1>2, <1>7 DEF Crash, TypeOK, TimesFresh
<1>8. ASSUME NEW w \in Workers, NEW t \in Tickets, LoadRooms(w, t)
      PROVE  TimesFresh(v, u)
  <2>1. \E h : Goes(w, t, h)
    BY <1>8, Zenon DEF LoadRooms
  <2>2. QED
    BY <1>0, <1>8, <2>1, LoadKnows, GoesOthers DEF TimesFresh
<1>9. ASSUME NEW w \in Workers, NEW t \in Tickets, Evaluate(w, t)
      PROVE  TimesFresh(v, u)
  <2>1. \E h : Goes(w, t, h)
    BY <1>9, Zenon DEF Evaluate
  <2>2. QED
    BY <1>0, <1>9, <2>1, EvaluateKnows, GoesOthers DEF TimesFresh
<1>10. ASSUME NEW w \in Workers, NEW t \in Tickets, AssignStale(w, t)
       PROVE  TimesFresh(v, u)
  <2> DEFINE g == [Idle EXCEPT !.phase = "retry", !.token = work[w][t].token,
                               !.at = work[w][t].at,
                               !.retryAt = work[w][t].at + StaleRetryDelay]
  <2>1. g.phase = "retry"
    BY Zenon DEF Idle
  <2>2. Goes(w, t, g) /\ work[w][t].phase # "idle"
    BY <1>10 DEF AssignStale
  <2> HIDE DEF g
  <2>3. QED
    BY <1>4, <2>1, <2>2
<1>11. ASSUME NEW w \in Workers, NEW t \in Tickets,
              Assign(w, t) \/ Expire(w, t) \/ ScheduleRetry(w, t) \/ ClaimLost(w, t)
                \/ StatementFails(w, t)
       PROVE  /\ Stops(w, t) \/ Goes(w, t, Failed(w, work[w][t]))
              /\ work[w][t].phase # "idle"
  <2>1. Stops(w, t) \/ Goes(w, t, Failed(w, work[w][t]))
    BY <1>11, Zenon
       DEF Assign, Expire, ScheduleRetry, ClaimLost, StatementFails, AfterCommit
  <2>2. work[w][t].phase # "idle"
    BY <1>11 DEF Assign, Expire, ScheduleRetry, ClaimLost, StatementFails
  <2>3. QED
    BY <2>1, <2>2
<1>12. ASSUME \/ \E t \in Tickets : Accept(t)
              \/ \E t \in Tickets, c \in CancelCommands : Cancel(t, c) \/ CancelAgain(t, c)
              \/ \E r \in Rooms : OpenRoom(r)
              \/ Tick \/ Done \/ UNCHANGED vars
       PROVE  UNCHANGED work
  BY <1>12, Zenon DEF Accept, Cancel, CancelAgain, OpenRoom, Tick, Done, vars
<1>13. QED
  BY <1>1, <1>3, <1>5, <1>6, <1>7, <1>8, <1>9, <1>10, <1>11, <1>12, Zenon
     DEF Next, HandlerStep

LEMMA TimesStep ==
    ASSUME OutcomeInvariant, [Next]_vars
    PROVE  HandlersKnowTimes'
<1> SUFFICES ASSUME NEW w \in Workers, NEW t \in Tickets
             PROVE  KnowsTimes(t, work[w][t])'
  BY DEF HandlersKnowTimes
<1>0. TypeOK /\ KnowsTimes(t, work[w][t]) /\ work'[w][t] \in Handler
  BY TablesTyped, TypeStep DEF OutcomeInvariant, HandlersKnowTimes, TypeOK
<1>1. PICK h : h = work'[w][t]
  OBVIOUS
<1>2. CASE KnowsTimes(t, h) /\ h.phase # "idle"
  <2>1. /\ ticket[t].status # "none"
        /\ ticket'[t].status # "none" /\ ticket'[t].requestedAt = ticket[t].requestedAt
    BY <1>2, TimesStand DEF KnowsTimes
  <2>2. h.phase = "loaded" => h.views \subseteq RoomView
    BY <1>0, <1>1 DEF Handler
  <2>3. h.phase = "loaded" =>
          \A x \in h.views : room'[x.id].status # "none" /\ x.createdAt = room'[x.id].createdAt
    BY <1>2, <2>2, TimesStand DEF KnowsTimes, RoomView
  <2>4. h.phase = "assign" =>
          /\ room'[h.room].status # "none"
          /\ room'[h.room].createdAt <= h.at
    <3>1. ASSUME h.phase = "assign"
          PROVE  h.room \in Rooms
      <4>1. ReadsAreOld'
        BY ReadsAreOldStep DEF OutcomeInvariant
      <4>2. QED
        BY <1>1, <3>1, <4>1 DEF ReadsAreOld, ReadIsOld
    <3>2. QED
      BY <1>2, <3>1, TimesStand DEF KnowsTimes
  <2>5. QED
    BY <1>1, <1>2, <2>1, <2>3, <2>4 DEF KnowsTimes
<1>3. CASE h.phase = "idle"
  BY <1>1, <1>3 DEF KnowsTimes
<1>4. CASE h.phase \in {"claimed", "retry", "failed"} /\ ticket[t].status # "none"
  <2>1. ticket'[t].status # "none"
    BY <1>4, TimesStand
  <2>2. QED
    BY <1>1, <1>4, <2>1 DEF KnowsTimes
<1>5. QED
  BY <1>0, <1>1, <1>2, <1>3, <1>4, TimesFreshStep DEF TimesFresh

\* The members of the rooms after an assignment.
LEMMA MembersAfterAssign ==
    ASSUME OutcomeInvariant, NEW t \in Tickets, NEW h, AssignTables(t, h)
    PROVE  /\ MembersOf(h.room)' = MembersOf(h.room) \cup {t}
           /\ t \notin MembersOf(h.room)
           /\ \A q \in Rooms \ {h.room} : MembersOf(q)' = MembersOf(q)
<1>1. /\ membership[t].room = NoRoom /\ membership'[t].room = h.room /\ h.room \in Rooms
      /\ \A u \in Tickets \ {t} : membership'[u] = membership[u]
      /\ NoRoom \notin Rooms
  BY AssignmentAssumption DEF AssignTables
<1>2. ASSUME NEW q \in Rooms, NEW u \in Tickets
      PROVE  (membership'[u].room = q) <=> (membership[u].room = q \/ (u = t /\ q = h.room))
  BY <1>1
<1>3. \A q \in Rooms : MembersOf(q)' =
        {u \in Tickets : membership[u].room = q \/ (u = t /\ q = h.room)}
  BY <1>2 DEF MembersOf
<1>4. QED
  BY <1>1, <1>3 DEF MembersOf

LEMMA CountedStep ==
    ASSUME OutcomeInvariant, [Next]_vars
    PROVE  MembersAreCounted'
<1>0. MembersAreCounted /\ room \in [Rooms -> RoomRow]
  BY TablesTyped DEF OutcomeInvariant, TypeOK
<1>1. ASSUME NEW w \in Workers, NEW t \in Tickets, Assign(w, t)
      PROVE  MembersAreCounted'
  <2>1. PICK h : AssignTables(t, h)
    BY <1>1, AssignDoes
  <2>2. IsFiniteSet(MembersOf(h.room) \cup {t})
    BY <1>0, <2>1, FS_AddElement DEF MembersAreCounted, AssignTables
  <2>3. h.room \in Rooms /\ room'[h.room].status # "none"
    BY <2>1, TimesStand DEF AssignTables
  <2>4. \A q \in Rooms \ {h.room} : room'[q] = room[q]
    BY <1>0, <2>1 DEF AssignTables
  <2>5. MembersOf(h.room)' = MembersOf(h.room) \cup {t}
    BY <2>1, MembersAfterAssign
  <2>6. ASSUME NEW q \in Rooms
        PROVE  IsFiniteSet(MembersOf(q))' /\ (room'[q].status = "none" => MembersOf(q)' = {})
    <3>1. CASE q = h.room
      BY <2>2, <2>3, <2>5, <3>1 DEF MembersOf
    <3>2. CASE q # h.room
      <4>1. MembersOf(q)' = MembersOf(q)
        BY <2>1, <3>2, MembersAfterAssign
      <4>2. QED
        BY <1>0, <2>4, <3>2, <4>1 DEF MembersAreCounted
    <3>3. QED
      BY <3>1, <3>2
  <2>7. QED
    BY <2>6 DEF MembersAreCounted
<1>2. ASSUME UNCHANGED <<room, membership>>
      PROVE  MembersAreCounted'
  BY <1>0, <1>2 DEF MembersAreCounted, MembersOf
<1>3. ASSUME NEW r \in Rooms, OpenEffect(r)
      PROVE  MembersAreCounted'
  BY <1>0, <1>3 DEF MembersAreCounted, MembersOf, OpenEffect
<1>4. QED
  BY <1>1, <1>2, <1>3, StepEffects DEF AcceptEffect, CancelEffect, ExpireEffect, ScheduleEffect

\* The seat AssignTicket gives is the one after the seats that are taken.
LEMMA NextSeat ==
    ASSUME NEW r, NEW n \in Nat, n < Capacity,
           {membership[t].seat : t \in MembersOf(r)} = 1 .. n,
           NEW s \in LowestFreeSeat(r)
    PROVE  s = n + 1
<1>1. FreeSeats(r) = {k \in 1 .. Capacity : k \notin 1 .. n}
  BY DEF FreeSeats
<1>2. Capacity \in Nat
  BY PolicyAssumption
<1>3. n + 1 \in FreeSeats(r) /\ \A k \in FreeSeats(r) : k \in Int /\ k >= n + 1
  BY <1>1, <1>2
<1>4. s \in FreeSeats(r) /\ s <= n + 1
  BY <1>3 DEF LowestFreeSeat
<1>5. QED
  BY <1>3, <1>4

\* The part of RoomFillsExactlyOnce about one room.
FillsOnce(r) ==
    LET n == Cardinality(MembersOf(r))
    IN  /\ {membership[t].seat : t \in MembersOf(r)} = 1..n
        /\ room[r].status # "none" => room[r].version = n + 1
        /\ (room[r].status = "collecting") <=> (n = Capacity)
        /\ room[r].status = "collecting" =>
             /\ \E t \in MembersOf(r) :
                  /\ membership[t].roomVersion = room[r].version
                  /\ room[r].filledAt = membership[t].assignedAt
             /\ room[r].filledAt <= room[r].fillDeadline

LEMMA AssignFills ==
    ASSUME OutcomeInvariant, NEW t \in Tickets, NEW h, AssignTables(t, h), NEW r, r = h.room
    PROVE  FillsOnce(r)'
<1> DEFINE n == Cardinality(MembersOf(r))
<1>1. /\ r \in Rooms /\ h.at \in Int /\ room[r] \in RoomRow
      /\ room[r].status = "forming" /\ h.at <= room[r].fillDeadline
      /\ n < Capacity
      /\ room' = [room EXCEPT ![r] = Joined(room[r], Fills(r), h.at)]
      /\ membership'[t].seat \in LowestFreeSeat(r) /\ membership'[t].assignedAt = h.at
      /\ membership'[t].roomVersion = room[r].version + 1
      /\ \A u \in Tickets \ {t} : membership'[u] = membership[u]
  BY TablesTyped DEF AssignTables
<1>2. /\ IsFiniteSet(MembersOf(r)) /\ FillsOnce(r)
  BY <1>1 DEF OutcomeInvariant, MembersAreCounted, RoomFillsExactlyOnce, FillsOnce
<1>3. n \in Nat /\ Capacity \in Nat
  BY <1>2, FS_CardinalityType, PolicyAssumption
<1>4. /\ {membership[u].seat : u \in MembersOf(r)} = 1 .. n
      /\ room[r].version = n + 1
  BY <1>1, <1>2 DEF FillsOnce
<1>5. /\ MembersOf(r)' = MembersOf(r) \cup {t} /\ t \notin MembersOf(r)
  BY MembersAfterAssign
<1>6. Cardinality(MembersOf(r) \cup {t}) = n + 1
  BY <1>2, <1>5, FS_AddElement
<1>7. Fills(r) <=> (n + 1 = Capacity)
  BY DEF Fills
<1>8. /\ room'[r].version = room[r].version + 1
      /\ room'[r].status = IF Fills(r) THEN "collecting" ELSE "forming"
      /\ room'[r].fillDeadline = room[r].fillDeadline
      /\ room'[r].filledAt = IF Fills(r) THEN h.at ELSE room[r].filledAt
  <2>1. room'[r] = Joined(room[r], Fills(r), h.at)
    BY <1>1, TablesTyped
  <2>2. QED
    BY <1>1, <2>1, JoinedFields, JoinedTimes
<1> DEFINE M == MembersOf(r)
<1> HIDE DEF n, M
<1>9. membership'[t].seat = n + 1
  BY <1>1, <1>3, <1>4, NextSeat
<1>10. \A u \in M : membership'[u] = membership[u]
  BY <1>1, <1>5 DEF M, MembersOf
<1>11. {membership'[u].seat : u \in M \cup {t}} = 1 .. n + 1
  <2>1. {membership'[u].seat : u \in M \cup {t}} = {membership[u].seat : u \in M} \cup {n + 1}
    BY <1>9, <1>10
  <2>2. 1 .. n + 1 = 1 .. n \cup {n + 1}
    BY <1>3
  <2>3. QED
    BY <1>4, <2>1, <2>2 DEF M
<1>12. MembersOf(r)' = M \cup {t} /\ Cardinality(M \cup {t}) = n + 1
  BY <1>5, <1>6 DEF M
<1>13. room'[r].version = (n + 1) + 1
  BY <1>4, <1>8
<1>14. (room'[r].status = "collecting") <=> (n + 1 = Capacity)
  BY <1>7, <1>8
<1>15. room'[r].status = "collecting" =>
         /\ membership'[t].roomVersion = room'[r].version
         /\ room'[r].filledAt = membership'[t].assignedAt
         /\ room'[r].filledAt <= room'[r].fillDeadline
  BY <1>1, <1>8
<1>16. FillsOnce(r)'
  BY <1>11, <1>12, <1>13, <1>14, <1>15 DEF FillsOnce
<1>17. QED
  BY <1>16

LEMMA FillsStep ==
    ASSUME OutcomeInvariant, [Next]_vars
    PROVE  RoomFillsExactlyOnce'
<1> SUFFICES ASSUME NEW q \in Rooms
             PROVE  FillsOnce(q)'
  BY DEF RoomFillsExactlyOnce, FillsOnce
<1>0. FillsOnce(q) /\ MembersAreCounted /\ room \in [Rooms -> RoomRow]
  BY TablesTyped DEF OutcomeInvariant, RoomFillsExactlyOnce, FillsOnce, TypeOK
<1>1. ASSUME UNCHANGED membership, room'[q] = room[q]
      PROVE  FillsOnce(q)'
  BY <1>0, <1>1 DEF FillsOnce, MembersOf
<1>2. ASSUME NEW r \in Rooms, OpenEffect(r)
      PROVE  FillsOnce(q)'
  <2>1. CASE q # r
    BY <1>0, <1>1, <1>2, <2>1 DEF OpenEffect
  <2>2. CASE q = r
    <3>1. MembersOf(q) = {} /\ UNCHANGED membership /\ room'[q].status = "forming"
            /\ room'[q].version = 1
      BY <1>0, <1>2, <2>2 DEF OpenEffect, MembersAreCounted
    <3>2. MembersOf(q)' = {} /\ Cardinality({}) = 0
      BY <3>1, FS_EmptySet DEF MembersOf
    <3>3. QED
      BY <3>1, <3>2, PolicyAssumption DEF FillsOnce
  <2>3. QED
    BY <2>1, <2>2
<1>3. ASSUME NEW w \in Workers, NEW t \in Tickets, Assign(w, t)
      PROVE  FillsOnce(q)'
  <2>1. PICK h : AssignTables(t, h)
    BY <1>3, AssignDoes
  <2>2. CASE q = h.room
    BY <2>1, <2>2, AssignFills
  <2>3. CASE q # h.room
    <3>1. MembersOf(q)' = MembersOf(q) /\ t \notin MembersOf(q) /\ room'[q] = room[q]
            /\ \A u \in MembersOf(q) : membership'[u] = membership[u]
      <4>1. /\ membership[t].room = NoRoom /\ NoRoom \notin Rooms
            /\ \A u \in Tickets \ {t} : membership'[u] = membership[u]
            /\ room'[q] = room[q]
        BY <1>0, <2>1, <2>3, AssignmentAssumption DEF AssignTables
      <4>2. MembersOf(q)' = MembersOf(q)
        BY <2>1, <2>3, MembersAfterAssign
      <4>3. t \notin MembersOf(q) /\ \A u \in MembersOf(q) : membership'[u] = membership[u]
        BY <4>1 DEF MembersOf
      <4>4. QED
        BY <4>1, <4>2, <4>3
    <3>2. {membership'[u].seat : u \in MembersOf(q)} = {membership[u].seat : u \in MembersOf(q)}
      BY <3>1
    <3>3. QED
      BY <1>0, <3>1, <3>2 DEF FillsOnce
  <2>4. QED
    BY <2>2, <2>3
<1>4. QED
  BY <1>1, <1>2, <1>3, StepEffects DEF AcceptEffect, CancelEffect, ExpireEffect, ScheduleEffect

-----------------------------------------------------------------------------
(***************************************************************************)
(* The outbox.                                                             *)
(***************************************************************************)

\* The events of a ticket with this status, and the events and the shadow work of a room.
StoryOfTicket(t, status) ==
    (IF status = "none" THEN {} ELSE {TicketEvent(t, 1, "ticket.accepted")})
      \cup (IF status = "assigned" THEN {TicketEvent(t, 2, "ticket.assigned")} ELSE {})
      \cup (IF status = "cancelled" THEN {TicketEvent(t, 2, "ticket.cancelled")} ELSE {})
      \cup (IF status = "expired" THEN {TicketEvent(t, 2, "ticket.expired")} ELSE {})

StoryOfRoom(r, row) ==
    IF row.status = "collecting" THEN {TicketEvent(r, row.version, "room.filled")} ELSE {}

WorkOfRoom(r, row) ==
    IF row.status = "collecting" THEN {<<r, row.filledAt>>} ELSE {}

Told(events, x) == {e \in events : e.aggregate = x}

Queued(items, r) == {x \in items : x[1] = r}

LEMMA StoryIsEvents ==
    ASSUME NEW t \in Tickets, ticket[t].status \in TicketStatus
    PROVE  EventsOfTicket(t) = StoryOfTicket(t, ticket[t].status)
<1>1. CASE ticket[t].status = "none"
  BY <1>1 DEF EventsOfTicket, StoryOfTicket, TicketEvent
<1>2. CASE ticket[t].status = "queued"
  BY <1>2 DEF EventsOfTicket, StoryOfTicket, TicketEvent
<1>3. CASE ticket[t].status = "assigned"
  BY <1>3 DEF EventsOfTicket, StoryOfTicket, TicketEvent
<1>4. CASE ticket[t].status = "cancelled"
  BY <1>4 DEF EventsOfTicket, StoryOfTicket, TicketEvent
<1>5. CASE ticket[t].status = "expired"
  BY <1>5 DEF EventsOfTicket, StoryOfTicket, TicketEvent
<1>6. QED
  BY <1>1, <1>2, <1>3, <1>4, <1>5 DEF TicketStatus

\* The property in these terms.
StoriesAreTold ==
    /\ \A t \in Tickets : Told(outbox, t) = StoryOfTicket(t, ticket[t].status)
    /\ \A r \in Rooms : /\ Told(outbox, r) = StoryOfRoom(r, room[r])
                        /\ Queued(shadowWork, r) = WorkOfRoom(r, room[r])

LEMMA OutboxRestated == TypeOK => (OutboxTellsTheOutcome <=> StoriesAreTold)
<1> SUFFICES ASSUME TypeOK
             PROVE  OutboxTellsTheOutcome <=> StoriesAreTold
  OBVIOUS
<1>1. \A t \in Tickets : ticket[t].status \in TicketStatus
  BY DEF TypeOK, TicketRow
<1>2. \A t \in Tickets : EventsOfTicket(t) = StoryOfTicket(t, ticket[t].status)
  BY <1>1, StoryIsEvents
<1>3. \A r \in Rooms : EventsOfRoom(r) = StoryOfRoom(r, room[r])
  BY DEF EventsOfRoom, StoryOfRoom, TicketEvent
<1>4. QED
  BY <1>2, <1>3, Zenon DEF OutboxTellsTheOutcome, StoriesAreTold, Told, Queued, WorkOfRoom

\* An event of a ticket changes the story of that ticket and nothing else.
LEMMA TicketTold ==
    ASSUME OutcomeInvariant, TypeOK', NEW t \in Tickets, NEW v, NEW type,
           outbox' = outbox \cup {TicketEvent(t, v, type)},
           UNCHANGED <<room, shadowWork>>,
           \A u \in Tickets \ {t} : ticket'[u] = ticket[u],
           StoryOfTicket(t, ticket'[t].status) =
             StoryOfTicket(t, ticket[t].status) \cup {TicketEvent(t, v, type)}
    PROVE  OutboxTellsTheOutcome'
<1>1. /\ \A u \in Tickets : Told(outbox, u) = StoryOfTicket(u, ticket[u].status)
      /\ \A r \in Rooms : /\ Told(outbox, r) = StoryOfRoom(r, room[r])
                          /\ Queued(shadowWork, r) = WorkOfRoom(r, room[r])
  BY TablesTyped, OutboxRestated DEF OutcomeInvariant, StoriesAreTold
<1>2. \A x : Told(outbox', x) =
               IF x = t THEN Told(outbox, x) \cup {TicketEvent(t, v, type)} ELSE Told(outbox, x)
  BY DEF Told, TicketEvent
<1>3. \A u \in Tickets : Told(outbox', u) = StoryOfTicket(u, ticket'[u].status)
  BY <1>1, <1>2
<1>4. \A r \in Rooms : r # t
  BY AssignmentAssumption
<1>5. \A r \in Rooms : /\ Told(outbox', r) = StoryOfRoom(r, room'[r])
                       /\ Queued(shadowWork', r) = WorkOfRoom(r, room'[r])
  BY <1>1, <1>2, <1>4
<1>6. TypeOK' => (OutboxTellsTheOutcome' <=> StoriesAreTold')
  BY OutboxRestated, PTL
<1>7. QED
  BY <1>3, <1>5, <1>6 DEF StoriesAreTold
\* AssignTicket tells the assignment, and the room when it is full.
LEMMA AssignTold ==
    ASSUME OutcomeInvariant, TypeOK', NEW t \in Tickets, NEW h, AssignTables(t, h)
    PROVE  OutboxTellsTheOutcome'
<1> DEFINE r == h.room
           ev == TicketEvent(t, 2, "ticket.assigned")
           fv == TicketEvent(r, room[r].version + 1, "room.filled")
           filled == Fills(r)
<1>1. /\ \A u \in Tickets : Told(outbox, u) = StoryOfTicket(u, ticket[u].status)
      /\ \A q \in Rooms : /\ Told(outbox, q) = StoryOfRoom(q, room[q])
                          /\ Queued(shadowWork, q) = WorkOfRoom(q, room[q])
  BY TablesTyped, OutboxRestated DEF OutcomeInvariant, StoriesAreTold
<1>2. /\ r \in Rooms /\ room[r].status = "forming" /\ ticket[t].status = "queued"
      /\ ticket[t].version = 1
      /\ ticket' = [ticket EXCEPT ![t] = Ended(ticket[t], "assigned", h.at)]
      /\ room' = [room EXCEPT ![r] = Joined(room[r], filled, h.at)]
      /\ shadowWork' = IF filled THEN shadowWork \cup {<<r, h.at>>} ELSE shadowWork
  BY DEF AssignTables, OutcomeInvariant, RowsFollowStatus
<1>3. outbox' = outbox \cup {ev} \cup (IF filled THEN {fv} ELSE {})
  <2>1. ticket[t].version + 1 = 2
    BY <1>2
  <2>2. QED
    BY <2>1, Zenon DEF AssignTables
<1>4. /\ ticket'[t].status = "assigned" /\ \A u \in Tickets \ {t} : ticket'[u] = ticket[u]
  BY <1>2, TablesTyped, EndedFields DEF TypeOK
<1>5. /\ room'[r].version = room[r].version + 1
      /\ room'[r].status = IF filled THEN "collecting" ELSE "forming"
      /\ filled => room'[r].filledAt = h.at
      /\ \A q \in Rooms \ {r} : room'[q] = room[q]
  <2>1. room[r] \in RoomRow
    BY <1>2, TablesTyped
  <2>2. room'[r] = Joined(room[r], filled, h.at) /\ \A q \in Rooms \ {r} : room'[q] = room[q]
    BY <1>2, TablesTyped
  <2> HIDE DEF r, filled
  <2>3. QED
    BY <1>2, <2>1, <2>2, JoinedFields, JoinedTimes
<1>6. ev.aggregate = t /\ fv.aggregate = r
  BY DEF TicketEvent
<1>7. \A u \in Tickets, q \in Rooms : u # q
  BY AssignmentAssumption
<1>8. fv = TicketEvent(r, room'[r].version, "room.filled")
  BY <1>5
<1> HIDE DEF ev, fv, r, filled
<1>9. \A u \in Tickets : Told(outbox', u) = IF u = t THEN Told(outbox, u) \cup {ev}
                                                     ELSE Told(outbox, u)
  BY <1>2, <1>3, <1>6, <1>7 DEF Told
<1>10. \A q \in Rooms : Told(outbox', q) = IF q = r /\ filled THEN Told(outbox, q) \cup {fv}
                                                              ELSE Told(outbox, q)
  BY <1>2, <1>3, <1>6, <1>7 DEF Told
<1>11. \A q \in Rooms : Queued(shadowWork', q) =
         IF q = r /\ filled THEN Queued(shadowWork, q) \cup {<<r, h.at>>}
                            ELSE Queued(shadowWork, q)
  BY <1>2 DEF Queued
<1>12. \A u \in Tickets : Told(outbox', u) = StoryOfTicket(u, ticket'[u].status)
  <2>1. StoryOfTicket(t, "assigned") = StoryOfTicket(t, "queued") \cup {ev}
    BY DEF StoryOfTicket, ev
  <2>2. QED
    BY <1>1, <1>2, <1>4, <1>9, <2>1
<1>13. \A q \in Rooms : /\ Told(outbox', q) = StoryOfRoom(q, room'[q])
                        /\ Queued(shadowWork', q) = WorkOfRoom(q, room'[q])
  <2> SUFFICES ASSUME NEW q \in Rooms
               PROVE  /\ Told(outbox', q) = StoryOfRoom(q, room'[q])
                      /\ Queued(shadowWork', q) = WorkOfRoom(q, room'[q])
    OBVIOUS
  <2>1. CASE q # r
    BY <1>1, <1>5, <1>10, <1>11, <2>1
  <2>2. CASE q = r
    <3>1. StoryOfRoom(r, room[r]) = {} /\ WorkOfRoom(r, room[r]) = {}
      BY <1>2 DEF StoryOfRoom, WorkOfRoom
    <3>2. CASE filled
      BY <1>1, <1>2, <1>5, <1>8, <1>10, <1>11, <2>2, <3>1, <3>2 DEF StoryOfRoom, WorkOfRoom
    <3>3. CASE ~filled
      BY <1>1, <1>2, <1>5, <1>10, <1>11, <2>2, <3>1, <3>3 DEF StoryOfRoom, WorkOfRoom
    <3>4. QED
      BY <3>2, <3>3
  <2>3. QED
    BY <2>1, <2>2
<1>14. TypeOK' => (OutboxTellsTheOutcome' <=> StoriesAreTold')
  BY OutboxRestated, PTL
<1>15. QED
  BY <1>12, <1>13, <1>14 DEF StoriesAreTold

LEMMA OutboxStep ==
    ASSUME OutcomeInvariant, [Next]_vars
    PROVE  OutboxTellsTheOutcome'
<1>0. /\ TypeOK' /\ ticket \in [Tickets -> TicketRow] /\ room \in [Rooms -> RoomRow]
  BY TablesTyped, TypeStep DEF TypeOK
<1>1. ASSUME NEW t \in Tickets, AcceptEffect(t)
      PROVE  OutboxTellsTheOutcome'
  <2>1. ticket'[t].status = "queued" /\ \A u \in Tickets \ {t} : ticket'[u] = ticket[u]
    BY <1>0, <1>1 DEF AcceptEffect
  <2>2. StoryOfTicket(t, "queued")
          = StoryOfTicket(t, "none") \cup {TicketEvent(t, 1, "ticket.accepted")}
    BY DEF StoryOfTicket
  <2>3. QED
    BY <1>0, <1>1, <2>1, <2>2, TicketTold DEF AcceptEffect
<1>2. ASSUME NEW t \in Tickets, NEW s, NEW at,
             ticket' = [ticket EXCEPT ![t] = Ended(ticket[t], s, at)]
      PROVE  ticket'[t].status = s /\ \A u \in Tickets \ {t} : ticket'[u] = ticket[u]
  BY <1>0, <1>2, EndedFields
<1>3. ASSUME NEW t \in Tickets, ticket[t].status = "queued"
      PROVE  ticket[t].version + 1 = 2
  BY <1>3 DEF OutcomeInvariant, RowsFollowStatus
<1>4. ASSUME NEW t \in Tickets, CancelEffect(t)
      PROVE  OutboxTellsTheOutcome'
  <2>1. /\ ticket'[t].status = "cancelled" /\ \A u \in Tickets \ {t} : ticket'[u] = ticket[u]
    BY <1>2, <1>4 DEF CancelEffect
  <2>2. StoryOfTicket(t, "cancelled")
          = StoryOfTicket(t, "queued") \cup {TicketEvent(t, 2, "ticket.cancelled")}
    BY DEF StoryOfTicket
  <2>3. QED
    BY <1>0, <1>3, <1>4, <2>1, <2>2, TicketTold DEF CancelEffect
<1>5. ASSUME NEW t \in Tickets, NEW at \in Int, ExpireEffect(t, at)
      PROVE  OutboxTellsTheOutcome'
  <2>1. /\ ticket'[t].status = "expired" /\ \A u \in Tickets \ {t} : ticket'[u] = ticket[u]
    BY <1>2, <1>5 DEF ExpireEffect
  <2>2. StoryOfTicket(t, "expired")
          = StoryOfTicket(t, "queued") \cup {TicketEvent(t, 2, "ticket.expired")}
    BY DEF StoryOfTicket
  <2>3. QED
    BY <1>0, <1>3, <1>5, <2>1, <2>2, TicketTold DEF ExpireEffect
<1>6. /\ \A u \in Tickets : Told(outbox, u) = StoryOfTicket(u, ticket[u].status)
      /\ \A q \in Rooms : /\ Told(outbox, q) = StoryOfRoom(q, room[q])
                          /\ Queued(shadowWork, q) = WorkOfRoom(q, room[q])
  BY TablesTyped, OutboxRestated DEF OutcomeInvariant, StoriesAreTold
<1>7. TypeOK' => (OutboxTellsTheOutcome' <=> StoriesAreTold')
  BY OutboxRestated, PTL
<1>8. ASSUME ScheduleEffect
      PROVE  OutboxTellsTheOutcome'
  BY <1>0, <1>6, <1>7, <1>8 DEF ScheduleEffect, StoriesAreTold
<1>9. ASSUME NEW r \in Rooms, OpenEffect(r)
      PROVE  OutboxTellsTheOutcome'
  <2>1. UNCHANGED <<ticket, outbox, shadowWork>> /\ room[r].status = "none"
    BY <1>9 DEF OpenEffect
  <2>2. room'[r].status = "forming" /\ \A q \in Rooms \ {r} : room'[q] = room[q]
    BY <1>0, <1>9 DEF OpenEffect
  <2>3. /\ StoryOfRoom(r, room[r]) = {} /\ WorkOfRoom(r, room[r]) = {}
        /\ StoryOfRoom(r, room'[r]) = {} /\ WorkOfRoom(r, room'[r]) = {}
    BY <2>1, <2>2 DEF StoryOfRoom, WorkOfRoom
  <2>4. StoriesAreTold'
    BY <1>6, <2>1, <2>2, <2>3 DEF StoriesAreTold
  <2>5. QED
    BY <1>0, <1>7, <2>4
<1>10. ASSUME NEW w \in Workers, NEW t \in Tickets, Assign(w, t)
       PROVE  OutboxTellsTheOutcome'
  BY <1>0, <1>10, AssignDoes, AssignTold
<1>11. QED
  BY <1>1, <1>4, <1>5, <1>8, <1>9, <1>10, StepEffects

-----------------------------------------------------------------------------
(***************************************************************************)
(* Times.                                                                  *)
(***************************************************************************)

\* The part of OutcomeInTime about one ticket.
InTime(t) ==
    /\ ticket[t].status = "assigned" =>
         LET r == membership[t].room
         IN  /\ ticket[t].requestedAt <= ticket[t].endedAt
             /\ ticket[t].endedAt <= FillDeadline(ticket[t].requestedAt)
             /\ room[r].createdAt <= ticket[t].endedAt
             /\ ticket[t].endedAt <= room[r].fillDeadline
    /\ ticket[t].status = "expired" =>
         FillDeadline(ticket[t].requestedAt) <= ticket[t].endedAt

LEMMA InTimeStep ==
    ASSUME OutcomeInvariant, [Next]_vars
    PROVE  OutcomeInTime'
<1> SUFFICES ASSUME NEW u \in Tickets
             PROVE  InTime(u)'
  BY DEF OutcomeInTime, InTime
<1>0. /\ InTime(u) /\ ticket \in [Tickets -> TicketRow] /\ room \in [Rooms -> RoomRow]
      /\ membership \in [Tickets -> MembershipRow]
  BY TablesTyped DEF OutcomeInvariant, OutcomeInTime, InTime, TypeOK
<1>1. \* The room of an assigned ticket stays where it is in time.
      ASSUME ticket[u].status = "assigned"
      PROVE  LET r == membership[u].room
             IN  /\ r \in Rooms
                 /\ room'[r].createdAt = room[r].createdAt
                 /\ room'[r].fillDeadline = room[r].fillDeadline
  <2>1. membership[u].room # NoRoom
    BY <1>1 DEF OutcomeInvariant, AssignmentInvariant, SeatedIffAssigned
  <2>2. membership[u].room \in Rooms
    BY <1>0, <2>1 DEF MembershipRow
  <2>3. room[membership[u].room].status # "none"
    BY <2>2 DEF OutcomeInvariant, MembersAreCounted, MembersOf
  <2>4. QED
    BY <2>2, <2>3, TimesStand
<1>2. ASSUME ticket'[u].status = ticket[u].status, ticket'[u].requestedAt = ticket[u].requestedAt,
             ticket'[u].endedAt = ticket[u].endedAt, membership'[u] = membership[u]
      PROVE  InTime(u)'
  BY <1>0, <1>1, <1>2 DEF InTime
<1>3. ASSUME NEW t \in Tickets, AcceptEffect(t)
      PROVE  InTime(u)'
  <2>1. CASE t = u
    <3>1. ticket'[u].status = "queued"
      BY <1>0, <1>3, <2>1 DEF AcceptEffect
    <3>2. QED
      BY <3>1 DEF InTime
  <2>2. CASE t # u
    BY <1>0, <1>2, <1>3, <2>2 DEF AcceptEffect
  <2>3. QED
    BY <2>1, <2>2
<1>4. ASSUME NEW t \in Tickets, CancelEffect(t)
      PROVE  InTime(u)'
  <2>1. CASE t = u
    <3>1. ticket'[u].status = "cancelled"
      BY <1>0, <1>4, <2>1, EndedFields DEF CancelEffect
    <3>2. QED
      BY <3>1 DEF InTime
  <2>2. CASE t # u
    BY <1>0, <1>2, <1>4, <2>2 DEF CancelEffect
  <2>3. QED
    BY <2>1, <2>2
<1>5. ASSUME NEW t \in Tickets, NEW at \in Int, ExpireEffect(t, at)
      PROVE  InTime(u)'
  <2>1. CASE t = u
    <3>1. /\ ticket'[u].status = "expired" /\ ticket'[u].endedAt = at
          /\ ticket'[u].requestedAt = ticket[u].requestedAt
          /\ FillDeadline(ticket[u].requestedAt) <= at
      BY <1>0, <1>5, <2>1, EndedFields DEF ExpireEffect
    <3>2. QED
      BY <3>1 DEF InTime, FillDeadline
  <2>2. CASE t # u
    BY <1>0, <1>2, <1>5, <2>2 DEF ExpireEffect
  <2>3. QED
    BY <2>1, <2>2
<1>6. CASE ScheduleEffect
  BY <1>2, <1>6 DEF ScheduleEffect
<1>7. ASSUME NEW r \in Rooms, OpenEffect(r)
      PROVE  InTime(u)'
  BY <1>2, <1>7 DEF OpenEffect
<1>8. ASSUME NEW w \in Workers, NEW t \in Tickets, Assign(w, t)
      PROVE  InTime(u)'
  <2>1. PICK h : h = work[w][t] /\ AssignTables(t, h)
    BY <1>8, AssignDoes
  <2>2. CASE t = u
    <3>1. /\ ticket'[u].status = "assigned" /\ ticket'[u].endedAt = h.at
          /\ ticket'[u].requestedAt = ticket[u].requestedAt
          /\ membership'[u].room = h.room
      <4>1. /\ ticket' = [ticket EXCEPT ![u] = Ended(ticket[u], "assigned", h.at)]
            /\ membership'[u].room = h.room
        BY <2>1, <2>2 DEF AssignTables
      <4>2. ticket'[u] = Ended(ticket[u], "assigned", h.at) /\ ticket[u] \in TicketRow
        BY <1>0, <4>1
      <4>3. QED
        BY <4>1, <4>2, EndedFields
    <3>2. /\ room[h.room].createdAt <= h.at /\ ticket[u].requestedAt <= h.at
          /\ h.at <= FillDeadline(ticket[u].requestedAt)
      BY <1>8, <2>1, <2>2 DEF Assign, OutcomeInvariant, HandlersKnowTimes, KnowsTimes
    <3>3. /\ h.room \in Rooms /\ h.at <= room[h.room].fillDeadline
          /\ room[h.room].status # "none"
      BY <2>1 DEF AssignTables
    <3>4. /\ room'[h.room].createdAt = room[h.room].createdAt
          /\ room'[h.room].fillDeadline = room[h.room].fillDeadline
      BY <3>3, TimesStand
    <3>5. QED
      BY <3>1, <3>2, <3>3, <3>4 DEF InTime, FillDeadline
  <2>3. CASE t # u
    BY <1>0, <1>2, <2>1, <2>3 DEF AssignTables
  <2>4. QED
    BY <2>2, <2>3
<1>9. QED
  BY <1>3, <1>4, <1>5, <1>6, <1>7, <1>8, StepEffects

-----------------------------------------------------------------------------
(***************************************************************************)
(* The theorems about outcomes.                                            *)
(***************************************************************************)

\* The inductive invariant behind the theorems below: rows, rooms, handlers and the
\* outbox agree after every step of AcceptTicket, CancelTicket, AssignTicket,
\* ExpireTicket, the claims and the retries, whatever fails in between.
THEOREM OutcomeInvariantHolds == Spec => []OutcomeInvariant
<1>1. ASSUME Init, AssignmentInvariant
      PROVE  OutcomeInvariant
  <2>1. /\ \A t \in Tickets : /\ membership[t].room = NoRoom /\ ticket[t].status = "none"
                              /\ ticket[t].token = 0
        /\ \A r \in Rooms : room[r].status = "none" /\ room[r].version = 0
        /\ \A w \in Workers, t \in Tickets : work[w][t].phase = "idle"
        /\ outbox = {} /\ shadowWork = {}
    BY <1>1 DEF Init, Unseated, NoTicket, RoomUnborn, Idle
  <2>2. \A r \in Rooms : MembersOf(r) = {}
    BY <2>1, AssignmentAssumption DEF MembersOf
  <2>3. RowsFollowStatus /\ HandlersKnowTimes /\ OutcomeInTime
    BY <2>1 DEF RowsFollowStatus, Terminal, HandlersKnowTimes, KnowsTimes, OutcomeInTime
  <2>4. MembersAreCounted
    BY <2>2, FS_EmptySet DEF MembersAreCounted
  <2>5. RoomFillsExactlyOnce
    <3>1. Cardinality({}) = 0 /\ Capacity # 0 /\ 1 .. 0 = {}
      BY FS_EmptySet, PolicyAssumption
    <3>2. ASSUME NEW r \in Rooms
          PROVE  {membership[t].seat : t \in MembersOf(r)} = {}
      BY <2>2
    <3>3. QED
      BY <2>1, <2>2, <3>1, <3>2 DEF RoomFillsExactlyOnce
  <2>6. OutboxTellsTheOutcome
    BY <2>1 DEF OutboxTellsTheOutcome, EventsOfTicket, EventsOfRoom
  <2>7. QED
    BY <1>1, <2>3, <2>4, <2>5, <2>6 DEF OutcomeInvariant
<1>2. ASSUME OutcomeInvariant, [Next]_vars, AssignmentInvariant'
      PROVE  OutcomeInvariant'
  BY <1>2, RowsStep, CountedStep, TimesStep, FillsStep, OutboxStep, InTimeStep
     DEF OutcomeInvariant
<1>3. QED
  BY <1>1, <1>2, InvariantHolds, PTL DEF Spec

\* Seats are given in order and the last one once: AssignTicket moves a room to
\* collecting exactly when its member count reaches the capacity.
THEOREM RoomsAlwaysFillOnce == Spec => []RoomFillsExactlyOnce
<1>1. OutcomeInvariant => RoomFillsExactlyOnce
  BY DEF OutcomeInvariant
<1>2. QED
  BY <1>1, OutcomeInvariantHolds, PTL

\* CancelTicket, ExpireTicket and AssignTicket race for a queued ticket; whoever wins, the
\* ticket is seated if and only if it is assigned, and no claim outlives its end.
THEOREM OneOutcomeAlways == Spec => []OneOutcomePerTicket
<1>1. OutcomeInvariant => OneOutcomePerTicket
  BY DEF OutcomeInvariant, AssignmentInvariant, SeatedIffAssigned, RowsFollowStatus,
         OneOutcomePerTicket
<1>2. QED
  BY <1>1, OutcomeInvariantHolds, PTL

\* The events the ticket transactions insert into outbox_events, and the shadow work
\* AssignTicket inserts, are exactly what happened, each told once.
THEOREM OutboxAlwaysTells == Spec => []OutboxTellsTheOutcome
<1>1. OutcomeInvariant => OutboxTellsTheOutcome
  BY DEF OutcomeInvariant
<1>2. QED
  BY <1>1, OutcomeInvariantHolds, PTL

\* The attempt time a worker fixed when it claimed a ticket still fits when AssignTicket or
\* ExpireTicket commits, for every skew of the workers' clocks.
THEOREM OutcomesAlwaysInTime == Spec => []OutcomeInTime
<1>1. OutcomeInvariant => OutcomeInTime
  BY DEF OutcomeInvariant
<1>2. QED
  BY <1>1, OutcomeInvariantHolds, PTL

\* No step of any transaction takes an outcome back.
THEOREM OutcomesStayFinal == Spec => OutcomesAreFinal
<1> DEFINE A == /\ \A t \in Tickets :
                     /\ ticket[t].status \in Terminal => ticket'[t] = ticket[t]
                     /\ membership[t].room # NoRoom => membership'[t] = membership[t]
                /\ \A r \in Rooms : room[r].status = "collecting" => room'[r] = room[r]
                /\ outbox \subseteq outbox'
<1>1. ASSUME OutcomeInvariant, [Next]_vars
      PROVE  A
  <2>0. /\ ticket \in [Tickets -> TicketRow] /\ room \in [Rooms -> RoomRow]
    BY <1>1, TablesTyped DEF TypeOK
  <2>1. ASSUME NEW t \in Tickets, AcceptEffect(t)
        PROVE  A
    BY <2>0, <2>1 DEF AcceptEffect, Terminal
  <2>2. ASSUME NEW t \in Tickets, CancelEffect(t)
        PROVE  A
    BY <2>0, <2>2 DEF CancelEffect, Terminal
  <2>3. ASSUME NEW t \in Tickets, NEW at \in Int, ExpireEffect(t, at)
        PROVE  A
    BY <2>0, <2>3 DEF ExpireEffect, Terminal
  <2>4. CASE ScheduleEffect
    BY <2>4 DEF ScheduleEffect, Terminal
  <2>5. ASSUME NEW r \in Rooms, OpenEffect(r)
        PROVE  A
    BY <2>0, <2>5 DEF OpenEffect
  <2>6. ASSUME NEW w \in Workers, NEW t \in Tickets, Assign(w, t)
        PROVE  A
    <3>1. PICK h : AssignTables(t, h)
      BY <1>1, <2>6, AssignDoes
    <3>2. \A u \in Tickets : /\ ticket[u].status \in Terminal => ticket'[u] = ticket[u]
                             /\ membership[u].room # NoRoom => membership'[u] = membership[u]
      BY <2>0, <3>1 DEF AssignTables, Terminal
    <3>3. \A r \in Rooms : room[r].status = "collecting" => room'[r] = room[r]
      BY <2>0, <3>1 DEF AssignTables
    <3>4. outbox \subseteq outbox'
      BY <3>1 DEF AssignTables
    <3>5. QED
      BY <3>2, <3>3, <3>4
  <2> HIDE DEF A
  <2>7. QED
    BY <1>1, <2>1, <2>2, <2>3, <2>4, <2>5, <2>6, StepEffects
<1>2. OutcomeInvariant /\ [Next]_vars => [A]_vars
  BY <1>1
<1>3. QED
  BY <1>2, OutcomeInvariantHolds, PTL DEF Spec, OutcomesAreFinal

\* ownsActiveClaim and the WHERE clauses of the claiming statements: a claim is taken from
\* a worker only by a cancellation, by itself, or once its lease has run out.
THEOREM ClaimsAlwaysRespected == Spec => ClaimsAreRespected
<1> DEFINE B(t) == \/ ticket'[t].status = "cancelled"
                   \/ \E w \in Workers :
                        /\ work[w][t].phase # "idle"
                        /\ work[w][t].token = ticket[t].token
                        /\ work'[w][t] # work[w][t]
                   \/ \E w \in Workers :
                        /\ work[w][t].phase = "idle"
                        /\ work'[w][t].token = ticket'[t].token
                        /\ ticket[t].claimedUntil <= Now(w)
           A == \A t \in Tickets :
                  ticket[t].token # 0 /\ ticket'[t].token # ticket[t].token => B(t)
<1>1. ASSUME OutcomeInvariant, [Next]_vars
      PROVE  A
  <2> SUFFICES ASSUME NEW u \in Tickets, ticket[u].token # 0,
                      ticket'[u].token # ticket[u].token
               PROVE  B(u)
    OBVIOUS
  <2>0. TypeOK /\ ticket \in [Tickets -> TicketRow]
    BY <1>1, TablesTyped DEF TypeOK
  <2>1. ASSUME NEW t \in Tickets, NEW row, ticket' = [ticket EXCEPT ![t] = row]
        PROVE  t = u
    BY <2>0, <2>1
  <2>2. ASSUME NEW t \in Tickets, Accept(t)
        PROVE  FALSE
    BY <1>1, <2>1, <2>2 DEF Accept, OutcomeInvariant, RowsFollowStatus
  <2>3. ASSUME NEW t \in Tickets, NEW c \in CancelCommands, Cancel(t, c)
        PROVE  B(u)
    <3>1. t = u /\ ticket' = [ticket EXCEPT ![t] = Ended(ticket[t], "cancelled", clock)]
      BY <2>1, <2>3 DEF Cancel
    <3>2. ticket'[u].status = "cancelled"
      BY <2>0, <3>1, EndedFields
    <3>3. QED
      BY <3>2
  <2>4. ASSUME NEW w \in Workers, NEW t \in Tickets,
               Assign(w, t) \/ Expire(w, t) \/ ScheduleRetry(w, t)
        PROVE  B(u)
    <3>1. \E row : ticket' = [ticket EXCEPT ![t] = row]
      BY <2>4, Zenon DEF Assign, Expire, ScheduleRetry
    <3>2. t = u
      BY <2>1, <3>1
    <3>3. work[w][t].phase # "idle" /\ work[w][t].token = ticket[t].token
      BY <2>4 DEF Assign, Expire, ScheduleRetry, OwnsActiveClaim
    <3>4. work'[w][t] # work[w][t]
      <4>1. Idle.phase = "idle" /\ Failed(w, work[w][t]).phase = "failed"
        BY Zenon DEF Failed, Idle
      <4>2. CASE Stops(w, t)
        BY <2>0, <3>3, <4>1, <4>2, GoesOthers DEF Stops
      <4>3. CASE (Assign(w, t) \/ Expire(w, t)) /\ Goes(w, t, Failed(w, work[w][t]))
        <5>1. work[w][t].phase # "failed"
          BY <4>3 DEF Assign, Expire
        <5>2. QED
          BY <2>0, <4>1, <4>3, <5>1, GoesOthers
      <4>4. QED
        BY <2>4, <4>2, <4>3, Zenon DEF Assign, Expire, ScheduleRetry, AfterCommit
    <3>5. QED
      BY <3>2, <3>3, <3>4
  <2>5. ASSUME NEW w \in Workers, Claim(w)
        PROVE  B(u)
    <3>1. PICK batch \in SUBSET Due(Now(w)) :
            /\ ticket' = [t \in Tickets |->
                 IF t \in batch
                   THEN [ticket[t] EXCEPT !.token = ticket[t].attempts + 1,
                                          !.attempts = ticket[t].attempts + 1,
                                          !.claimedUntil = Now(w) + LeaseDuration]
                   ELSE ticket[t]]
            /\ work' = [work EXCEPT ![w] = [t \in Tickets |->
                 IF t \in batch
                   THEN [Idle EXCEPT !.phase = "claimed", !.at = Now(w),
                                     !.token = ticket[t].attempts + 1]
                   ELSE Idle]]
      BY <2>5 DEF Claim
    <3>2. u \in batch
      BY <3>1, Zenon
    <3>3. work[w][u].phase = "idle" /\ ticket[u].claimedUntil <= Now(w)
      BY <2>5, <3>2 DEF Claim, Due
    <3>4. [ticket[u] EXCEPT !.token = ticket[u].attempts + 1,
                            !.attempts = ticket[u].attempts + 1,
                            !.claimedUntil = Now(w) + LeaseDuration].token
            = ticket[u].attempts + 1
      <4>1. ticket[u] \in TicketRow
        BY <2>0
      <4>2. QED
        BY <4>1, Zenon DEF TicketRow
    <3>5. [Idle EXCEPT !.phase = "claimed", !.at = Now(w),
                       !.token = ticket[u].attempts + 1].token = ticket[u].attempts + 1
      BY Zenon DEF Idle
    <3>6. ticket'[u].token = ticket[u].attempts + 1
      BY <3>1, <3>2, <3>4, Zenon
    <3>7. work'[w][u].token = ticket[u].attempts + 1
      BY <2>0, <3>1, <3>2, <3>5, Zenon DEF TypeOK
    <3>8. QED
      BY <3>3, <3>6, <3>7
  <2>6. ASSUME UNCHANGED ticket
        PROVE  FALSE
    BY <2>6
  <2>7. ASSUME NEW w \in Workers, NEW t \in Tickets,
               LoadRooms(w, t) \/ Evaluate(w, t) \/ AssignStale(w, t) \/ ClaimLost(w, t)
                 \/ StatementFails(w, t)
        PROVE  UNCHANGED ticket
    BY <2>7, Zenon DEF LoadRooms, Evaluate, AssignStale, ClaimLost, StatementFails
  <2>8. ASSUME \/ \E t \in Tickets, c \in CancelCommands : CancelAgain(t, c)
               \/ \E r \in Rooms : OpenRoom(r)
               \/ \E w \in Workers : Crash(w)
               \/ Tick \/ Done \/ UNCHANGED vars
        PROVE  UNCHANGED ticket
    BY <2>8, Zenon DEF CancelAgain, OpenRoom, Crash, Tick, Done, vars
  <2> HIDE DEF B
  <2>9. QED
    BY <1>1, <2>2, <2>3, <2>4, <2>5, <2>6, <2>7, <2>8, Zenon DEF Next, HandlerStep
<1>2. OutcomeInvariant /\ [Next]_vars => [A]_vars
  BY <1>1
<1>3. QED
  BY <1>2, OutcomeInvariantHolds, PTL DEF Spec, ClaimsAreRespected
=============================================================================
