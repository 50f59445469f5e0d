-------------------------- MODULE RoomResultsProofs --------------------------
(***************************************************************************)
(* Proofs about RoomResults, for every set of rooms, commands, servers and *)
(* deadline runners, every skew of their clocks and every batch size, and  *)
(* without the bounds TLC needs (MaxTime, LastFill and MaxRequests are     *)
(* arbitrary).                                                             *)
(***************************************************************************)
EXTENDS RoomResults, TLAPS

-----------------------------------------------------------------------------
(***************************************************************************)
(* The inductive invariant.                                                *)
(***************************************************************************)

\* A server at work has a command; one it has looked up was available on arrival.
CallsAreReal ==
    \A s \in Servers :
        /\ call[s].phase # "idle" => call[s].cmd \in Commands
        /\ call[s].phase = "looked" => Valid(call[s].cmd, call[s].acceptedAt)

\* The row of verified_results under an event_id has that event_id.
ResultsHaveIdentity ==
    \A i \in Identities : result[i] # NoCommand => IdentityOf[result[i]] = i

\* The sessions of a room that collects results are all open, and the last of
\* them was not allocated before the room was filled.
CollectingIsOpen ==
    \A r \in Rooms : room[r].status = "collecting" =>
        /\ session[r] = [p \in Players |-> "allocated"]
        /\ room[r].filledAt <= room[r].latestAllocation

ResultsInvariant ==
    /\ TypeOK
    /\ CallsAreReal
    /\ ResultsHaveIdentity
    /\ CollectingIsOpen
    /\ OneEnding
    /\ AnswersAgree
    /\ EndsInTime

-----------------------------------------------------------------------------
(***************************************************************************)
(* Rows.                                                                   *)
(***************************************************************************)

\* What ends a room writes the status, the next version and the time, and nothing else.
LEMMA EndedRow ==
    ASSUME NEW row \in RoomRow, NEW at \in Int
    PROVE  /\ Completed(row, at) \in RoomRow /\ Expired(row, at) \in RoomRow
           /\ Completed(row, at).status = "completed" /\ Expired(row, at).status = "expired"
           /\ Completed(row, at).version = row.version + 1
           /\ Expired(row, at).version = row.version + 1
           /\ Completed(row, at).endedAt = at /\ Expired(row, at).endedAt = at
           /\ Completed(row, at).filledAt = row.filledAt
           /\ Completed(row, at).resultDeadline = row.resultDeadline
           /\ Expired(row, at).resultDeadline = row.resultDeadline
<1>1. row.version + 1 \in Nat
  BY DEF RoomRow
<1>2. QED
  BY <1>1, Zenon DEF Completed, Expired, RoomRow

\* An answer ends the call.
LEMMA AnswersCall ==
    ASSUME call \in [Servers -> Call], NEW s \in Servers, NEW answer \in Answer,
           Answers(s, answer)
    PROVE  /\ call' \in [Servers -> Call]
           /\ call'[s].phase = "idle" /\ call'[s].answer = answer
           /\ \A u \in Servers \ {s} : call'[u] = call[u]
<1> DEFINE c == [NoCall EXCEPT !.answer = answer]
<1>1. c \in Call /\ c.phase = "idle" /\ c.answer = answer
  BY DEF NoCall, Call
<1>2. call' = [call EXCEPT ![s] = c]
  BY DEF Answers
<1> HIDE DEF c
<1>3. QED
  BY <1>1, <1>2

-----------------------------------------------------------------------------
(***************************************************************************)
(* Type correctness, and calls.                                            *)
(***************************************************************************)
LEMMA CallsStep ==
    ASSUME TypeOK, CallsAreReal, [Next]_vars
    PROVE  call' \in [Servers -> Call] /\ CallsAreReal'
<1>0. call \in [Servers -> Call] /\ clock \in Int
  BY DEF TypeOK
<1>1. CASE UNCHANGED call
  BY <1>0, <1>1 DEF CallsAreReal
<1>2. ASSUME NEW s \in Servers, NEW answer \in Answer, Answers(s, answer)
      PROVE  call' \in [Servers -> Call] /\ CallsAreReal'
  BY <1>0, <1>2, AnswersCall DEF CallsAreReal
<1>3. ASSUME NEW s \in Servers, NEW c \in Commands, Arrive(s, c)
      PROVE  call' \in [Servers -> Call] /\ CallsAreReal'
  <2>0. Skew[s] \in Int
    BY ResultAssumption
  <2>1. Now(s) \in Int
    BY <1>0, <2>0 DEF Now
  <2> DEFINE k == [phase |-> "arrived", cmd |-> c, acceptedAt |-> Now(s), answer |-> "none"]
  <2>2. k \in Call /\ k.cmd = c /\ k.phase = "arrived"
    BY <2>1 DEF Call, Answer
  <2>3. call' = [call EXCEPT ![s] = k]
    BY <1>3 DEF Arrive
  <2> HIDE DEF k
  <2>4. QED
    BY <1>0, <2>1, <2>2, <2>3 DEF CallsAreReal
<1>4. ASSUME NEW s \in Servers, call[s].phase # "idle",
             Valid(call[s].cmd, call[s].acceptedAt),
             call' = [call EXCEPT ![s] = [call[s] EXCEPT !.phase = "looked"]]
      PROVE  call' \in [Servers -> Call] /\ CallsAreReal'
  <2> DEFINE k == [call[s] EXCEPT !.phase = "looked"]
  <2>1. k \in Call /\ k.cmd = call[s].cmd /\ k.acceptedAt = call[s].acceptedAt
    BY <1>0 DEF Call
  <2>2. call' = [call EXCEPT ![s] = k]
    BY <1>4
  <2> HIDE DEF k
  <2>3. QED
    BY <1>0, <1>4, <2>1, <2>2 DEF CallsAreReal
<1>5. {"replay", "conflict", "not_collecting", "deadline_passed", "mismatch", "stored",
       "invalid", "error"} \subseteq Answer
  BY DEF Answer
<1>6. ASSUME NEW s \in Servers, LookUp(s)
      PROVE  call' \in [Servers -> Call] /\ CallsAreReal'
  BY <1>2, <1>4, <1>5, <1>6 DEF LookUp
<1>7. ASSUME NEW s \in Servers,
             Invalid(s) \/ AnswerEnded(s) \/ Refuse(s) \/ Finalize(s) \/ Fail(s)
      PROVE  \E answer \in Answer : Answers(s, answer)
  BY <1>5, <1>7 DEF Invalid, AnswerEnded, Refuse, Finalize, Fail
<1>8. QED
  BY <1>1, <1>2, <1>3, <1>6, <1>7 DEF Next, vars, Fill, Expire, Tick

LEMMA TypeStep ==
    ASSUME TypeOK, CallsAreReal, [Next]_vars
    PROVE  TypeOK'
<1>0. /\ call' \in [Servers -> Call] /\ clock \in Int
      /\ \A s \in Servers : call[s].acceptedAt \in Int
      /\ \A r \in Rooms : room[r] \in RoomRow /\ room[r].version \in Nat /\ room[r].endedAt \in Int
  BY CallsStep DEF TypeOK, Call, RoomRow
<1>1. ASSUME NEW r \in Rooms, Fill(r)
      PROVE  TypeOK'
  <2>1. PICK lag \in AllocationLags :
         room' = [room EXCEPT ![r] =
           [status |-> "collecting", version |-> 1, filledAt |-> clock,
            latestAllocation |-> clock + lag,
            resultDeadline |-> clock + ResultTimeout, endedAt |-> 0]]
    BY <1>1 DEF Fill
  <2>2. clock + lag \in Int /\ clock + ResultTimeout \in Int
    BY <1>0, ResultAssumption
  <2>3. room' \in [Rooms -> RoomRow]
    BY <1>0, <2>1, <2>2 DEF TypeOK, RoomRow
  <2>4. session' \in [Rooms -> [Players -> SessionStatus]]
    BY <1>1 DEF Fill, TypeOK, SessionStatus
  <2>5. QED
    BY <1>0, <1>1, <2>3, <2>4 DEF Fill, TypeOK
<1>2. ASSUME NEW s \in Servers, NEW c \in Commands, Arrive(s, c)
      PROVE  TypeOK'
  BY <1>0, <1>2 DEF Arrive, TypeOK
<1>3. ASSUME NEW c \in Commands, NEW row \in RoomRow, Tells(c, row)
      PROVE  told' \subseteq Told
  BY <1>3 DEF Tells, Told, TypeOK, RoomRow
<1>4. ASSUME NEW s \in Servers, LookUp(s)
      PROVE  TypeOK'
  <2>1. call[s].cmd \in Commands /\ RoomOf[call[s].cmd] \in Rooms
    BY <1>4, ResultAssumption DEF LookUp, CallsAreReal
  <2>2. told' \subseteq Told
    BY <1>0, <1>3, <1>4, <2>1 DEF LookUp, SameDigest, TypeOK
  <2>3. QED
    BY <1>0, <1>4, <2>2 DEF LookUp, TypeOK
<1>5. ASSUME NEW s \in Servers, AnswerEnded(s)
      PROVE  TypeOK'
  <2>1. call[s].cmd \in Commands /\ RoomOf[call[s].cmd] \in Rooms
    BY <1>5, ResultAssumption DEF AnswerEnded, CallsAreReal
  <2>2. told' \subseteq Told
    BY <1>0, <1>3, <1>5, <2>1 DEF AnswerEnded, TypeOK
  <2>3. QED
    BY <1>0, <1>5, <2>2 DEF AnswerEnded, TypeOK
<1>6. ASSUME NEW s \in Servers, Invalid(s) \/ Refuse(s) \/ Fail(s)
      PROVE  TypeOK'
  BY <1>0, <1>6 DEF Invalid, Refuse, Fail, TypeOK
<1>7. ASSUME NEW s \in Servers, Finalize(s)
      PROVE  TypeOK'
  <2> DEFINE c == call[s].cmd
             r == RoomOf[c]
             ended == Completed(room[r], call[s].acceptedAt)
  <2>1. c \in Commands /\ r \in Rooms /\ IdentityOf[c] \in Identities
    BY <1>7, ResultAssumption DEF Finalize, CallsAreReal
  <2>2. ended \in RoomRow /\ ended.version \in Nat /\ ended.endedAt \in Int
    <3>1. ended \in RoomRow
      BY <1>0, <2>1, EndedRow
    <3>2. QED
      BY <3>1 DEF RoomRow
  <2>3. /\ room' = [room EXCEPT ![r] = ended]
        /\ result' = [result EXCEPT ![IdentityOf[c]] = c]
        /\ session' = [session EXCEPT ![r] = Finalized(c)]
        /\ events' = events \cup
             {[room |-> r, type |-> "room.completed", version |-> ended.version,
               at |-> ended.endedAt]}
        /\ Tells(c, ended) \/ UNCHANGED told
        /\ UNCHANGED <<clock, requests>>
    BY <1>7, Zenon DEF Finalize
  <2>4. Finalized(c) \in [Players -> SessionStatus]
    BY DEF Finalized, SessionStatus
  <2> HIDE DEF c, r, ended
  <2>5. /\ room' \in [Rooms -> RoomRow] /\ result' \in [Identities -> Commands \cup {NoCommand}]
        /\ session' \in [Rooms -> [Players -> SessionStatus]]
    BY <2>1, <2>2, <2>3, <2>4 DEF TypeOK
  <2>6. events' \subseteq EndEvent /\ told' \subseteq Told
    BY <1>3, <2>1, <2>2, <2>3 DEF TypeOK, EndEvent
  <2>7. QED
    BY <1>0, <2>3, <2>5, <2>6 DEF TypeOK
<1>8. ASSUME NEW d \in Runners, Expire(d)
      PROVE  TypeOK'
  <2>1. PICK batch \in SUBSET DueRooms(Now(d)) :
          /\ room' = [r \in Rooms |->
               IF r \in batch THEN Expired(room[r], Now(d)) ELSE room[r]]
          /\ session' = [r \in Rooms |->
               IF r \in batch THEN Forfeited(session[r]) ELSE session[r]]
          /\ events' = events \cup
               {[room |-> r, type |-> "room.expired", version |-> room[r].version + 1,
                 at |-> Now(d)] : r \in batch}
    BY <1>8 DEF Expire
  <2>2. Now(d) \in Int /\ batch \subseteq Rooms
    BY <1>0, ResultAssumption DEF Now, DueRooms
  <2>3. \A r \in Rooms : Expired(room[r], Now(d)) \in RoomRow
    BY <1>0, <2>2, EndedRow
  <2>4. \A r \in Rooms : Forfeited(session[r]) \in [Players -> SessionStatus]
    BY DEF Forfeited, TypeOK, SessionStatus
  <2>5. room' \in [Rooms -> RoomRow] /\ session' \in [Rooms -> [Players -> SessionStatus]]
    BY <1>0, <2>1, <2>3, <2>4 DEF TypeOK
  <2>6. events' \subseteq EndEvent
    BY <1>0, <2>1, <2>2 DEF TypeOK, EndEvent
  <2>7. QED
    BY <1>0, <1>8, <2>5, <2>6 DEF Expire, TypeOK
<1>9. CASE Tick
  BY <1>9 DEF Tick, TypeOK
<1>10. CASE UNCHANGED vars
  BY <1>10 DEF vars, TypeOK
<1>11. QED
  BY <1>1, <1>2, <1>4, <1>5, <1>6, <1>7, <1>8, <1>9, <1>10 DEF Next

-----------------------------------------------------------------------------
(***************************************************************************)
(* What a step may do to the tables.                                       *)
(***************************************************************************)
FillEffect(r) ==
    /\ room[r].status = "forming"
    /\ room'[r].status = "collecting" /\ room'[r].filledAt <= room'[r].latestAllocation
    /\ session'[r] = [p \in Players |-> "allocated"]
    /\ \A q \in Rooms \ {r} : room'[q] = room[q] /\ session'[q] = session[q]
    /\ UNCHANGED <<result, events>>

FinalizeEffect(c, r, at) ==
    /\ c \in Commands /\ r = RoomOf[c] /\ r \in Rooms /\ at \in Int
    /\ room[r].status = "collecting"
    /\ room[r].filledAt <= at /\ at <= room[r].resultDeadline
    /\ result[IdentityOf[c]] = NoCommand
    /\ result' = [result EXCEPT ![IdentityOf[c]] = c]
    /\ room'[r] = Completed(room[r], at)
    /\ session'[r] = Finalized(c)
    /\ \A q \in Rooms \ {r} : room'[q] = room[q] /\ session'[q] = session[q]
    /\ events' = events \cup
         {[room |-> r, type |-> "room.completed", version |-> room[r].version + 1, at |-> at]}

ExpireEffect(batch, at) ==
    /\ batch \subseteq Rooms /\ at \in Int
    /\ \A r \in batch : room[r].status = "collecting" /\ room[r].resultDeadline <= at
    /\ \A r \in batch : room'[r] = Expired(room[r], at) /\ session'[r] = Forfeited(session[r])
    /\ \A r \in Rooms \ batch : room'[r] = room[r] /\ session'[r] = session[r]
    /\ events' = events \cup
         {[room |-> r, type |-> "room.expired", version |-> room[r].version + 1, at |-> at] :
            r \in batch}
    /\ UNCHANGED result

\* A result that is stored was accepted between the fill of its room and the deadline.
LEMMA FinalizeHasEffect ==
    ASSUME ResultsInvariant, NEW s \in Servers, Finalize(s)
    PROVE  FinalizeEffect(call[s].cmd, RoomOf[call[s].cmd], call[s].acceptedAt)
<1>0. room \in [Rooms -> RoomRow] /\ session \in [Rooms -> [Players -> SessionStatus]]
  BY DEF ResultsInvariant, TypeOK
<1> DEFINE c == call[s].cmd
           r == RoomOf[c]
           at == call[s].acceptedAt
           ended == Completed(room[r], at)
<1>1. /\ c \in Commands /\ r \in Rooms /\ at \in Int /\ AvailableAt[c] <= at
      /\ room[r] \in RoomRow
  BY <1>0, ResultAssumption
     DEF Finalize, ResultsInvariant, CallsAreReal, Valid, TypeOK, Call
<1>2. /\ room[r].status = "collecting" /\ InTime(r, c, at) /\ ParticipantsMatch(r, c)
      /\ result[IdentityOf[c]] = NoCommand
      /\ room' = [room EXCEPT ![r] = ended]
      /\ result' = [result EXCEPT ![IdentityOf[c]] = c]
      /\ session' = [session EXCEPT ![r] = Finalized(c)]
      /\ events' = events \cup
           {[room |-> r, type |-> "room.completed", version |-> ended.version,
             at |-> ended.endedAt]}
  BY Zenon DEF Finalize
<1>3. ended.version = room[r].version + 1 /\ ended.endedAt = at
  BY <1>1, EndedRow
<1>4. /\ FinishedAt[c] <= AvailableAt[c] /\ FinishedAt[c] \in Int /\ AvailableAt[c] \in Int
      /\ room[r].latestAllocation <= FinishedAt[c] /\ room[r].filledAt <= room[r].latestAllocation
      /\ room[r].latestAllocation \in Int /\ room[r].filledAt \in Int
      /\ at <= room[r].resultDeadline
  BY <1>1, <1>2, ResultAssumption
     DEF InTime, ParticipantsMatch, ResultsInvariant, CollectingIsOpen, RoomRow
<1>5. room[r].filledAt <= at
  BY <1>1, <1>4
<1> HIDE DEF c, at, r, ended
<1>6. /\ room'[r] = ended /\ session'[r] = Finalized(c)
      /\ \A q \in Rooms \ {r} : room'[q] = room[q] /\ session'[q] = session[q]
  BY <1>0, <1>1, <1>2
<1>7. FinalizeEffect(c, r, at)
  BY <1>1, <1>2, <1>3, <1>4, <1>5, <1>6 DEF FinalizeEffect, r, ended
<1>8. QED
  BY <1>7 DEF c, r, at

\* Every step leaves the tables alone, or fills, completes or expires rooms.
LEMMA StepEffects ==
    ASSUME ResultsInvariant, [Next]_vars
    PROVE  \/ UNCHANGED <<room, session, result, events>>
           \/ \E r \in Rooms : FillEffect(r)
           \/ \E s \in Servers : /\ Finalize(s)
                                 /\ FinalizeEffect(call[s].cmd, RoomOf[call[s].cmd],
                                                   call[s].acceptedAt)
           \/ \E batch, at : ExpireEffect(batch, at)
<1>0. /\ TypeOK /\ clock \in Int /\ room \in [Rooms -> RoomRow]
      /\ session \in [Rooms -> [Players -> SessionStatus]]
  BY DEF ResultsInvariant, TypeOK
<1>1. ASSUME NEW r \in Rooms, Fill(r)
      PROVE  FillEffect(r)
  <2>1. PICK lag \in AllocationLags :
         room' = [room EXCEPT ![r] =
           [status |-> "collecting", version |-> 1, filledAt |-> clock,
            latestAllocation |-> clock + lag,
            resultDeadline |-> clock + ResultTimeout, endedAt |-> 0]]
    BY <1>1 DEF Fill
  <2>2. clock <= clock + lag
    BY <1>0, ResultAssumption
  <2>3. QED
    BY <1>0, <1>1, <2>1, <2>2 DEF Fill, FillEffect
<1>2. ASSUME NEW s \in Servers, Finalize(s)
      PROVE  FinalizeEffect(call[s].cmd, RoomOf[call[s].cmd], call[s].acceptedAt)
  BY <1>2, FinalizeHasEffect
<1>3. ASSUME NEW d \in Runners, Expire(d)
      PROVE  \E batch, at : ExpireEffect(batch, at)
  <2>1. PICK batch \in SUBSET DueRooms(Now(d)) :
          /\ room' = [r \in Rooms |->
               IF r \in batch THEN Expired(room[r], Now(d)) ELSE room[r]]
          /\ session' = [r \in Rooms |->
               IF r \in batch THEN Forfeited(session[r]) ELSE session[r]]
          /\ events' = events \cup
               {[room |-> r, type |-> "room.expired", version |-> room[r].version + 1,
                 at |-> Now(d)] : r \in batch}
    BY <1>3 DEF Expire
  <2>2. /\ Now(d) \in Int /\ batch \subseteq Rooms
        /\ \A r \in batch : room[r].status = "collecting" /\ room[r].resultDeadline <= Now(d)
    BY <1>0, ResultAssumption DEF Now, DueRooms
  <2>3. ExpireEffect(batch, Now(d))
    BY <1>3, <2>1, <2>2 DEF Expire, ExpireEffect
  <2>4. QED
    BY <2>3
<1>4. QED
  BY <1>1, <1>2, <1>3
     DEF Next, vars, Arrive, Invalid, LookUp, AnswerEnded, Refuse, Fail, Tick

-----------------------------------------------------------------------------
(***************************************************************************)
(* Identities, and the sessions of a room that collects.                   *)
(***************************************************************************)
LEMMA IdentityStep ==
    ASSUME ResultsInvariant, [Next]_vars
    PROVE  ResultsHaveIdentity'
<1>0. result \in [Identities -> Commands \cup {NoCommand}] /\ ResultsHaveIdentity
  BY DEF ResultsInvariant, TypeOK
<1>1. CASE UNCHANGED result
  BY <1>0, <1>1 DEF ResultsHaveIdentity
<1>2. ASSUME NEW c, NEW r, NEW at, FinalizeEffect(c, r, at)
      PROVE  ResultsHaveIdentity'
  BY <1>0, <1>2, ResultAssumption DEF FinalizeEffect, ResultsHaveIdentity
<1>3. QED
  BY <1>1, <1>2, StepEffects DEF FillEffect, ExpireEffect

LEMMA OpenStep ==
    ASSUME ResultsInvariant, [Next]_vars
    PROVE  CollectingIsOpen'
<1>0. room \in [Rooms -> RoomRow] /\ CollectingIsOpen
  BY DEF ResultsInvariant, TypeOK
<1>1. CASE UNCHANGED <<room, session>>
  BY <1>0, <1>1 DEF CollectingIsOpen
<1>2. ASSUME NEW r \in Rooms, FillEffect(r)
      PROVE  CollectingIsOpen'
  BY <1>0, <1>2 DEF FillEffect, CollectingIsOpen
<1>3. ASSUME NEW c, NEW r, NEW at, FinalizeEffect(c, r, at)
      PROVE  CollectingIsOpen'
  <2>1. r \in Rooms /\ room'[r].status = "completed"
    BY <1>0, <1>3, EndedRow DEF FinalizeEffect
  <2>2. QED
    BY <1>0, <1>3, <2>1 DEF FinalizeEffect, CollectingIsOpen
<1>4. ASSUME NEW batch, NEW at, ExpireEffect(batch, at)
      PROVE  CollectingIsOpen'
  <2>1. \A r \in batch : r \in Rooms /\ room'[r].status = "expired"
    BY <1>0, <1>4, EndedRow DEF ExpireEffect
  <2>2. QED
    BY <1>0, <1>4, <2>1 DEF ExpireEffect, CollectingIsOpen
<1>5. QED
  BY <1>1, <1>2, <1>3, <1>4, StepEffects

LEMMA InTimeStep ==
    ASSUME ResultsInvariant, [Next]_vars
    PROVE  EndsInTime'
<1>0. room \in [Rooms -> RoomRow] /\ EndsInTime
  BY DEF ResultsInvariant, TypeOK
<1>1. CASE UNCHANGED room
  BY <1>0, <1>1 DEF EndsInTime
<1>2. ASSUME NEW r \in Rooms, FillEffect(r)
      PROVE  EndsInTime'
  BY <1>0, <1>2 DEF FillEffect, EndsInTime
<1>3. ASSUME NEW c, NEW r, NEW at, FinalizeEffect(c, r, at)
      PROVE  EndsInTime'
  <2>1. /\ r \in Rooms /\ room'[r].status = "completed" /\ room'[r].endedAt = at
        /\ room'[r].filledAt = room[r].filledAt
        /\ room'[r].resultDeadline = room[r].resultDeadline
        /\ room[r].filledAt <= at /\ at <= room[r].resultDeadline
    BY <1>0, <1>3, EndedRow DEF FinalizeEffect
  <2>2. QED
    BY <1>0, <1>3, <2>1 DEF FinalizeEffect, EndsInTime
<1>4. ASSUME NEW batch, NEW at, ExpireEffect(batch, at)
      PROVE  EndsInTime'
  <2>1. \A r \in batch : /\ r \in Rooms /\ room'[r].status = "expired" /\ room'[r].endedAt = at
                         /\ room'[r].resultDeadline = room[r].resultDeadline
                         /\ room[r].resultDeadline <= at
    BY <1>0, <1>4, EndedRow DEF ExpireEffect
  <2>2. \A r \in batch : room[r].resultDeadline \in Int /\ at \in Int
    BY <1>0, <1>4, <2>1 DEF ExpireEffect, RoomRow
  <2>3. \A r \in batch : room'[r].endedAt >= room'[r].resultDeadline
    BY <2>1, <2>2
  <2>4. QED
    BY <1>0, <1>4, <2>1, <2>3 DEF ExpireEffect, EndsInTime
<1>5. QED
  BY <1>1, <1>2, <1>3, <1>4, StepEffects

-----------------------------------------------------------------------------
(***************************************************************************)
(* A room ends once.  The condition on one room is stated over its row,    *)
(* sessions, results and events, so that a step that leaves the four alone *)
(* keeps it.                                                               *)
(***************************************************************************)
EndEventOf(r, row) ==
    [room |-> r, version |-> row.version, at |-> row.endedAt,
     type |-> IF row.status = "completed" THEN "room.completed" ELSE "room.expired"]

EndsOnce(r, row, sessions, results, ends) ==
    /\ row.status = "completed" <=> results # {}
    /\ \A c \in results : results = {c} /\ sessions = Finalized(c)
    /\ row.status = "expired" => \A p \in Players : sessions[p] = "forfeited"
    /\ row.status \notin {"completed", "expired"} => ends = {}
    /\ row.status \in {"completed", "expired"} => ends = {EndEventOf(r, row)}

LEMMA OneEndingPerRoom ==
    OneEnding <=>
      \A r \in Rooms : EndsOnce(r, room[r], session[r], ResultsOf(r), EndsOf(r))
BY DEF OneEnding, EndsOnce, Ended, EndEventOf

LEMMA OneEndingStep ==
    ASSUME ResultsInvariant, [Next]_vars
    PROVE  OneEnding'
<1>0. /\ TypeOK /\ room \in [Rooms -> RoomRow] /\ result \in [Identities -> Commands \cup {NoCommand}]
      /\ \A r \in Rooms : EndsOnce(r, room[r], session[r], ResultsOf(r), EndsOf(r))
  BY OneEndingPerRoom DEF ResultsInvariant, TypeOK
<1>1. SUFFICES ASSUME NEW q \in Rooms
               PROVE  EndsOnce(q, room'[q], session'[q], ResultsOf(q)', EndsOf(q)')
  <2>1. OneEnding' <=>
          (\A r \in Rooms : EndsOnce(r, room'[r], session'[r], ResultsOf(r)', EndsOf(r)'))
    BY DEF OneEnding, EndsOnce, Ended, EndEventOf
  <2>2. QED
    BY <1>1, <2>1
<1>2. ASSUME UNCHANGED result
      PROVE  ResultsOf(q)' = ResultsOf(q)
  BY <1>2 DEF ResultsOf
<1>3. CASE UNCHANGED <<room, session, result, events>>
  <2>1. EndsOf(q)' = EndsOf(q)
    BY <1>3 DEF EndsOf
  <2>2. QED
    BY <1>0, <1>2, <1>3, <2>1
<1>4. ASSUME NEW r \in Rooms, FillEffect(r)
      PROVE  EndsOnce(q, room'[q], session'[q], ResultsOf(q)', EndsOf(q)')
  <2>1. ResultsOf(q)' = ResultsOf(q) /\ EndsOf(q)' = EndsOf(q)
    BY <1>2, <1>4 DEF EndsOf, FillEffect
  <2>2. CASE q # r
    BY <1>0, <1>4, <2>1, <2>2 DEF FillEffect
  <2>3. CASE q = r
    BY <1>0, <1>4, <2>1, <2>3 DEF FillEffect, EndsOnce
  <2>4. QED
    BY <2>2, <2>3
<1>5. ASSUME NEW c, NEW r, NEW at, FinalizeEffect(c, r, at)
      PROVE  EndsOnce(q, room'[q], session'[q], ResultsOf(q)', EndsOf(q)')
  <2> DEFINE e == [room |-> r, type |-> "room.completed", version |-> room[r].version + 1, at |-> at]
  <2>1. /\ c \in Commands /\ r = RoomOf[c] /\ r \in Rooms /\ IdentityOf[c] \in Identities
        /\ NoCommand \notin Commands /\ room[r].status = "collecting"
        /\ result[IdentityOf[c]] = NoCommand /\ result' = [result EXCEPT ![IdentityOf[c]] = c]
        /\ events' = events \cup {e} /\ at \in Int
        /\ session'[r] = Finalized(c) /\ room'[r] = Completed(room[r], at)
        /\ q # r => room'[q] = room[q] /\ session'[q] = session[q]
    BY <1>5, ResultAssumption DEF FinalizeEffect
  <2>2. \A x \in Commands :
          (\E i \in Identities : result'[i] = x) <=> (\E i \in Identities : result[i] = x) \/ x = c
    BY <1>0, <2>1
  <2>3. ResultsOf(q)' = ResultsOf(q) \cup (IF q = r THEN {c} ELSE {})
    BY <2>1, <2>2 DEF ResultsOf
  <2>4. EndsOf(q)' = EndsOf(q) \cup (IF q = r THEN {e} ELSE {})
    <3>1. e.room = r
      OBVIOUS
    <3> HIDE DEF e
    <3>2. QED
      BY <2>1, <3>1 DEF EndsOf
  <2>5. CASE q # r
    BY <1>0, <2>1, <2>3, <2>4, <2>5
  <2>6. CASE q = r
    <3>1. ResultsOf(r) = {} /\ EndsOf(r) = {}
      BY <1>0, <2>1 DEF EndsOnce
    <3>2. /\ room'[r].status = "completed" /\ room'[r].version = room[r].version + 1
          /\ room'[r].endedAt = at
      <4>1. room'[r] = Completed(room[r], at) /\ room[r] \in RoomRow /\ at \in Int
        BY <1>0, <2>1
      <4>2. QED
        BY <4>1, EndedRow
    <3>3. e = EndEventOf(r, room'[r])
      BY <3>2 DEF EndEventOf
    <3> HIDE DEF e
    <3>4. ResultsOf(q)' = {c} /\ EndsOf(q)' = {EndEventOf(q, room'[q])}
      BY <2>3, <2>4, <2>6, <3>1, <3>3
    <3>5. QED
      BY <2>1, <2>6, <3>2, <3>4 DEF EndsOnce
  <2>7. QED
    BY <2>5, <2>6
<1>6. ASSUME NEW batch, NEW at, ExpireEffect(batch, at)
      PROVE  EndsOnce(q, room'[q], session'[q], ResultsOf(q)', EndsOf(q)')
  <2> DEFINE e(r) == [room |-> r, type |-> "room.expired", version |-> room[r].version + 1, at |-> at]
  <2>1. /\ batch \subseteq Rooms /\ at \in Int /\ events' = events \cup {e(r) : r \in batch}
        /\ q \in batch => /\ room[q].status = "collecting" /\ room'[q] = Expired(room[q], at)
                          /\ session'[q] = Forfeited(session[q])
        /\ q \notin batch => room'[q] = room[q] /\ session'[q] = session[q]
        /\ ResultsOf(q)' = ResultsOf(q)
    BY <1>2, <1>6 DEF ExpireEffect
  <2>2. \A r : e(r).room = r
    OBVIOUS
  <2>3. q \in batch => /\ room'[q].status = "expired" /\ room'[q].version = room[q].version + 1
                       /\ room'[q].endedAt = at
    <3>1. room[q] \in RoomRow /\ at \in Int
      BY <1>0, <2>1
    <3>2. /\ Expired(room[q], at).status = "expired" /\ Expired(room[q], at).endedAt = at
          /\ Expired(room[q], at).version = room[q].version + 1
      BY <3>1, EndedRow
    <3>3. QED
      BY <2>1, <3>2, Zenon
  <2>4. q \in batch => e(q) = EndEventOf(q, room'[q])
    BY <2>3 DEF EndEventOf
  <2> HIDE DEF e
  <2>5. EndsOf(q)' = EndsOf(q) \cup (IF q \in batch THEN {e(q)} ELSE {})
    BY <2>1, <2>2 DEF EndsOf
  <2>6. CASE q \notin batch
    BY <1>0, <2>1, <2>5, <2>6
  <2>7. CASE q \in batch
    <3>1. ResultsOf(q) = {} /\ EndsOf(q) = {} /\ session[q] = [p \in Players |-> "allocated"]
      BY <1>0, <2>1, <2>7 DEF EndsOnce, ResultsInvariant, CollectingIsOpen
    <3>2. \A p \in Players : session'[q][p] = "forfeited"
      BY <2>1, <2>7, <3>1 DEF Forfeited
    <3>3. EndsOf(q)' = {EndEventOf(q, room'[q])}
      BY <2>4, <2>5, <2>7, <3>1
    <3>4. QED
      BY <2>1, <2>3, <2>7, <3>1, <3>2, <3>3 DEF EndsOnce
  <2>8. QED
    BY <2>6, <2>7
<1>7. QED
  BY <1>3, <1>4, <1>5, <1>6, StepEffects

-----------------------------------------------------------------------------
(***************************************************************************)
(* Answers.                                                                *)
(***************************************************************************)

\* A stored result is the only one of its room, and its room is completed.
LEMMA StoredIsTheEnding ==
    ASSUME ResultsInvariant, NEW c \in Commands, NEW i \in Identities, result[i] = c
    PROVE  /\ i = IdentityOf[c] /\ RoomOf[c] \in Rooms
           /\ room[RoomOf[c]].status = "completed"
           /\ \A j \in StoredFor(RoomOf[c]) : result[j] = c
<1>1. i = IdentityOf[c] /\ RoomOf[c] \in Rooms
  BY ResultAssumption DEF ResultsInvariant, ResultsHaveIdentity
<1>2. c \in ResultsOf(RoomOf[c])
  BY DEF ResultsOf
<1>3. room[RoomOf[c]].status = "completed" /\ ResultsOf(RoomOf[c]) = {c}
  BY <1>1, <1>2 DEF ResultsInvariant, OneEnding
<1>4. ASSUME NEW j \in StoredFor(RoomOf[c])
      PROVE  result[j] = c
  <2>1. result[j] \in ResultsOf(RoomOf[c])
    BY <1>4, ResultAssumption DEF StoredFor, ResultsOf, ResultsInvariant, TypeOK
  <2>2. QED
    BY <1>3, <2>1
<1>5. QED
  BY <1>1, <1>3, <1>4

\* The answer t is true of the tables.
Agrees(t) ==
    /\ result[IdentityOf[t.cmd]] = t.cmd
    /\ room[RoomOf[t.cmd]].status = "completed"
    /\ t.version = room[RoomOf[t.cmd]].version
    /\ t.completedAt = room[RoomOf[t.cmd]].endedAt

\* No step takes back what an answer said.
LEMMA AgreementLasts ==
    ASSUME ResultsInvariant, [Next]_vars, NEW t \in Told, Agrees(t)
    PROVE  Agrees(t)'
<1>0. /\ t.cmd \in Commands /\ IdentityOf[t.cmd] \in Identities /\ RoomOf[t.cmd] \in Rooms
      /\ NoCommand \notin Commands /\ result \in [Identities -> Commands \cup {NoCommand}]
  BY ResultAssumption DEF Told, ResultsInvariant, TypeOK
<1>1. room'[RoomOf[t.cmd]] = room[RoomOf[t.cmd]]
  BY <1>0, StepEffects DEF Agrees, FillEffect, FinalizeEffect, ExpireEffect
<1>2. result'[IdentityOf[t.cmd]] = t.cmd
  <2>1. CASE UNCHANGED result
    BY <2>1 DEF Agrees
  <2>2. ASSUME NEW c, NEW r, NEW at, FinalizeEffect(c, r, at)
        PROVE  result'[IdentityOf[t.cmd]] = t.cmd
    BY <1>0, <2>2 DEF Agrees, FinalizeEffect
  <2>3. QED
    BY <2>1, <2>2, StepEffects DEF FillEffect, ExpireEffect
<1>3. QED
  BY <1>1, <1>2 DEF Agrees

\* An answer given by a step is true of the tables the step leaves.
LEMMA NewAnswersAgree ==
    ASSUME ResultsInvariant, [Next]_vars, NEW t \in told', t \notin told
    PROVE  Agrees(t)'
<1>0. /\ call \in [Servers -> Call] /\ CallsAreReal /\ room \in [Rooms -> RoomRow]
      /\ result \in [Identities -> Commands \cup {NoCommand}]
      /\ NoCommand \notin Commands /\ IdentityOf \in [Commands -> Identities]
      /\ RoomOf \in [Commands -> Rooms]
  BY ResultAssumption DEF ResultsInvariant, TypeOK
<1>1. ASSUME NEW c \in Commands, NEW i \in Identities, result[i] = c,
             Tells(c, room[RoomOf[c]]), UNCHANGED <<room, result>>
      PROVE  Agrees(t)'
  <2>1. i = IdentityOf[c] /\ room[RoomOf[c]].status = "completed"
    BY <1>1, StoredIsTheEnding
  <2>2. t = [cmd |-> c, version |-> room[RoomOf[c]].version,
             completedAt |-> room[RoomOf[c]].endedAt]
    BY <1>1 DEF Tells
  <2>3. t.cmd = c /\ t.version = room[RoomOf[c]].version /\ t.completedAt = room[RoomOf[c]].endedAt
    BY <2>2
  <2>4. QED
    BY <1>1, <2>1, <2>3 DEF Agrees
<1>2. ASSUME NEW s \in Servers, LookUp(s)
      PROVE  Agrees(t)'
  <2>1. call[s].cmd \in Commands /\ IdentityOf[call[s].cmd] \in Identities
    BY <1>0, <1>2 DEF LookUp, CallsAreReal
  <2>2. /\ result[IdentityOf[call[s].cmd]] = call[s].cmd
        /\ Tells(call[s].cmd, room[RoomOf[call[s].cmd]])
        /\ UNCHANGED <<room, result>>
    BY <1>2 DEF LookUp, SameDigest
  <2>3. QED
    BY <1>1, <2>1, <2>2
<1>3. ASSUME NEW s \in Servers, AnswerEnded(s)
      PROVE  Agrees(t)'
  <2>1. call[s].cmd \in Commands
    BY <1>0, <1>3 DEF AnswerEnded, CallsAreReal
  <2>2. /\ \E i \in Identities : result[i] = call[s].cmd
        /\ Tells(call[s].cmd, room[RoomOf[call[s].cmd]])
        /\ UNCHANGED <<room, result>>
    BY <1>3 DEF AnswerEnded, SameDigest, StoredFor
  <2>3. QED
    BY <1>1, <2>1, <2>2
<1>4. ASSUME NEW s \in Servers, Finalize(s),
             FinalizeEffect(call[s].cmd, RoomOf[call[s].cmd], call[s].acceptedAt)
      PROVE  Agrees(t)'
  <2> DEFINE c == call[s].cmd
             r == RoomOf[c]
             ended == Completed(room[r], call[s].acceptedAt)
  <2>1. /\ c \in Commands /\ r \in Rooms /\ IdentityOf[c] \in Identities /\ room'[r] = ended
        /\ result' = [result EXCEPT ![IdentityOf[c]] = c] /\ call[s].acceptedAt \in Int
    BY <1>0, <1>4 DEF FinalizeEffect
  <2>2. ended.status = "completed"
    BY <1>0, <2>1, EndedRow
  <2>3. Tells(c, ended)
    BY <1>4, Zenon DEF Finalize
  <2> HIDE DEF c, ended
  <2>4. t = [cmd |-> c, version |-> ended.version, completedAt |-> ended.endedAt]
    BY <2>3 DEF Tells
  <2>5. t.cmd = c /\ t.version = ended.version /\ t.completedAt = ended.endedAt
    BY <2>4
  <2>6. QED
    BY <1>0, <2>1, <2>2, <2>5 DEF Agrees
<1>5. ~UNCHANGED told
  OBVIOUS
<1>6. \A s \in Servers : Finalize(s) =>
        FinalizeEffect(call[s].cmd, RoomOf[call[s].cmd], call[s].acceptedAt)
  BY FinalizeHasEffect
<1>7. QED
  BY <1>2, <1>3, <1>4, <1>5, <1>6 DEF Next, vars, Fill, Arrive, Invalid, Refuse, Fail, Expire, Tick

LEMMA AgreeStep ==
    ASSUME ResultsInvariant, [Next]_vars
    PROVE  AnswersAgree'
<1>1. told \subseteq Told /\ \A t \in told : Agrees(t)
  BY DEF ResultsInvariant, TypeOK, AnswersAgree, Agrees
<1>2. ASSUME NEW t \in told'
      PROVE  Agrees(t)'
  BY <1>1, AgreementLasts, NewAnswersAgree
<1>3. QED
  BY <1>2 DEF AnswersAgree, Agrees

-----------------------------------------------------------------------------
(***************************************************************************)
(* The theorems.                                                           *)
(***************************************************************************)
LEMMA InvariantInitially ==
    Init => ResultsInvariant
<1> SUFFICES ASSUME Init PROVE ResultsInvariant
  OBVIOUS
<1>1. /\ FormingRoom \in RoomRow /\ FormingRoom.status = "forming"
      /\ NoCall \in Call /\ NoCall.phase = "idle"
  BY DEF FormingRoom, RoomRow, NoCall, Call, Answer
<1>2. TypeOK
  BY <1>1 DEF Init, TypeOK, SessionStatus
<1>3. /\ CallsAreReal /\ CollectingIsOpen /\ AnswersAgree /\ EndsInTime
      /\ \A r \in Rooms : room[r].status = "forming"
  BY <1>1 DEF Init, CallsAreReal, CollectingIsOpen, AnswersAgree, EndsInTime
<1>4. ResultsHaveIdentity /\ \A r \in Rooms : ResultsOf(r) = {} /\ EndsOf(r) = {}
  BY ResultAssumption DEF Init, ResultsHaveIdentity, ResultsOf, EndsOf
<1>5. OneEnding
  BY <1>3, <1>4 DEF OneEnding, Ended
<1>6. QED
  BY <1>2, <1>3, <1>4, <1>5 DEF ResultsInvariant

LEMMA InvariantStep ==
    ResultsInvariant /\ [Next]_vars => ResultsInvariant'
<1> SUFFICES ASSUME ResultsInvariant, [Next]_vars PROVE ResultsInvariant'
  OBVIOUS
<1>1. TypeOK /\ CallsAreReal
  BY DEF ResultsInvariant
<1>2. TypeOK' /\ CallsAreReal'
  BY <1>1, TypeStep, CallsStep
<1>3. QED
  BY <1>2, IdentityStep, OpenStep, OneEndingStep, AgreeStep, InTimeStep DEF ResultsInvariant

\* However reports, replays, failures, skewed clocks and deadline runners interleave,
\* the tables FinalizeResult and ExpireResultRooms write keep the whole invariant.
THEOREM InvariantHolds == Spec => []ResultsInvariant
BY InvariantInitially, InvariantStep, PTL DEF Spec

\* Every row the result handler and the deadline runner write is one the schema knows.
THEOREM TypeCorrect == Spec => []TypeOK
<1>1. ResultsInvariant => TypeOK
  BY DEF ResultsInvariant
<1>2. QED
  BY <1>1, InvariantHolds, PTL

\* Whoever wins the race between FinalizeResult and ExpireResultRooms, a room ends
\* once: one result and the sessions it names, or only forfeits, and one event.
THEOREM OneEndingAlways == Spec => []OneEnding
<1>1. ResultsInvariant => OneEnding
  BY DEF ResultsInvariant
<1>2. QED
  BY <1>1, InvariantHolds, PTL

\* Every success FinalizeResult told, first answer or replay, stays true of the tables.
THEOREM AnswersAlwaysAgree == Spec => []AnswersAgree
<1>1. ResultsInvariant => AnswersAgree
  BY DEF ResultsInvariant
<1>2. QED
  BY <1>1, InvariantHolds, PTL

\* A room completes between its fill and its deadline (so rooms_completed_order never
\* refuses a result that passed the checks) and expires at its deadline or later,
\* whatever the skew of the servers' and the runners' clocks.
THEOREM EndsAlwaysInTime == Spec => []EndsInTime
<1>1. ResultsInvariant => EndsInTime
  BY DEF ResultsInvariant
<1>2. QED
  BY <1>1, InvariantHolds, PTL

\* An answer to a request whose result is stored: it is not refused, or the server's
\* clock was behind available_at when it arrived.
Kept(request, answer) ==
    \/ answer \in {"replay", "error"}
    \/ answer = "invalid" /\ request.acceptedAt < AvailableAt[request.cmd]

\* What a server answers to a request whose result is stored.
NoRefusal ==
    \A s \in Servers :
      LET c == call[s].cmd
      IN  /\ call[s].phase \in {"arrived", "looked"}
          /\ call'[s].phase = "idle"
          /\ result[IdentityOf[c]] = c
          => \/ call'[s].answer \in {"replay", "error"}
             \/ /\ call'[s].answer = "invalid"
                /\ call[s].acceptedAt < AvailableAt[c]

LEMMA NoRefusalStep ==
    ASSUME ResultsInvariant, [Next]_vars
    PROVE  NoRefusal
<1>0. call \in [Servers -> Call] /\ CallsAreReal /\ IdentityOf \in [Commands -> Identities]
      /\ NoCommand \notin Commands
  BY ResultAssumption DEF ResultsInvariant, TypeOK
<1>1. SUFFICES ASSUME NEW s \in Servers,
                      call[s].phase \in {"arrived", "looked"}, call'[s].phase = "idle",
                      result[IdentityOf[call[s].cmd]] = call[s].cmd
               PROVE  Kept(call[s], call'[s].answer)
  BY DEF NoRefusal, Kept
<1> DEFINE c == call[s].cmd
<1>2. /\ c \in Commands /\ c # NoCommand
      /\ room[RoomOf[c]].status = "completed" /\ IdentityOf[c] \in StoredFor(RoomOf[c])
      /\ \A j \in StoredFor(RoomOf[c]) : result[j] = c
  <2>1. c \in Commands /\ IdentityOf[c] \in Identities
    BY <1>0, <1>1 DEF CallsAreReal
  <2>2. QED
    BY <1>0, <1>1, <2>1, StoredIsTheEnding DEF StoredFor
<1>3. ~UNCHANGED call
  BY <1>1
<1>4. \A answer \in Answer : Answers(s, answer) => call'[s].answer = answer
  BY <1>0, AnswersCall
<1>5. ASSUME NEW u \in Servers, NEW answer \in Answer, Answers(u, answer)
      PROVE  u = s /\ call'[s].answer = answer
  BY <1>0, <1>1, <1>5, AnswersCall
<1>6. {"replay", "conflict", "not_collecting", "deadline_passed", "mismatch", "stored",
       "invalid", "error"} \subseteq Answer
  BY DEF Answer
<1>7. ASSUME NEW u \in Servers, NEW d \in Commands, Arrive(u, d)
      PROVE  FALSE
  BY <1>0, <1>1, <1>7 DEF Arrive
<1>8. ASSUME NEW u \in Servers, LookUp(u)
      PROVE  Kept(call[s], call'[s].answer)
  <2>1. CASE call' = [call EXCEPT ![u] = [call[u] EXCEPT !.phase = "looked"]]
    <3>1. [call[u] EXCEPT !.phase = "looked"].phase = "looked"
      BY <1>0 DEF Call
    <3>2. QED
      BY <1>0, <1>1, <2>1, <3>1
  <2>2. CASE \E answer \in Answer : Answers(u, answer)
    <3>1. u = s
      BY <1>5, <2>2
    <3>2. QED
      BY <1>1, <1>2, <1>4, <1>6, <1>8, <2>1, <3>1 DEF LookUp, SameDigest, Kept
  <2>3. QED
    BY <1>6, <1>8, <2>1, <2>2 DEF LookUp
<1>9. ASSUME NEW u \in Servers, AnswerEnded(u) \/ Refuse(u) \/ Finalize(u) \/ Fail(u)
       PROVE  Kept(call[s], call'[s].answer)
  <2>1. u = s
    <3>1. \E answer \in Answer : Answers(u, answer)
      BY <1>6, <1>9 DEF AnswerEnded, Refuse, Finalize, Fail
    <3>2. QED
      BY <1>5, <3>1
  <2>2. ~Refuse(s) /\ ~Finalize(s)
    BY <1>2 DEF Refuse, Finalize
  <2>3. CASE Fail(s)
    BY <1>4, <1>6, <2>3 DEF Fail, Kept
  <2>4. CASE AnswerEnded(s)
    BY <1>2, <1>4, <1>6, <2>4 DEF AnswerEnded, SameDigest, Kept
  <2>5. QED
    BY <1>9, <2>1, <2>2, <2>3, <2>4
<1>10. ASSUME NEW u \in Servers, Invalid(u)
       PROVE  Kept(call[s], call'[s].answer)
  <2>1. u = s /\ call'[s].answer = "invalid"
    BY <1>5, <1>6, <1>10 DEF Invalid
  <2>2. call[s].acceptedAt \in Int /\ AvailableAt[c] \in Int
    BY <1>0, <1>2, ResultAssumption DEF Call
  <2>3. call[s].acceptedAt < AvailableAt[c]
    BY <1>10, <2>1, <2>2 DEF Invalid, Valid
  <2>4. QED
    BY <2>1, <2>3 DEF Kept
<1>11. QED
  BY <1>3, <1>7, <1>8, <1>9, <1>10 DEF Next, vars, Fill, Expire, Tick

\* "An already committed identical result remains replayable after the deadline": once
\* FinalizeResult has stored a result, no request with it is refused, also one that
\* had looked before another server stored it, unless the clock of the server it
\* reached was behind available_at.
THEOREM StoredNeverRefused == Spec => StoredIsNeverRefused
<1>1. ResultsInvariant /\ [Next]_vars => [NoRefusal]_vars
  BY NoRefusalStep
<1>2. Spec => [][NoRefusal]_vars
  BY <1>1, InvariantHolds, PTL DEF Spec
<1>3. QED
  BY <1>2 DEF StoredIsNeverRefused, NoRefusal
=============================================================================
