-------------------------- MODULE TicketAssignment --------------------------
(***************************************************************************)
(* The life of a matchmaking ticket, from its acceptance to its only       *)
(* terminal state, and of the room that takes it, up to the moment the     *)
(* room is full: internal/postgres/tickets.go and matchmaking_queue.go,    *)
(* driven by the HTTP handlers of internal/httpapi/tickets.go and by the   *)
(* worker of internal/worker (runner.go, processor.go).                    *)
(*                                                                         *)
(* Every PostgreSQL transaction is one action: it locks the ticket row,    *)
(* then the room row, and all it reads afterwards is guarded by those      *)
(* locks.  A worker's attempt is several actions, because it claims the    *)
(* ticket, reads the rooms, reads their members and commits its decision   *)
(* in separate statements, between which anything may happen.              *)
(*                                                                         *)
(* All tickets and rooms are those of one tournament version (one mode,    *)
(* capacity, policy and rating model): the queries and AssignTicket accept *)
(* no other combination.                                                   *)
(***************************************************************************)
EXTENDS MatchingPolicy

CONSTANTS
    Rooms,            \* room identities; the rows are inserted by the game backend
    NoRoom,           \* the absence of a room
    Workers,          \* runner processes
    Skew,             \* each worker's clock minus the database clock
    RequestOffsets,   \* requested_at, which the client supplies, minus the clock
    CancelCommands,   \* Idempotency-Key values of cancellations
    BatchSize,        \* RunnerOptions.BatchSize
    LeaseDuration,    \* RunnerOptions.LeaseDuration
    FailureBackoff,   \* RunnerOptions.FailureBackoff
    StaleRetryDelay,  \* MatchProcessor.staleRetryDelay
    RoomWindow,       \* fill_deadline - created_at of a room
    ResultTimeout,    \* tournament_configs.result_timeout_ms
    MaxTime,          \* bound: the clock stops here
    LastRequest,      \* bound: no ticket is accepted, no room opened after this time
    LastFault,        \* bound: no fault happens after this time
    MaxFaults         \* bound: number of faults in a behaviour

\* An event names its aggregate by type and id, so a ticket and a room never share one.
ASSUME AssignmentAssumption ==
    /\ NoRoom \notin Rooms
    /\ Tickets \cap Rooms = {}
    /\ Skew \in [Workers -> Int]
    /\ RequestOffsets \subseteq Int
    /\ BatchSize \in Nat \ {0}
    /\ LeaseDuration \in Nat \ {0}
    /\ FailureBackoff \in Nat \ {0}
    /\ StaleRetryDelay \in Nat \ {0}
    /\ RoomWindow \in 1..FillTimeout
    /\ ResultTimeout \in Nat \ {0}
    /\ MaxTime \in Nat
    /\ LastRequest \in Int
    /\ LastFault \in Int
    /\ MaxFaults \in Nat

VARIABLES
    clock,       \* clock_timestamp() of the database
    ticket,      \* matchmaking_tickets
    room,        \* rooms
    membership,  \* room_memberships and the session inserted with it, by ticket
    outbox,      \* outbox_events
    commands,    \* ticket_commands
    shadowWork,  \* rating_shadow_work of kind "room"
    work,        \* work[w][t]: the goroutine of worker w that handles ticket t
    faults       \* faults so far

vars == <<clock, ticket, room, membership, outbox, commands, shadowWork, work, faults>>

-----------------------------------------------------------------------------
(***************************************************************************)
(* State.  The token of a claim is the attempt number the same UPDATE      *)
(* writes: like the random token it is never used twice for one ticket.    *)
(* Zero stands for NULL in token and claimedUntil (and in nextAttemptAt    *)
(* once the ticket is no longer queued).                                   *)
(***************************************************************************)
TicketStatus == {"none", "queued", "assigned", "cancelled", "expired"}

Terminal == {"assigned", "cancelled", "expired"}

TicketRow ==
    [status : TicketStatus, version : Nat, requestedAt : Int, endedAt : Int,
     nextAttemptAt : Int, token : Nat, claimedUntil : Int, attempts : Nat]

RoomRow ==
    [status : {"none", "forming", "collecting"}, version : Nat,
     createdAt : Int, fillDeadline : Int, filledAt : Int, resultDeadline : Int]

\* `scored' is not a column: it records the members the matcher saw when it
\* chose the room.  roomVersion is the column room_version.
MembershipRow ==
    [room : Rooms \cup {NoRoom}, seat : Nat, assignedAt : Int,
     roomVersion : Nat, scored : SUBSET Tickets]

Event ==
    [aggregate : Tickets \cup Rooms, version : Nat,
     type : {"ticket.accepted", "ticket.assigned", "ticket.cancelled",
             "ticket.expired", "room.filled"}]

RoomView ==
    [id : Rooms, version : Nat, createdAt : Int, deadline : Int,
     members : SUBSET Tickets]

\* A handler between two statements: what it knows is what it has read.
\*   claimed  it holds a claim taken at `at'
\*   loaded   it has read the rows of the compatible rooms
\*   assign   it will assign the ticket to `room'
\*   retry    it will schedule the next attempt at retryAt
\*   expire   it will expire the ticket
\*   failed   it returned an error: the runner will schedule the next attempt
Handler ==
    [phase : {"idle", "claimed", "loaded", "assign", "retry", "expire", "failed"},
     token : Nat, at : Int, views : SUBSET RoomView,
     room : Rooms \cup {NoRoom}, version : Nat, scored : SUBSET Tickets,
     retryAt : Int]

NoTicket ==
    [status |-> "none", version |-> 0, requestedAt |-> 0, endedAt |-> 0,
     nextAttemptAt |-> 0, token |-> 0, claimedUntil |-> 0, attempts |-> 0]

RoomUnborn ==
    [status |-> "none", version |-> 0, createdAt |-> 0, fillDeadline |-> 0,
     filledAt |-> 0, resultDeadline |-> 0]

Unseated ==
    [room |-> NoRoom, seat |-> 0, assignedAt |-> 0, roomVersion |-> 0, scored |-> {}]

Idle ==
    [phase |-> "idle", token |-> 0, at |-> 0, views |-> {}, room |-> NoRoom,
     version |-> 0, scored |-> {}, retryAt |-> 0]

TypeOK ==
    /\ clock \in Nat
    /\ ticket \in [Tickets -> TicketRow]
    /\ room \in [Rooms -> RoomRow]
    /\ membership \in [Tickets -> MembershipRow]
    /\ outbox \subseteq Event
    /\ commands \subseteq Tickets \X (CancelCommands \cup {"expiry"})
    /\ shadowWork \subseteq Rooms \X Int
    /\ work \in [Workers -> [Tickets -> Handler]]
    /\ faults \in Nat

Init ==
    /\ clock = 0
    /\ ticket = [t \in Tickets |-> NoTicket]
    /\ room = [r \in Rooms |-> RoomUnborn]
    /\ membership = [t \in Tickets |-> Unseated]
    /\ outbox = {}
    /\ commands = {}
    /\ shadowWork = {}
    /\ work = [w \in Workers |-> [t \in Tickets |-> Idle]]
    /\ faults = 0

-----------------------------------------------------------------------------
(***************************************************************************)
(* Helpers.                                                                *)
(***************************************************************************)

\* Time as worker w sees it.
Now(w) == clock + Skew[w]

MembersOf(r) == {t \in Tickets : membership[t].room = r}

Snapshots == [t \in Tickets |-> ticket[t].requestedAt]

\* generate_series(1, capacity) less the seats that are taken, and the first row
\* of it, as a set with at most one member.
FreeSeats(r) ==
    {s \in 1..Capacity : \A t \in MembersOf(r) : membership[t].seat # s}

LowestFreeSeat(r) == {s \in FreeSeats(r) : \A u \in FreeSeats(r) : s <= u}

\* Mutant of Ended: NULL is written as -1.
EndedWithMinusOne(row, status, at) ==
    [row EXCEPT !.status = status, !.version = @ + 1, !.endedAt = at,
                !.nextAttemptAt = -1, !.token = -1, !.claimedUntil = -1]

\* A terminal transition of a ticket: every one of them advances the version
\* and drops the schedule and the claim.
Ended(row, status, at) ==
    [row EXCEPT !.status = status, !.version = @ + 1, !.endedAt = at,
                !.nextAttemptAt = 0, !.token = 0, !.claimedUntil = 0]

\* Mutant of OwnsActiveClaim: a lease is enough, whoever holds it.
SomebodyOwnsClaim(t, token) ==
    ticket[t].status = "queued" /\ ticket[t].claimedUntil > clock

\* Mutant of OwnsActiveClaim: the worker trusts its claim until another attempt
\* begins, without looking at the status.
LastAttemptIsMine(t, token) == ticket[t].attempts = token

\* queued, token and claimed_until > clock_timestamp(): ownsActiveClaim and the
\* WHERE clause of ScheduleTicketRetry.
OwnsActiveClaim(t, token) ==
    /\ ticket[t].status = "queued"
    /\ ticket[t].token = token
    /\ ticket[t].claimedUntil > clock

\* Mutant of RoomAvailable: the version of the room is not compared.
RoomAvailableUnversioned(t, h) ==
    /\ h.room \in Rooms
    /\ room[h.room].status = "forming"
    /\ h.at <= room[h.room].fillDeadline
    /\ Cardinality(MembersOf(h.room)) < Capacity
    /\ \A m \in MembersOf(h.room) : PlayerOf[m] # PlayerOf[t]

\* What AssignTicket requires of the locked room.
RoomAvailable(t, h) ==
    /\ h.room \in Rooms
    /\ room[h.room].status = "forming"
    /\ room[h.room].version = h.version
    /\ h.at <= room[h.room].fillDeadline
    /\ Cardinality(MembersOf(h.room)) < Capacity
    /\ \A m \in MembersOf(h.room) : PlayerOf[m] # PlayerOf[t]
    /\ FreeSeats(h.room) # {}

\* Mutant of Fills: the new member is not counted.
FillsTooLate(r) == Cardinality(MembersOf(r)) = Capacity

\* roomFilled in AssignTicket: this assignment takes the last seat.
Fills(r) == Cardinality(MembersOf(r)) + 1 = Capacity

\* The row of a room after an assignment.
Joined(row, filled, at) ==
    [row EXCEPT !.version = @ + 1,
                !.status = IF filled THEN "collecting" ELSE @,
                !.filledAt = IF filled THEN at ELSE @,
                !.resultDeadline = IF filled THEN at + ResultTimeout ELSE @]

\* Mutant of Cancellable: an assigned ticket may still be cancelled.
CancellableWhenAssigned(t) == ticket[t].status \in {"queued", "assigned"}

\* The status CancelTicket changes.
Cancellable(t) == ticket[t].status = "queued"

CanFault == faults < MaxFaults /\ clock <= LastFault

-----------------------------------------------------------------------------
(***************************************************************************)
(* The HTTP API: accept and cancel.  A repeated call (same entry, or same  *)
(* cancellation command) replays the stored answer and changes nothing; a  *)
(* call with the same identity and another body is refused.                *)
(***************************************************************************)

\* AcceptTicket, its first call for this entry.
Accept(t) ==
    /\ clock <= LastRequest
    /\ ticket[t].status = "none"
    /\ \E d \in RequestOffsets :
         ticket' = [ticket EXCEPT ![t] =
                      [NoTicket EXCEPT !.status = "queued", !.version = 1,
                                       !.requestedAt = clock + d,
                                       !.nextAttemptAt = clock + d]]
    /\ outbox' = outbox \cup
         {[aggregate |-> t, version |-> 1, type |-> "ticket.accepted"]}
    /\ UNCHANGED <<clock, room, membership, commands, shadowWork, work, faults>>

\* CancelTicket of a queued ticket.
Cancel(t, c) ==
    /\ <<t, c>> \notin commands
    /\ Cancellable(t)
    /\ ticket' = [ticket EXCEPT ![t] = Ended(@, "cancelled", clock)]
    /\ commands' = commands \cup {<<t, c>>}
    /\ outbox' = outbox \cup
         {[aggregate |-> t, version |-> ticket[t].version + 1,
           type |-> "ticket.cancelled"]}
    /\ UNCHANGED <<clock, room, membership, shadowWork, work, faults>>

\* CancelTicket of a ticket that is already cancelled: the new command is
\* recorded, and nothing is announced.
CancelAgain(t, c) ==
    /\ <<t, c>> \notin commands
    /\ ticket[t].status = "cancelled"
    /\ commands' = commands \cup {<<t, c>>}
    /\ UNCHANGED <<clock, ticket, room, membership, outbox, shadowWork, work, faults>>

\* The game backend opens a room (no code of the repository inserts one).
OpenRoom(r) ==
    /\ clock <= LastRequest
    /\ room[r].status = "none"
    /\ room' = [room EXCEPT ![r] =
                  [RoomUnborn EXCEPT !.status = "forming", !.version = 1,
                                     !.createdAt = clock,
                                     !.fillDeadline = clock + RoomWindow]]
    /\ UNCHANGED <<clock, ticket, membership, outbox, commands, shadowWork, work, faults>>

-----------------------------------------------------------------------------
(***************************************************************************)
(* The matchmaking worker.                                                 *)
(***************************************************************************)

Goes(w, t, h) == work' = [work EXCEPT ![w][t] = h]

Stops(w, t) == Goes(w, t, Idle)

\* Mutant of Due: a claim is never taken over.
DueUnclaimed(at) ==
    {t \in Tickets : /\ ticket[t].status = "queued"
                     /\ ticket[t].nextAttemptAt <= at
                     /\ ticket[t].token = 0}

\* Tickets ClaimMatchmakingTickets may take at this time.
Due(at) ==
    {t \in Tickets : /\ ticket[t].status = "queued"
                     /\ ticket[t].nextAttemptAt <= at
                     /\ ticket[t].token = 0 \/ ticket[t].claimedUntil <= at}

\* Runner.RunOnce begins when the goroutines of the previous round are done.
\* SKIP LOCKED leaves out the rows other transactions hold, whichever they are,
\* so the batch is any set of due tickets up to the limit.
Claim(w) ==
    /\ \A t \in Tickets : work[w][t].phase = "idle"
    /\ \E batch \in SUBSET Due(Now(w)) :
         /\ batch # {}
         /\ Cardinality(batch) <= BatchSize
         /\ ticket' = [t \in Tickets |->
              IF t \in batch
                THEN [ticket[t] EXCEPT !.token = ticket[t].attempts + 1,
                                       !.attempts = ticket[t].attempts + 1,
                                       !.claimedUntil = Now(w) + LeaseDuration]
                ELSE ticket[t]]
         /\ work' = [work EXCEPT ![w] = [t \in Tickets |->
              IF t \in batch
                THEN [Idle EXCEPT !.phase = "claimed", !.at = Now(w),
                                  !.token = ticket[t].attempts + 1]
                ELSE Idle]]
    /\ UNCHANGED <<clock, room, membership, outbox, commands, shadowWork, faults>>

\* The rooms the first query of loadCompatibleRooms may select.
CompatibleRooms(at) ==
    {r \in Rooms : room[r].status = "forming" /\ room[r].fillDeadline >= at}

\* ... LIMIT RoomLimit, oldest first.
OldestRooms(S, n) ==
    {L \in SUBSET S :
        /\ Cardinality(L) <= n
        /\ L # S => Cardinality(L) = n
        /\ \A r \in L, q \in S \ L : room[r].createdAt <= room[q].createdAt}

\* First statement of loadCompatibleRooms: the rooms and their versions.
LoadRooms(w, t) ==
    /\ work[w][t].phase = "claimed"
    /\ \E L \in OldestRooms(CompatibleRooms(work[w][t].at), RoomLimit) :
         Goes(w, t,
              [work[w][t] EXCEPT !.phase = "loaded",
                 !.views = {[id |-> r, version |-> room[r].version,
                             createdAt |-> room[r].createdAt,
                             deadline |-> room[r].fillDeadline,
                             members |-> {}] : r \in L}])
    /\ UNCHANGED <<clock, ticket, room, membership, outbox, commands, shadowWork, faults>>

\* Second statement: the members those rooms have by now.
WithMembers(views) == {[v EXCEPT !.members = MembersOf(v.id)] : v \in views}

\* The handler's error path: Runner schedules the ticket FailureBackoff later.
Failed(w, h) ==
    [Idle EXCEPT !.phase = "failed", !.token = h.token, !.at = h.at,
                 !.retryAt = Now(w) + FailureBackoff]

\* Second statement of loadCompatibleRooms, then AttemptMatch on what was read.
Evaluate(w, t) ==
    /\ work[w][t].phase = "loaded"
    /\ LET h      == work[w][t]
           views  == WithMembers(h.views)
           joined == ticket[t].requestedAt
           next   == [h EXCEPT !.views = {}]
       IN  IF AttemptFails(views, t, h.at, Snapshots)
             THEN Goes(w, t, Failed(w, h))
             ELSE \/ \E v \in Matches(views, t, joined, h.at) :
                       Goes(w, t, [next EXCEPT !.phase = "assign", !.room = v.id,
                                               !.version = v.version,
                                               !.scored = v.members])
                  \/ /\ TimedOut(views, t, joined, h.at)
                     /\ Goes(w, t, [next EXCEPT !.phase = "expire"])
                  \/ /\ Matches(views, t, joined, h.at) = {}
                     /\ ~TimedOut(views, t, joined, h.at)
                     /\ \E b \in NextRetryBoundary(views, joined, h.at) :
                          Goes(w, t, [next EXCEPT !.phase = "retry", !.retryAt = b])
    /\ UNCHANGED <<clock, ticket, room, membership, outbox, commands, shadowWork, faults>>

\* After its transaction a handler is done; when the answer of a committed
\* transaction is lost it takes its error path instead.
AfterCommit(w, t) ==
    \/ Stops(w, t) /\ UNCHANGED faults
    \/ /\ CanFault
       /\ Goes(w, t, Failed(w, work[w][t]))
       /\ faults' = faults + 1

\* AssignTicket commits: ticket, room, membership, session, events and, when the
\* room fills, the shadow work item.
Assign(w, t) ==
    LET h      == work[w][t]
        r      == h.room
        filled == Fills(r)
    IN  /\ h.phase = "assign"
        /\ OwnsActiveClaim(t, h.token)
        /\ RoomAvailable(t, h)
        /\ ticket' = [ticket EXCEPT ![t] = Ended(@, "assigned", h.at)]
        /\ room' = [room EXCEPT ![r] = Joined(@, filled, h.at)]
        /\ \E s \in LowestFreeSeat(r) :
             membership' = [membership EXCEPT ![t] =
                              [room |-> r, seat |-> s, assignedAt |-> h.at,
                               roomVersion |-> room[r].version + 1,
                               scored |-> h.scored]]
        /\ outbox' = outbox
             \cup {[aggregate |-> t, version |-> ticket[t].version + 1,
                    type |-> "ticket.assigned"]}
             \cup (IF filled
                     THEN {[aggregate |-> r, version |-> room[r].version + 1,
                            type |-> "room.filled"]}
                     ELSE {})
        /\ shadowWork' = IF filled THEN shadowWork \cup {<<r, h.at>>} ELSE shadowWork
        /\ AfterCommit(w, t)
        /\ UNCHANGED <<clock, commands>>

\* AssignTicket finds another room than the one it evaluated: the ticket is
\* tried again StaleRetryDelay after the evaluation.
AssignStale(w, t) ==
    LET h == work[w][t]
    IN  /\ h.phase = "assign"
        /\ OwnsActiveClaim(t, h.token)
        /\ ~RoomAvailable(t, h)
        /\ Goes(w, t, [Idle EXCEPT !.phase = "retry", !.token = h.token, !.at = h.at,
                                   !.retryAt = h.at + StaleRetryDelay])
        /\ UNCHANGED <<clock, ticket, room, membership, outbox, commands, shadowWork, faults>>

\* ExpireTicket commits.
Expire(w, t) ==
    LET h == work[w][t]
    IN  /\ h.phase = "expire"
        /\ OwnsActiveClaim(t, h.token)
        /\ ticket' = [ticket EXCEPT ![t] = Ended(@, "expired", h.at)]
        /\ commands' = commands \cup {<<t, "expiry">>}
        /\ outbox' = outbox \cup
             {[aggregate |-> t, version |-> ticket[t].version + 1,
               type |-> "ticket.expired"]}
        /\ AfterCommit(w, t)
        /\ UNCHANGED <<clock, room, membership, shadowWork>>

\* ScheduleTicketRetry, of the handler or of the runner, releases the claim.
ScheduleRetry(w, t) ==
    LET h == work[w][t]
    IN  /\ h.phase \in {"retry", "failed"}
        /\ OwnsActiveClaim(t, h.token)
        /\ ticket' = [ticket EXCEPT ![t] =
                        [@ EXCEPT !.nextAttemptAt = h.retryAt,
                                  !.token = 0, !.claimedUntil = 0]]
        /\ Stops(w, t)
        /\ UNCHANGED <<clock, room, membership, outbox, commands, shadowWork, faults>>

\* The claim is no longer this handler's, or the ticket is no longer queued:
\* every write refuses it, and so does the retry the runner then asks for.
ClaimLost(w, t) ==
    /\ work[w][t].phase \in {"assign", "retry", "expire", "failed"}
    /\ ~OwnsActiveClaim(t, work[w][t].token)
    /\ Stops(w, t)
    /\ UNCHANGED <<clock, ticket, room, membership, outbox, commands, shadowWork, faults>>

-----------------------------------------------------------------------------
(***************************************************************************)
(* Faults and time.                                                        *)
(***************************************************************************)

\* A statement of the handler fails or its context expires: the runner schedules
\* a retry, once, or cannot and leaves the claim to expire.
StatementFails(w, t) ==
    /\ CanFault
    /\ work[w][t].phase # "idle"
    /\ faults' = faults + 1
    /\ \/ /\ work[w][t].phase # "failed"
          /\ Goes(w, t, Failed(w, work[w][t]))
       \/ Stops(w, t)
    /\ UNCHANGED <<clock, ticket, room, membership, outbox, commands, shadowWork>>

\* The process of worker w dies and starts again.
Crash(w) ==
    /\ CanFault
    /\ \E t \in Tickets : work[w][t].phase # "idle"
    /\ work' = [work EXCEPT ![w] = [t \in Tickets |-> Idle]]
    /\ faults' = faults + 1
    /\ UNCHANGED <<clock, ticket, room, membership, outbox, commands, shadowWork>>

Tick ==
    /\ clock < MaxTime
    /\ clock' = clock + 1
    /\ UNCHANGED <<ticket, room, membership, outbox, commands, shadowWork, work, faults>>

\* Nothing is left to do: every accepted ticket has ended, no handler runs and
\* the clock has reached its bound.
Done ==
    /\ clock = MaxTime
    /\ \A t \in Tickets : ticket[t].status # "queued"
    /\ \A w \in Workers, t \in Tickets : work[w][t].phase = "idle"
    /\ UNCHANGED vars

HandlerStep(w, t) ==
    \/ LoadRooms(w, t)
    \/ Evaluate(w, t)
    \/ Assign(w, t)
    \/ AssignStale(w, t)
    \/ Expire(w, t)
    \/ ScheduleRetry(w, t)
    \/ ClaimLost(w, t)

Next ==
    \/ \E t \in Tickets : Accept(t)
    \/ \E t \in Tickets, c \in CancelCommands : Cancel(t, c) \/ CancelAgain(t, c)
    \/ \E r \in Rooms : OpenRoom(r)
    \/ \E w \in Workers : Claim(w)
    \/ \E w \in Workers, t \in Tickets : HandlerStep(w, t)
    \/ \E w \in Workers, t \in Tickets : StatementFails(w, t)
    \/ \E w \in Workers : Crash(w)
    \/ Tick
    \/ Done

Spec == Init /\ [][Next]_vars

\* A runner polls forever and each of its goroutines runs until its context
\* ends, so every worker takes the steps it can take; time passes.  Clients, the
\* game backend and faults owe nothing.
FairSpec ==
    /\ Spec
    /\ WF_vars(Tick)
    /\ \A w \in Workers : WF_vars(Claim(w))
    /\ \A w \in Workers, t \in Tickets : WF_vars(HandlerStep(w, t))

-----------------------------------------------------------------------------
(***************************************************************************)
(* Properties.                                                             *)
(***************************************************************************)

\* AssignTicket compares the room version the worker read before it read the
\* members, so the members the matcher scored are exactly the members the room
\* had when the ticket joined it: nobody slips into a room between the two
\* reads, or between the evaluation and the commit.
ScoredMembersAreActual ==
    \A t \in Tickets : membership[t].room # NoRoom =>
        membership[t].scored =
            {u \in MembersOf(membership[t].room) :
                membership[u].roomVersion < membership[t].roomVersion}

\* However assignments interleave, a room never exceeds the hard limits of its
\* policy: its members are different players within MaxSkillGap of each other,
\* and a full room is one whose win-probability spread was accepted.
RoomsAreFair ==
    \A r \in Rooms :
        /\ GapWithin(MembersOf(r), MaxSkillGap)
        /\ \A a, b \in MembersOf(r) : a # b => PlayerOf[a] # PlayerOf[b]
        /\ room[r].status = "collecting" => MembersOf(r) \in BalancedRooms

\* The last seat is given once: the members of a room sit on the seats 1..n, one
\* each, the room version counts them, and the room starts collecting results
\* exactly when the last seat is taken, at the time of that assignment and not
\* after its fill deadline.
RoomFillsExactlyOnce ==
    \A r \in Rooms :
        LET n == Cardinality(MembersOf(r))
        IN  /\ {membership[t].seat : t \in MembersOf(r)} = 1..n
            /\ room[r].status # "none" => room[r].version = n + 1
            /\ (room[r].status = "collecting") <=> (n = Capacity)
            /\ room[r].status = "collecting" =>
                 /\ \E t \in MembersOf(r) :
                      /\ membership[t].roomVersion = room[r].version
                      /\ room[r].filledAt = membership[t].assignedAt
                 /\ room[r].filledAt <= room[r].fillDeadline

\* Cancellation, expiry and assignment race for a queued ticket and exactly one
\* of them wins: a ticket has a seat and a session if and only if it is
\* assigned, and its claim is gone once it has ended.
OneOutcomePerTicket ==
    \A t \in Tickets :
        /\ (ticket[t].status = "assigned") <=> (membership[t].room # NoRoom)
        /\ ticket[t].status \in Terminal =>
             ticket[t].token = 0 /\ ticket[t].claimedUntil = 0

\* What the outbox should hold for a ticket, or for a room, in its present state.
EventsOfTicket(t) ==
    LET Ev(v, type) == [aggregate |-> t, version |-> v, type |-> type]
    IN  CASE ticket[t].status = "none"      -> {}
          [] ticket[t].status = "queued"    -> {Ev(1, "ticket.accepted")}
          [] ticket[t].status = "assigned"  -> {Ev(1, "ticket.accepted"), Ev(2, "ticket.assigned")}
          [] ticket[t].status = "cancelled" -> {Ev(1, "ticket.accepted"), Ev(2, "ticket.cancelled")}
          [] ticket[t].status = "expired"   -> {Ev(1, "ticket.accepted"), Ev(2, "ticket.expired")}

EventsOfRoom(r) ==
    IF room[r].status = "collecting"
      THEN {[aggregate |-> r, version |-> room[r].version, type |-> "room.filled"]}
      ELSE {}

\* The transactional outbox tells the game backend what happened, once: whatever
\* was retried, refused, repeated or lost, the events of a ticket are its
\* acceptance and its one outcome under consecutive versions, and a room is
\* announced, and queued for shadow rating, once and only when it is full.
OutboxTellsTheOutcome ==
    /\ \A t \in Tickets : {e \in outbox : e.aggregate = t} = EventsOfTicket(t)
    /\ \A r \in Rooms :
         /\ {e \in outbox : e.aggregate = r} = EventsOfRoom(r)
         /\ {x \in shadowWork : x[1] = r} =
              IF room[r].status = "collecting" THEN {<<r, room[r].filledAt>>} ELSE {}

\* Times decided when the attempt began still make sense when it commits: a
\* ticket is assigned between its request and its fill deadline, into a room that
\* existed and was still filling, and expires only when its deadline is reached.
OutcomeInTime ==
    \A t \in Tickets :
        /\ ticket[t].status = "assigned" =>
             LET r == membership[t].room
             IN  /\ ticket[t].requestedAt <= ticket[t].endedAt
                 /\ ticket[t].endedAt <= FillDeadline(ticket[t].requestedAt)
                 /\ room[r].createdAt <= ticket[t].endedAt
                 /\ ticket[t].endedAt <= room[r].fillDeadline
        /\ ticket[t].status = "expired" =>
             FillDeadline(ticket[t].requestedAt) <= ticket[t].endedAt

\* A claim belongs to the handler that took it: while the ticket is queued, the
\* token leaves the row only by a step of the handler that holds it, by a client's
\* cancellation, or because another worker takes over a lease that has run out by
\* its own clock.  A handler that comes late releases or reschedules nothing.
ClaimsAreRespected ==
    [][\A t \in Tickets :
         ticket[t].token # 0 /\ ticket'[t].token # ticket[t].token =>
           \/ ticket'[t].status = "cancelled"
           \/ \E w \in Workers :
                /\ work[w][t].phase # "idle"
                /\ work[w][t].token = ticket[t].token
                /\ work'[w][t] # work[w][t]
           \/ \E w \in Workers :
                /\ work[w][t].phase = "idle"
                /\ work'[w][t].token = ticket'[t].token
                /\ ticket[t].claimedUntil <= Now(w)]_vars

\* A step never takes a ticket out of a terminal state, rewrites a seat, reopens
\* a full room or takes back an event.
OutcomesAreFinal ==
    [][/\ \A t \in Tickets :
            /\ ticket[t].status \in Terminal => ticket'[t] = ticket[t]
            /\ membership[t].room # NoRoom => membership'[t] = membership[t]
       /\ \A r \in Rooms : room[r].status = "collecting" => room'[r] = room[r]
       /\ outbox \subseteq outbox']_vars

\* Every accepted ticket reaches a terminal state, whatever workers crash, lose
\* their leases or fail on the way: a claim that is never finished is taken over.
EveryTicketEnds ==
    \A t \in Tickets :
        (ticket[t].status = "queued") ~> (ticket[t].status \in Terminal)

-----------------------------------------------------------------------------
(***************************************************************************)
(* The inductive invariant behind ScoredMembersAreActual and RoomsAreFair. *)
(***************************************************************************)

\* A row that was never inserted has no version; a seat was given at a version
\* the room has reached.
VersionsBoundSeats ==
    /\ \A r \in Rooms : room[r].status = "none" => room[r].version = 0
    /\ \A t \in Tickets : membership[t].room # NoRoom =>
         membership[t].roomVersion <= room[membership[t].room].version

SeatedIffAssigned ==
    \A t \in Tickets :
        (ticket[t].status = "assigned") <=> (membership[t].room # NoRoom)

\* What a handler read is old, never wrong: the versions it holds were reached,
\* and the members it scored include all who had joined by the version it holds.
ReadIsOld(h) ==
    /\ h.phase = "loaded" =>
         \A v \in h.views : v.version <= room[v.id].version
    /\ h.phase = "assign" =>
         /\ h.room \in Rooms
         /\ h.version <= room[h.room].version
         /\ h.scored \subseteq MembersOf(h.room)
         /\ \A u \in MembersOf(h.room) :
              membership[u].roomVersion <= h.version => u \in h.scored

ReadsAreOld == \A w \in Workers, t \in Tickets : ReadIsOld(work[w][t])

\* The matcher accepted the room it is about to assign, as it scored it.
ChoiceIsFair(t, h) ==
    h.phase = "assign" =>
      /\ GapWithin(h.scored \cup {t}, MaxSkillGap)
      /\ \A m \in h.scored : PlayerOf[m] # PlayerOf[t]
      /\ Cardinality(h.scored) + 1 = Capacity => h.scored \cup {t} \in BalancedRooms

ChoicesAreFair == \A w \in Workers, t \in Tickets : ChoiceIsFair(t, work[w][t])

AssignmentInvariant ==
    /\ TypeOK
    /\ VersionsBoundSeats
    /\ SeatedIffAssigned
    /\ ReadsAreOld
    /\ ChoicesAreFair
    /\ ScoredMembersAreActual
    /\ RoomsAreFair
=============================================================================
