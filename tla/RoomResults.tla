----------------------------- MODULE RoomResults -----------------------------
(***************************************************************************)
(* The end of a room: the game backend reports its result                  *)
(* (internal/httpapi/results.go, FinalizeResult of                         *)
(* internal/postgres/results.go), or the deadline runner                   *)
(* (internal/worker/result_deadlines.go, ExpireResultRooms) expires it.    *)
(*                                                                         *)
(* FinalizeResult is two steps: the lookup of the event identity takes no  *)
(* lock, and everything after the room's row is locked is one step, since  *)
(* the lock is held until the commit.                                      *)
(***************************************************************************)
EXTENDS Integers, FiniteSets

CONSTANTS
    Rooms,           \* rooms that may fill
    Players,         \* the seats of a room: each has a session
    Identities,      \* event_id of results
    Commands,        \* requests the game backend may send; a command is its digest
    IdentityOf,      \* event_id of a command
    RoomOf,          \* its room_id
    FinishedAt,      \* its finished_at
    AvailableAt,     \* its available_at
    QuitsOf,         \* its participants with completed = false
    Suited,          \* commands that name the room's mode, deck and scoring rules
    Seated,          \* commands that name exactly the room's sessions
    NoCommand,       \* no result stored
    Servers,         \* goroutines that serve POST /v1/results
    Runners,         \* deadline runners
    Skew,            \* each process's clock minus the database clock
    ResultTimeout,   \* result_timeout_ms of the tournament
    AllocationLags,  \* latest allocated_at minus filled_at: workers date by their claims
    BatchSize,       \* ResultDeadlineOptions.BatchSize
    MaxTime,         \* bound: the clock stops here
    LastFill,        \* bound: no room fills after this time
    MaxRequests      \* bound: number of requests the game backend sends

ASSUME ResultAssumption ==
    /\ IdentityOf \in [Commands -> Identities]
    /\ RoomOf \in [Commands -> Rooms]
    /\ FinishedAt \in [Commands -> Int]
    /\ AvailableAt \in [Commands -> Int]
    /\ \A c \in Commands : FinishedAt[c] <= AvailableAt[c]
    /\ QuitsOf \in [Commands -> SUBSET Players]
    /\ Suited \subseteq Commands
    /\ Seated \subseteq Commands
    /\ NoCommand \notin Commands
    /\ Skew \in [Servers \cup Runners -> Int]
    /\ ResultTimeout \in Nat \ {0}
    /\ AllocationLags \subseteq Nat
    /\ BatchSize \in Nat \ {0}
    /\ MaxTime \in Nat
    /\ LastFill \in Int
    /\ MaxRequests \in Nat

VARIABLES
    clock,     \* clock_timestamp() of the database
    room,      \* rooms
    session,   \* sessions: the status of each seat of a room
    result,    \* verified_results: the command stored for an event_id
    events,    \* outbox events about the end of a room
    call,      \* call[s]: the request server s handles
    told,      \* the successful answers given so far
    requests   \* number of requests so far

vars == <<clock, room, session, result, events, call, told, requests>>

-----------------------------------------------------------------------------
(***************************************************************************)
(* State.  A room is forming until its last seat is taken; its version is  *)
(* then 1 and counts the changes this module makes.                        *)
(***************************************************************************)
RoomRow ==
    [status : {"forming", "collecting", "completed", "expired"}, version : Nat,
     filledAt : Int, latestAllocation : Int, resultDeadline : Int, endedAt : Int]

SessionStatus == {"none", "allocated", "submitted", "forfeited"}

EndEvent ==
    [room : Rooms, type : {"room.completed", "room.expired"}, version : Nat, at : Int]

\* A call of the handler of POST /v1/results.
\*   arrived  decoded; acceptedAt is the server's clock on arrival
\*   looked   valid, and no result has its event_id
\*   idle     no call; answer is the answer to the last one ("invalid" is status 400,
\*            "error" status 500)
Answer ==
    {"none", "stored", "replay", "conflict", "not_collecting", "deadline_passed",
     "mismatch", "invalid", "error"}

Call ==
    [phase : {"idle", "arrived", "looked"}, cmd : Commands \cup {NoCommand},
     acceptedAt : Int, answer : Answer]

Told == [cmd : Commands, version : Nat, completedAt : Int]

FormingRoom ==
    [status |-> "forming", version |-> 0, filledAt |-> 0, latestAllocation |-> 0,
     resultDeadline |-> 0, endedAt |-> 0]

NoCall == [phase |-> "idle", cmd |-> NoCommand, acceptedAt |-> 0, answer |-> "none"]

TypeOK ==
    /\ clock \in Nat
    /\ room \in [Rooms -> RoomRow]
    /\ session \in [Rooms -> [Players -> SessionStatus]]
    /\ result \in [Identities -> Commands \cup {NoCommand}]
    /\ events \subseteq EndEvent
    /\ call \in [Servers -> Call]
    /\ told \subseteq Told
    /\ requests \in Nat

Init ==
    /\ clock = 0
    /\ room = [r \in Rooms |-> FormingRoom]
    /\ session = [r \in Rooms |-> [p \in Players |-> "none"]]
    /\ result = [i \in Identities |-> NoCommand]
    /\ events = {}
    /\ call = [s \in Servers |-> NoCall]
    /\ told = {}
    /\ requests = 0

-----------------------------------------------------------------------------
(***************************************************************************)
(* Helpers.                                                                *)
(***************************************************************************)
Now(process) == clock + Skew[process]

\* Mutant of StoredFor: the room's own result is not looked up.
StoredForNobody(r) == {}

\* loadFinalizedResult by room.
StoredFor(r) == {i \in Identities : result[i] # NoCommand /\ RoomOf[result[i]] = r}

\* Mutant of SameDigest: any stored result is taken for a replay.
AnyDigest(stored, c) == TRUE

\* commitResultReplay compares digests, which leave out accepted_at.
SameDigest(stored, c) == stored = c

\* Mutant of InTime: only the time the game finished is compared.
FinishedInTime(r, c, acceptedAt) == FinishedAt[c] <= room[r].resultDeadline

\* Neither the acceptance nor the finish is after the deadline.
InTime(r, c, acceptedAt) ==
    /\ acceptedAt <= room[r].resultDeadline
    /\ FinishedAt[c] <= room[r].resultDeadline

\* Validate: the acceptance does not precede the availability.
Valid(c, acceptedAt) == acceptedAt >= AvailableAt[c]

\* verifyResultParticipants.
ParticipantsMatch(r, c) ==
    c \in Seated /\ FinishedAt[c] >= room[r].latestAllocation

\* Mutant of Completed: a status the schema does not know.
CompletedMisspelt(row, at) ==
    [row EXCEPT !.status = "complete", !.version = row.version + 1, !.endedAt = at]

\* The room after the result is stored.
Completed(row, at) ==
    [row EXCEPT !.status = "completed", !.version = row.version + 1, !.endedAt = at]

\* The room after the deadline runner took it.
Expired(row, at) ==
    [row EXCEPT !.status = "expired", !.version = row.version + 1, !.endedAt = at]

\* finalizeSession for every participant.
Finalized(c) ==
    [p \in Players |-> IF p \in QuitsOf[c] THEN "forfeited" ELSE "submitted"]

\* Sessions that are still open are forfeited.
Forfeited(sessions) ==
    [p \in Players |-> IF sessions[p] = "allocated" THEN "forfeited" ELSE sessions[p]]

\* Mutant of DueRooms: the status is not looked at.
DueWhateverStatus(at) ==
    {r \in Rooms : room[r].status # "forming" /\ room[r].resultDeadline <= at}

\* Mutant of DueRooms: a runner that misses the moment never comes back to it.
DueExactly(at) ==
    {r \in Rooms : room[r].status = "collecting" /\ room[r].resultDeadline = at}

\* The rooms ExpireResultRooms may take at this time.
DueRooms(at) ==
    {r \in Rooms : room[r].status = "collecting" /\ room[r].resultDeadline <= at}

Answers(s, answer) ==
    call' = [call EXCEPT ![s] = [NoCall EXCEPT !.answer = answer]]

\* The body of a successful answer is read from the stored room.
Tells(c, row) ==
    told' = told \cup {[cmd |-> c, version |-> row.version, completedAt |-> row.endedAt]}

-----------------------------------------------------------------------------
(***************************************************************************)
(* Rooms fill and results are reported.                                    *)
(***************************************************************************)

\* AssignTicket gives the last seat away: the room collects results.
Fill(r) ==
    /\ clock <= LastFill
    /\ room[r].status = "forming"
    /\ \E lag \in AllocationLags :
         room' = [room EXCEPT ![r] =
           [status |-> "collecting", version |-> 1, filledAt |-> clock,
            latestAllocation |-> clock + lag,
            resultDeadline |-> clock + ResultTimeout, endedAt |-> 0]]
    /\ session' = [session EXCEPT ![r] = [p \in Players |-> "allocated"]]
    /\ UNCHANGED <<clock, result, events, call, told, requests>>

\* The handler decodes a request and dates it by the server's clock.
Arrive(s, c) ==
    /\ requests < MaxRequests
    /\ call[s].phase = "idle"
    /\ call' = [call EXCEPT ![s] =
                  [phase |-> "arrived", cmd |-> c, acceptedAt |-> Now(s), answer |-> "none"]]
    /\ requests' = requests + 1
    /\ UNCHANGED <<clock, room, session, result, events, told>>

\* By the server's clock the result is not available yet: it is refused before anybody
\* looks whether it is stored.
Invalid(s) ==
    /\ call[s].phase = "arrived"
    /\ ~Valid(call[s].cmd, call[s].acceptedAt)
    /\ Answers(s, "invalid")
    /\ UNCHANGED <<clock, room, session, result, events, told, requests>>

\* FinalizeResult looks the event_id of a valid result up, without a lock.
LookUp(s) ==
    LET c == call[s].cmd
        stored == result[IdentityOf[c]]
    IN  /\ call[s].phase = "arrived"
        /\ Valid(c, call[s].acceptedAt)
        /\ \/ /\ stored = NoCommand
              /\ call' = [call EXCEPT ![s] = [call[s] EXCEPT !.phase = "looked"]]
              /\ UNCHANGED told
           \/ /\ stored # NoCommand
              /\ SameDigest(stored, c)
              /\ Answers(s, "replay")
              /\ Tells(c, room[RoomOf[stored]])
           \/ /\ stored # NoCommand
              /\ ~SameDigest(stored, c)
              /\ Answers(s, "conflict")
              /\ UNCHANGED told
        /\ UNCHANGED <<clock, room, session, result, events, requests>>

\* The locked room has ended or is still forming: its stored result, if it has
\* one, is replayed or conflicts.
AnswerEnded(s) ==
    LET c == call[s].cmd
        r == RoomOf[c]
    IN  /\ call[s].phase = "looked"
        /\ room[r].status # "collecting"
        /\ \/ /\ StoredFor(r) = {}
              /\ Answers(s, "not_collecting")
              /\ UNCHANGED told
           \/ \E i \in StoredFor(r) :
                /\ SameDigest(result[i], c)
                /\ Answers(s, "replay")
                /\ Tells(c, room[r])
           \/ \E i \in StoredFor(r) :
                /\ ~SameDigest(result[i], c)
                /\ Answers(s, "conflict")
                /\ UNCHANGED told
        /\ UNCHANGED <<clock, room, session, result, events, requests>>

\* A result that may not be stored: it is late, it does not fit the room, or its
\* event_id was taken for another room since the lookup (the primary key).
Refuse(s) ==
    LET c == call[s].cmd
        r == RoomOf[c]
    IN  /\ call[s].phase = "looked"
        /\ room[r].status = "collecting"
        /\ \/ c \notin Suited /\ Answers(s, "conflict")
           \/ /\ c \in Suited
              /\ ~InTime(r, c, call[s].acceptedAt)
              /\ Answers(s, "deadline_passed")
           \/ /\ c \in Suited
              /\ InTime(r, c, call[s].acceptedAt)
              /\ ~ParticipantsMatch(r, c)
              /\ Answers(s, "mismatch")
           \/ /\ c \in Suited
              /\ InTime(r, c, call[s].acceptedAt)
              /\ ParticipantsMatch(r, c)
              /\ result[IdentityOf[c]] # NoCommand
              /\ Answers(s, "conflict")
        /\ UNCHANGED <<clock, room, session, result, events, told, requests>>

\* FinalizeResult stores the result, its participants, the sessions, the room, the
\* room.completed event and the shadow work.  The answer to the commit may be lost:
\* the caller then sees an error although everything is stored.
Finalize(s) ==
    LET c == call[s].cmd
        r == RoomOf[c]
        ended == Completed(room[r], call[s].acceptedAt)
    IN  /\ call[s].phase = "looked"
        /\ room[r].status = "collecting"
        /\ c \in Suited
        /\ InTime(r, c, call[s].acceptedAt)
        /\ ParticipantsMatch(r, c)
        /\ result[IdentityOf[c]] = NoCommand
        /\ result' = [result EXCEPT ![IdentityOf[c]] = c]
        /\ session' = [session EXCEPT ![r] = Finalized(c)]
        /\ room' = [room EXCEPT ![r] = ended]
        /\ events' = events \cup
             {[room |-> r, type |-> "room.completed", version |-> ended.version,
               at |-> ended.endedAt]}
        /\ \/ Answers(s, "stored") /\ Tells(c, ended)
           \/ Answers(s, "error") /\ UNCHANGED told
        /\ UNCHANGED <<clock, requests>>

\* A statement fails, the client goes away or the server dies: nothing is stored.
Fail(s) ==
    /\ call[s].phase \in {"arrived", "looked"}
    /\ Answers(s, "error")
    /\ UNCHANGED <<clock, room, session, result, events, told, requests>>

-----------------------------------------------------------------------------
(***************************************************************************)
(* The deadline runner, and time.                                          *)
(***************************************************************************)

\* ExpireResultRooms.  SKIP LOCKED leaves out any rooms.
Expire(d) ==
    /\ \E batch \in SUBSET DueRooms(Now(d)) :
         /\ batch # {}
         /\ Cardinality(batch) <= BatchSize
         /\ room' = [r \in Rooms |->
              IF r \in batch THEN Expired(room[r], Now(d)) ELSE room[r]]
         /\ session' = [r \in Rooms |->
              IF r \in batch THEN Forfeited(session[r]) ELSE session[r]]
         /\ events' = events \cup
              {[room |-> r, type |-> "room.expired", version |-> room[r].version + 1,
                at |-> Now(d)] : r \in batch}
    /\ UNCHANGED <<clock, result, call, told, requests>>

Tick ==
    /\ clock < MaxTime
    /\ clock' = clock + 1
    /\ UNCHANGED <<room, session, result, events, call, told, requests>>

Next ==
    \/ \E r \in Rooms : Fill(r)
    \/ \E s \in Servers, c \in Commands : Arrive(s, c)
    \/ \E s \in Servers :
         Invalid(s) \/ LookUp(s) \/ AnswerEnded(s) \/ Refuse(s) \/ Finalize(s) \/ Fail(s)
    \/ \E d \in Runners : Expire(d)
    \/ Tick

Spec == Init /\ [][Next]_vars

\* The runner polls forever and time passes; nobody has to report a result.
FairSpec == Spec /\ WF_vars(Tick) /\ \A d \in Runners : WF_vars(Expire(d))

-----------------------------------------------------------------------------
(***************************************************************************)
(* Properties.                                                             *)
(***************************************************************************)
Ended(r) == room[r].status \in {"completed", "expired"}

ResultsOf(r) == {c \in Commands : RoomOf[c] = r /\ \E i \in Identities : result[i] = c}

EndsOf(r) == {e \in events : e.room = r}

\* Whoever wins the race between reports and the deadline, a room ends once: one
\* result and its sessions as the result says them if it is completed, no result and
\* only forfeits if it expired, nothing before, and one event that says which.
OneEnding ==
    \A r \in Rooms :
      /\ room[r].status = "completed" <=> ResultsOf(r) # {}
      /\ \A c \in ResultsOf(r) : ResultsOf(r) = {c} /\ session[r] = Finalized(c)
      /\ room[r].status = "expired" => \A p \in Players : session[r][p] = "forfeited"
      /\ ~Ended(r) => EndsOf(r) = {}
      /\ Ended(r) => EndsOf(r) =
           {[room |-> r, version |-> room[r].version, at |-> room[r].endedAt,
             type |-> IF room[r].status = "completed" THEN "room.completed"
                                                      ELSE "room.expired"]}

\* Every success told to the game backend stays true: the command it was told about
\* is the stored one, and the first answer and all replays say the same version and
\* time.
AnswersAgree ==
    \A t \in told :
        LET r == RoomOf[t.cmd]
        IN  /\ result[IdentityOf[t.cmd]] = t.cmd
            /\ room[r].status = "completed"
            /\ t.version = room[r].version
            /\ t.completedAt = room[r].endedAt

\* "An already committed identical result remains replayable after the deadline"
\* (docs/api-contract.md:76-77): a request whose result is stored is never refused, also
\* when it had looked before another request stored the result.  The one exception is
\* the handler's check of the time: a server whose clock was still behind available_at
\* when the request arrived calls the result invalid, stored or not.
StoredIsNeverRefused ==
    [][\A s \in Servers :
         LET c == call[s].cmd
         IN  /\ call[s].phase \in {"arrived", "looked"}
             /\ call'[s].phase = "idle"
             /\ result[IdentityOf[c]] = c
             => \/ call'[s].answer \in {"replay", "error"}
                \/ /\ call'[s].answer = "invalid"
                   /\ call[s].acceptedAt < AvailableAt[c]]_vars

\* A room completes between its fill and its deadline, and expires at its deadline
\* or later.  The first half is what the schema demands (rooms_completed_order): a
\* result that passed every check is never lost to that constraint.
EndsInTime ==
    \A r \in Rooms :
      /\ room[r].status = "completed" =>
           room[r].filledAt <= room[r].endedAt /\ room[r].endedAt <= room[r].resultDeadline
      /\ room[r].status = "expired" => room[r].endedAt >= room[r].resultDeadline

\* A room that collects results ends, whether or not anybody reports.
RoomsEnd == \A r \in Rooms : (room[r].status = "collecting") ~> Ended(r)
=============================================================================
