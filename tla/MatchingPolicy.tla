--------------------------- MODULE MatchingPolicy ---------------------------
(***************************************************************************)
(* The pure decisions of pkg/matchmaking: which rooms may take a candidate *)
(* (eligibility.go), how far the skill window of a room has opened         *)
(* (priority.go), which eligible room wins (selector.go) and when a        *)
(* candidate without a room is tried again (orchestration.go).             *)
(*                                                                         *)
(* A candidate is a member of Tickets.  Of its rating only the mean is     *)
(* kept, as an integer; its player is PlayerOf[t].  The win-probability    *)
(* spread of a complete room is a function of its members alone: the sets  *)
(* of members whose spread is within MaxWinProbabilitySpread are the       *)
(* constant BalancedRooms.  A room view is a record                        *)
(*   [id, version, createdAt, deadline, members]                           *)
(* whose members form a set of candidates.  Times are integers.            *)
(*                                                                         *)
(* Operators that take JoinedAt or SnapshotAt take them as functions on    *)
(* Tickets, because both are columns of the ticket.                        *)
(***************************************************************************)
EXTENDS Integers, FiniteSets

CONSTANTS
    Tickets,            \* candidates (one per accepted entry)
    PlayerOf,           \* the player of each candidate
    Skill,              \* the mean of the rating snapshot of each candidate
    Capacity,           \* seats of a room
    InitialSkillGap,    \* Policy.InitialSkillGap
    MaxSkillGap,        \* Policy.MaxSkillGap
    ExpansionInterval,  \* Policy.ExpansionInterval
    FillTimeout,        \* Policy.FillTimeout
    AgePriorityAfter,   \* Policy.AgePriorityAfter
    RoomLimit,          \* Policy.RoomLimit
    PreferNearlyFull,   \* Policy.PreferNearlyFull
    BalancedRooms       \* complete rooms within MaxWinProbabilitySpread

\* Policy.Validate, and the facts about candidates the schema guarantees.
ASSUME PolicyAssumption ==
    /\ Skill \in [Tickets -> Int]
    /\ Capacity \in Nat \ {0}
    /\ InitialSkillGap \in Nat
    /\ MaxSkillGap \in Nat
    /\ InitialSkillGap <= MaxSkillGap
    /\ FillTimeout \in Nat \ {0}
    /\ ExpansionInterval \in 1..FillTimeout
    /\ AgePriorityAfter \in 0..FillTimeout
    /\ RoomLimit \in Nat \ {0}
    /\ PreferNearlyFull \in BOOLEAN
    /\ BalancedRooms \subseteq SUBSET Tickets

-----------------------------------------------------------------------------
(***************************************************************************)
(* The skill window of a room (AllowedSkillGap).                           *)
(***************************************************************************)

\* skillGap(S) <= gap: the difference between the largest and the smallest
\* mean of S is at most gap.
GapWithin(S, gap) == \A a, b \in S : Skill[a] - Skill[b] <= gap

\* Steps the window takes from InitialSkillGap to MaxSkillGap; the last one may
\* be shorter than ExpansionInterval.
TotalSteps ==
    (FillTimeout \div ExpansionInterval)
      + (IF FillTimeout % ExpansionInterval = 0 THEN 0 ELSE 1)

\* The window at this age, multiplied by TotalSteps so that it stays an integer.
ScaledSkillGap(age) ==
    IF age >= FillTimeout
      THEN MaxSkillGap * TotalSteps
      ELSE LET elapsed == age \div ExpansionInterval
               steps   == IF elapsed <= TotalSteps THEN elapsed ELSE TotalSteps
           IN  InitialSkillGap * TotalSteps
                 + (MaxSkillGap - InitialSkillGap) * steps

\* The gap of S is inside the window a room of this age allows.
WithinWindow(S, age) ==
    \A a, b \in S : (Skill[a] - Skill[b]) * TotalSteps <= ScaledSkillGap(age)

-----------------------------------------------------------------------------
(***************************************************************************)
(* Eligibility of one candidate for one room view (evaluateCandidate).     *)
(***************************************************************************)

\* The rejections that look at the room and its members only.
SeatOpen(view, t, at) ==
    /\ at <= view.deadline
    /\ Cardinality(view.members) # Capacity
    /\ \A m \in view.members : m # t /\ PlayerOf[m] # PlayerOf[t]

\* The candidate keeps the room inside its hard limit and its current window.
SkillFits(view, t, at) ==
    /\ GapWithin(view.members \cup {t}, MaxSkillGap)
    /\ WithinWindow(view.members \cup {t}, at - view.createdAt)

Completes(view) == Cardinality(view.members) + 1 = Capacity

\* EvaluateFairness fails, and the whole attempt with it, when the candidate
\* would complete a room one of whose members was snapshotted after `at'.
FairnessError(view, t, at, snapshotAt) ==
    /\ SeatOpen(view, t, at)
    /\ SkillFits(view, t, at)
    /\ Completes(view)
    /\ \E m \in view.members : snapshotAt[m] > at

\* Mutant of Eligible: a complete room is not evaluated for fairness.
EligibleUnbalanced(view, t, at) ==
    SeatOpen(view, t, at) /\ SkillFits(view, t, at)

\* The decision's Eligible flag.
Eligible(view, t, at) ==
    /\ SeatOpen(view, t, at)
    /\ SkillFits(view, t, at)
    /\ Completes(view) => view.members \cup {t} \in BalancedRooms

-----------------------------------------------------------------------------
(***************************************************************************)
(* The choice among the eligible rooms (SelectRoom).                       *)
(***************************************************************************)

RoomAgePrioritized(view, at) == at - view.createdAt >= AgePriorityAfter

\* The decision's SkillGap of a is smaller than that of b.
SmallerGap(a, b, t) ==
    LET G(v) == {Skill[x] - Skill[y] : x, y \in v.members \cup {t}}
    IN  \E g \in G(b) : \A h \in G(a) : h < g

\* a sorts strictly before b.  Rooms are loaded oldest first; the order of two
\* rooms created at the same time is that of their ids, which are opaque here,
\* so two such rooms may tie.
Preferred(a, b, t, at) ==
    LET oldA == RoomAgePrioritized(a, at)
        oldB == RoomAgePrioritized(b, at)
        na   == Cardinality(a.members)
        nb   == Cardinality(b.members)
    IN  \/ oldA /\ ~oldB
        \/ /\ oldA = oldB
           /\ \/ oldA /\ a.createdAt < b.createdAt
              \/ /\ oldA => a.createdAt = b.createdAt
                 /\ IF PreferNearlyFull /\ na # nb
                      THEN na > nb
                      ELSE IF PreferNearlyFull
                                /\ (SmallerGap(a, b, t) \/ SmallerGap(b, a, t))
                      THEN SmallerGap(a, b, t)
                      ELSE a.createdAt < b.createdAt

\* The rooms SelectRoom may return: one unless ids decide.
Selectable(views, t, at) ==
    LET options == {v \in views : Eligible(v, t, at)}
    IN  {v \in options : \A u \in options : ~Preferred(u, v, t, at)}

-----------------------------------------------------------------------------
(***************************************************************************)
(* One attempt (AttemptMatch) and the time of the next one.                *)
(***************************************************************************)

FillDeadline(joinedAt) == joinedAt + FillTimeout

NextPeriodicBoundary(anchor, interval, after) ==
    after + (interval - ((after - anchor) % interval))

\* When a room view can next change its mind about a candidate.
RoomBoundary(view, at) ==
    LET expansion == NextPeriodicBoundary(view.createdAt, ExpansionInterval, at)
    IN  IF InitialSkillGap < MaxSkillGap /\ expansion < view.deadline
          THEN expansion
          ELSE view.deadline

Boundaries(views, joinedAt, at) ==
    {NextPeriodicBoundary(joinedAt, ExpansionInterval, at), FillDeadline(joinedAt)}
      \cup {RoomBoundary(v, at) : v \in {u \in views : at < u.deadline}}

\* The earliest boundary, as a set with one member.
NextRetryBoundary(views, joinedAt, at) ==
    {b \in Boundaries(views, joinedAt, at) :
        \A c \in Boundaries(views, joinedAt, at) : b <= c}

\* AttemptMatch returns an error: a candidate or a room that does not exist yet
\* at the evaluation time, or a fairness evaluation that fails.
AttemptFails(views, t, at, snapshotAt) ==
    \/ at < snapshotAt[t]
    \/ \E v \in views : at < v.createdAt
    \/ /\ at <= FillDeadline(snapshotAt[t])
       /\ \E v \in views : FairnessError(v, t, at, snapshotAt)

\* Mutant of TimedOut: the first attempt without a room is the last.
TimedOutAtOnce(views, t, joinedAt, at) ==
    at > FillDeadline(joinedAt) \/ Selectable(views, t, at) = {}

\* AttemptMatch returns timed_out: the deadline has passed, or it is now and
\* the final attempt found no room.
TimedOut(views, t, joinedAt, at) ==
    \/ at > FillDeadline(joinedAt)
    \/ at = FillDeadline(joinedAt) /\ Selectable(views, t, at) = {}

\* AttemptMatch returns matched with one of these rooms.
Matches(views, t, joinedAt, at) ==
    IF at > FillDeadline(joinedAt) THEN {} ELSE Selectable(views, t, at)
=============================================================================
