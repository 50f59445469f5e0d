------------------------- MODULE MCTicketAssignment -------------------------
(***************************************************************************)
(* Values of the constants of TicketAssignment for TLC.                    *)
(***************************************************************************)
EXTENDS TicketAssignment, TLC

CONSTANTS t1, t2, t3, p1, p2, r1, r2, w1, w2, c1, c2

\* Contention: t1 and t2 make a fair room once the window has opened; t2 and t3
\* are close enough but their room would be unbalanced; t1 and t3 are the same
\* player, far apart.
ContentionPlayers == (t1 :> p1) @@ (t2 :> p2) @@ (t3 :> p1)

ContentionSkill == (t1 :> 0) @@ (t2 :> 2) @@ (t3 :> 4)

ContentionBalanced == {{t1, t2}, {t1, t3}}

\* Faults: two strangers who fit once the window has opened.
FaultPlayers == (t1 :> p1) @@ (t2 :> p2)

FaultSkill == (t1 :> 0) @@ (t2 :> 2)

FaultBalanced == {{t1, t2}}

\* A request may reach the service after the time it states.
LateOffsets == {-1, 0}

\* w2's clock runs ahead of the database.
AheadSkew == (w1 :> 0) @@ (w2 :> 1)

\* Rooms, and cancellation commands, are interchangeable.
RoomSymmetry == Permutations({r1, r2})

CommandSymmetry == Permutations({c1, c2})

\* Liveness: all clocks agree.
LiveSkew == (w1 :> 0) @@ (w2 :> 0)

=============================================================================
