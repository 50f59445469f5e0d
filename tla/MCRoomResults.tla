---------------------------- MODULE MCRoomResults ----------------------------
(***************************************************************************)
(* Values of the constants of RoomResults for TLC.                         *)
(***************************************************************************)
EXTENDS RoomResults, TLC

CONSTANTS r1, r2, p1, p2, i1, i2, report, rival, reuse, altered, stray, s1, s2, d1

\* report is the result of r1.  rival reports r1 under another identity, reuse takes
\* the identity of report for r2, altered is report with other standings, and stray
\* names the wrong deck.
TestIdentities ==
    (report :> i1) @@ (rival :> i2) @@ (reuse :> i1) @@ (altered :> i1) @@
    (stray :> i2)

TestRooms ==
    (report :> r1) @@ (rival :> r1) @@ (reuse :> r2) @@ (altered :> r1) @@ (stray :> r2)

TestFinished ==
    (report :> 1) @@ (rival :> 0) @@ (reuse :> 1) @@ (altered :> 1) @@ (stray :> 1)

TestAvailable ==
    (report :> 1) @@ (rival :> 1) @@ (reuse :> 1) @@ (altered :> 2) @@ (stray :> 1)

TestQuits ==
    (report :> {p1}) @@ (rival :> {}) @@ (reuse :> {}) @@ (altered :> {p2}) @@
    (stray :> {})

\* s2 and the deadline runner disagree with the database about the time.
TestSkew == (s1 :> 0) @@ (s2 :> -1) @@ (d1 :> 1)
=============================================================================
