---------------------------- MODULE MCRatingShadow ----------------------------
(***************************************************************************)
(* Values of the constants of RatingShadow for TLC.                        *)
(***************************************************************************)
EXTENDS RatingShadow, TLC

CONSTANTS r1, r2, r3, p1, p2, w1, w2, c1, v1, d1

\* r1 and r2 are filled first; r3 is filled when the result of r1 becomes available.
TestFilled == [r \in Rooms |-> IF r = r3 THEN 1 ELSE 0]

TestAvailable == [r \in Rooms |-> IF r = r1 THEN 1 ELSE 2]

\* The result of r1 and the filling of r3 may be stored late.
TestFillDelay == [r \in Rooms |-> IF r = r3 THEN 1 ELSE 0]

TestResultDelay == [r \in Rooms |-> IF r = r1 THEN 1 ELSE 0]

\* The model may refuse the result of r1.
TestExtreme == {ResultItem(r1)}

TestPlayers == [r \in Rooms |-> Players]

TestPosition == [r \in Rooms |-> CASE r = r1 -> 1 [] r = r2 -> 2 [] r = r3 -> 3]

TestRoomBaseline == [r \in Rooms |-> v1]

TestRoomDeck == [r \in Rooms |-> d1]

TestBaseline == [c \in Candidates |-> v1]

TestDeck == [c \in Candidates |-> d1]

\* The candidate was trained before the first room; its deployment may end when r3 is
\* filled.
TestCutoff == [c \in Candidates |-> -1]

TestActivated == [c \in Candidates |-> 0]

TestEnded == [c \in Candidates |-> 1]

NoSkew == [w \in Workers |-> 0]
=============================================================================
