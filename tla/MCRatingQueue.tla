---------------------------- MODULE MCRatingQueue ----------------------------
(***************************************************************************)
(* Values of the constants of RatingQueue for TLC.                         *)
(***************************************************************************)
EXTENDS RatingQueue, TLC

CONSTANTS e1, e2, e3, p1, p2, w1, w2

\* e1 shares a player with each of the others.
TestPlayers == (e1 :> {p1, p2}) @@ (e2 :> {p1}) @@ (e3 :> {p2})

\* e1 and e2 are available at the same time, e3 when they may still be reported.
TiedAvailable == (e1 :> 0) @@ (e2 :> 0) @@ (e3 :> 1)

\* One result at a time.
SpacedAvailable == (e1 :> 0) @@ (e2 :> 1) @@ (e3 :> 2)

TestPosition == (e1 :> 1) @@ (e2 :> 2) @@ (e3 :> 3)

TestRank == (p1 :> 1) @@ (p2 :> 2)

\* w2's clock runs ahead of the database.
AheadSkew == (w1 :> 0) @@ (w2 :> 1)
=============================================================================
