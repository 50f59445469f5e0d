--------------------------- MODULE MCModelPromotion ---------------------------
(***************************************************************************)
(* One result to train on, one that becomes available when the second      *)
(* version is trained and activated, and rooms of two segments by which    *)
(* the second version passes only if both segments are complete.  The      *)
(* third version improves on the first in the rooms that follow.           *)
(***************************************************************************)
EXTENDS ModelPromotion, TLC

CONSTANTS v1, v2, v3, e0, e1, e2, e3, s1, s2

MCFilledAt == (e0 :> 0) @@ (e1 :> 2) @@ (e2 :> 2) @@ (e3 :> 4)

MCAvailableAt == (e0 :> 1) @@ (e1 :> 2) @@ (e2 :> 3) @@ (e3 :> 4)

MCRoomBaseline == [e \in Events |-> v1]

MCSegmentOf == (e0 :> s1) @@ (e1 :> s1) @@ (e2 :> s2) @@ (e3 :> s1)

MCRoomSize == (s1 :> 2) @@ (s2 :> 3)

\* e1 alone would let v2 pass; e2 spoils its calibration, e3 is neutral.
MCBrierChange ==
    [e \in Events |-> (v1 :> 0) @@ (v2 :> IF e = e1 THEN -10 ELSE 1) @@ (v3 :> -4)]

MCLogLossChange == [e \in Events |-> [v \in Versions |-> IF v = v3 THEN 0 ELSE 1]]

MCCalibrationChange ==
    [es \in SUBSET Events |->
       [v \in Versions |-> IF v = v2 /\ es = {e2} THEN 2 ELSE 0]]

MCCutoff == [v \in Versions |-> 1]

OperatorSymmetry == Permutations(Operators)
=============================================================================
