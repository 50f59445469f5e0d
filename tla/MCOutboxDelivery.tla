-------------------------- MODULE MCOutboxDelivery --------------------------
(***************************************************************************)
(* Values of the constants of OutboxDelivery for TLC.                      *)
(***************************************************************************)
EXTENDS OutboxDelivery, TLC

CONSTANTS e1, e2, e3, ticketA, ticketB, w1, w2

\* e1 and e2 are the acceptance and the outcome of one ticket, e3 is the
\* acceptance of another.
PairAggregates == (e1 :> ticketA) @@ (e2 :> ticketA)

PairVersions == (e1 :> 1) @@ (e2 :> 2)

TripleAggregates == PairAggregates @@ (e3 :> ticketB)

TripleVersions == PairVersions @@ (e3 :> 1)

\* w2's clock runs ahead of the database.
AheadSkew == (w1 :> 0) @@ (w2 :> 1)

SoloSkew == w1 :> 0

EqualSkew == (w1 :> 0) @@ (w2 :> 0)

\* The client's requested_at may be ahead of the service's clock.
StatedOffsets == {0, 1}
=============================================================================
