--------------------------- MODULE OrderedDelivery ---------------------------
(***************************************************************************)
(* What the outbox promises the game backend (docs/api-contract.md,        *)
(* "Outgoing event delivery", and ADR-007): an event the service has       *)
(* stored reaches the endpoint any number of times, and no event of an     *)
(* aggregate reaches it before all earlier events of that aggregate.       *)
(* Nothing is promised across aggregates.                                  *)
(***************************************************************************)
EXTENDS Integers

CONSTANTS
    Events,       \* event identities
    AggregateOf,  \* the aggregate of each event
    VersionOf     \* aggregate_version of each event

VARIABLES
    stored,    \* events the service has committed
    accepted   \* events the endpoint has answered with 2xx

Earlier(e) ==
    {d \in Events : AggregateOf[d] = AggregateOf[e] /\ VersionOf[d] < VersionOf[e]}

OrderedInit ==
    /\ stored = {}
    /\ accepted = {}

Store(e) ==
    /\ Earlier(e) \subseteq stored
    /\ stored' = stored \cup {e}
    /\ UNCHANGED accepted

\* The first request for e that the endpoint accepts.
FirstAccept(e) ==
    /\ e \in stored \ accepted
    /\ Earlier(e) \subseteq accepted
    /\ accepted' = accepted \cup {e}
    /\ UNCHANGED stored

OrderedNext == \E e \in Events : Store(e) \/ FirstAccept(e)

OrderedSpec == OrderedInit /\ [][OrderedNext]_<<stored, accepted>>
==============================================================================
