----------------------------- MODULE MCOperations -----------------------------
(***************************************************************************)
(* The operations of a rollout side by side: migration jobs of four        *)
(* releases, and a service process that starts and stops.  They share no   *)
(* state: the service never looks at the ledger.                           *)
(***************************************************************************)
EXTENDS Migrations, ServiceLifecycle

CONSTANTS old, new, edited, faulty

\* The new release adds a migration; the edited one also changes one that may be
\* applied; the SQL of the faulty one fails.
MCCatalog ==
    LET file(v, c) == [version |-> v, checksum |-> c]
    IN  [r \in Releases |->
           CASE r = old    -> <<file(1, "a"), file(2, "b")>>
             [] r = new    -> <<file(1, "a"), file(2, "b"), file(3, "c")>>
             [] r = edited -> <<file(1, "a"), file(2, "x"), file(3, "d")>>
             [] r = faulty -> <<file(1, "a"), file(4, "broken")>>]

Init == MigrationInit /\ ServiceInit

Next ==
    \/ MigrationNext /\ UNCHANGED serviceVars
    \/ ServiceNext /\ UNCHANGED migrationVars

Spec == Init /\ [][Next]_<<migrationVars, serviceVars>> /\ ServiceFairness

\* The types of both, and no more connections in use than the pool may open.
TypeOK == MigrationTypeOK /\ ServiceTypeOK /\ Cardinality(Acquired) <= MaxConns
=============================================================================
