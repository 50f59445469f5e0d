------------------------------ MODULE Migrations ------------------------------
(***************************************************************************)
(* The migration runner (internal/postgres/migrations.go, cmd/migrate):    *)
(* releases that carry different catalogs bring one database up to date,   *)
(* each in one transaction under an advisory lock.                         *)
(***************************************************************************)
EXTENDS Integers, Sequences, Functions

CONSTANTS
    Releases,       \* migration jobs, each of its own release
    Catalog,        \* Catalog[r]: migrations.Load() of the release, a sequence of
                    \*   [version, checksum]; checksum stands for the whole file
    Broken          \* checksums of files whose SQL fails

File == UNION {Range(Catalog[r]) : r \in Releases}

ASSUME MigrationsAssumption ==
    \A r \in Releases :
      /\ Catalog[r] \in Seq(File) \ {<< >>}
      /\ \A i \in DOMAIN Catalog[r] : Catalog[r][i].version \in Nat \ {0}
      /\ \A i, j \in DOMAIN Catalog[r] :
           i < j => Catalog[r][i].version < Catalog[r][j].version

VARIABLES
    schema,         \* the migrations whose SQL is committed, in the order it ran
    ledger,         \* the committed rows of schema_migrations
    migrator        \* migrator[r]: the job of release r

migrationVars == <<schema, ledger, migrator>>

-----------------------------------------------------------------------------
\* A job; next is the catalog entry it looks at, ran and rows are what its open
\* transaction executed and recorded.
IdleJob == [pc |-> "idle", next |-> 1, ran |-> << >>, rows |-> {}]

Job ==
    [pc : {"idle", "waiting", "locked"}, next : Nat, ran : Seq(File), rows : SUBSET File]

MigrationTypeOK ==
    /\ schema \in Seq(File)
    /\ ledger \subseteq File
    /\ migrator \in [Releases -> Job]
    /\ \A r \in Releases : migrator[r].next \in 1 .. Len(Catalog[r]) + 1

MigrationInit ==
    /\ schema = << >>
    /\ ledger = {}
    /\ migrator = [r \in Releases |-> IdleJob]

\* The transaction begins and asks for the advisory lock.
BeginMigration(r) ==
    /\ migrator[r].pc = "idle"
    /\ migrator' = [migrator EXCEPT ![r].pc = "waiting"]
    /\ UNCHANGED <<schema, ledger>>

\* pg_advisory_xact_lock is granted, until the transaction ends.
LockMigrations(r) ==
    /\ migrator[r].pc = "waiting"
    /\ \A q \in Releases : migrator[q].pc # "locked"
    /\ migrator' = [migrator EXCEPT ![r].pc = "locked"]
    /\ UNCHANGED <<schema, ledger>>

\* The row of schema_migrations for the version of a file, as the transaction sees it.
Recorded(r, file) ==
    {row \in ledger \cup migrator[r].rows : row.version = file.version}

\* The loop finds the next file already applied, unchanged.
SkipMigration(r) ==
    /\ migrator[r].pc = "locked"
    /\ migrator[r].next <= Len(Catalog[r])
    /\ Recorded(r, Catalog[r][migrator[r].next]) = {Catalog[r][migrator[r].next]}
    /\ migrator' = [migrator EXCEPT ![r].next = @ + 1]
    /\ UNCHANGED <<schema, ledger>>

\* It runs a pending file and records it.
RunMigration(r) ==
    LET file == Catalog[r][migrator[r].next]
    IN  /\ migrator[r].pc = "locked"
        /\ migrator[r].next <= Len(Catalog[r])
        /\ Recorded(r, file) = {}
        /\ file.checksum \notin Broken
        /\ migrator' = [migrator EXCEPT ![r] =
                          [pc |-> "locked", next |-> migrator[r].next + 1,
                           ran |-> Append(migrator[r].ran, file),
                           rows |-> migrator[r].rows \cup {file}]]
        /\ UNCHANGED <<schema, ledger>>

CommitMigrations(r) ==
    /\ migrator[r].pc = "locked"
    /\ migrator[r].next > Len(Catalog[r])
    /\ schema' = schema \o migrator[r].ran
    /\ ledger' = ledger \cup migrator[r].rows
    /\ migrator' = [migrator EXCEPT ![r] = IdleJob]

\* Mutant of AbortMigrations: there is no transaction around the batch.
AbortKeepsWhatRan(r) ==
    /\ migrator[r].pc # "idle"
    /\ schema' = schema \o migrator[r].ran
    /\ ledger' = ledger \cup migrator[r].rows
    /\ migrator' = [migrator EXCEPT ![r] = IdleJob]

\* Anything else ends in the deferred Rollback: a file that differs from its row, SQL
\* that fails, a lock or statement timeout, the two-minute timeout, a lost connection.
AbortMigrations(r) ==
    /\ migrator[r].pc # "idle"
    /\ migrator' = [migrator EXCEPT ![r] = IdleJob]
    /\ UNCHANGED <<schema, ledger>>

MigrationNext ==
    \E r \in Releases :
      \/ BeginMigration(r) \/ LockMigrations(r) \/ SkipMigration(r) \/ RunMigration(r)
      \/ CommitMigrations(r) \/ AbortMigrations(r)

-----------------------------------------------------------------------------
\* The schema grows, at its end, by what the catalog of r has pending, in the order of
\* the versions.
RunsPending(r) ==
    LET added == Len(schema) + 1 .. Len(schema')
    IN  /\ Len(schema) <= Len(schema')
        /\ \A i \in 1 .. Len(schema) : schema'[i] = schema[i]
        /\ {schema'[i] : i \in added} = Range(Catalog[r]) \ Range(schema)
        /\ \A i, j \in added : i < j => schema'[i].version < schema'[j].version

\* "Applies all pending migrations in one transaction. A failure rolls back the
\* complete batch", and "changing an applied file is rejected" (migrations/README.md):
\* the schema only ever changes from one committed state to that state followed by all
\* that one release has pending, each version runs once, with one content, and the
\* ledger always says what ran - whichever jobs run at once and wherever they fail.
UpgradesAreWhole ==
    [][/\ schema' # schema => \E r \in Releases : RunsPending(r)
       /\ ledger' = Range(schema')
       /\ \A i, j \in DOMAIN schema' :
            schema'[i].version = schema'[j].version => i = j]_migrationVars
=============================================================================
