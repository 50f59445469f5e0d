--------------------------- MODULE OperationsProofs ---------------------------
(***************************************************************************)
(* Proofs about Migrations and ServiceLifecycle, side by side as in        *)
(* MCOperations: for every set of releases and every catalog, and for      *)
(* every number of workers, requests and connections.                      *)
(***************************************************************************)
EXTENDS MCOperations, FiniteSetTheorems, TLAPS

-----------------------------------------------------------------------------
(***************************************************************************)
(* The inductive invariant of the migration jobs.                          *)
(***************************************************************************)

\* The ledger says what ran, and every version ran once.
LedgerIsTrue ==
    /\ ledger = Range(schema)
    /\ \A i, j \in DOMAIN schema : schema[i].version = schema[j].version => i = j

\* The advisory lock has one holder.
OneLockHolder ==
    \A r, q \in Releases : migrator[r].pc = "locked" /\ migrator[q].pc = "locked" => r = q

\* What the open transaction of a job executed and recorded.
OpenTransaction(job, catalog, done) ==
    /\ job.rows = Range(job.ran)
    /\ \A i \in DOMAIN catalog : i < job.next => catalog[i] \in done \cup Range(job.ran)
    /\ \A i \in DOMAIN job.ran :
         /\ \E k \in DOMAIN catalog : k < job.next /\ job.ran[i] = catalog[k]
         /\ \A file \in done : file.version # job.ran[i].version
    /\ \A i, j \in DOMAIN job.ran : i < j => job.ran[i].version < job.ran[j].version

\* A job has executed nothing before it holds the lock; then it has dealt with the
\* files before the next one, in their order, and ran what was not yet applied.
JobsAreInOrder ==
    \A r \in Releases :
      /\ migrator[r].pc # "locked" =>
           migrator[r].next = 1 /\ migrator[r].ran = << >> /\ migrator[r].rows = {}
      /\ OpenTransaction(migrator[r], Catalog[r], Range(schema))

MigrationInvariant ==
    /\ MigrationTypeOK
    /\ LedgerIsTrue
    /\ OneLockHolder
    /\ JobsAreInOrder

-----------------------------------------------------------------------------
(***************************************************************************)
(* The inductive invariant of the service process.                         *)
(***************************************************************************)

\* The connections in use are never more than the pool may open.
ConnectionsBounded == IsFiniteSet(Acquired) /\ Cardinality(Acquired) <= MaxConns

\* The pool follows Run.
PoolFollowsRun ==
    /\ phase = "opening" => pool = "none"
    /\ phase \in {"opened", "serving", "draining", "returned", "stopping"} => pool = "open"
    /\ phase = "closing" => pool = "closing"
    /\ phase = "exited" => pool \in {"none", "closed"}

\* Nothing runs before Listen, and a drain that did not fail leaves no request behind.
NothingInFlight ==
    /\ phase \in {"opening", "opened"} =>
         /\ \A w \in Workers : worker[w] = "none"
         /\ \A q \in Requests : request[q] = "none"
    /\ phase \in {"returned", "stopping", "closing", "exited"} /\ failed = "no" =>
         \A q \in Requests : ~Live(q)

ServiceInvariant ==
    /\ ServiceTypeOK
    /\ ConnectionsBounded
    /\ PoolFollowsRun
    /\ NothingInFlight
    /\ GracefulDrain

OperationsInvariant == MigrationInvariant /\ ServiceInvariant

-----------------------------------------------------------------------------
(***************************************************************************)
(* Sequences.                                                              *)
(***************************************************************************)

\* Append adds one entry at the end.
LEMMA AppendEntries ==
    ASSUME NEW S, NEW s \in Seq(S), NEW e \in S
    PROVE  /\ Append(s, e) \in Seq(S) /\ Len(Append(s, e)) = Len(s) + 1
           /\ DOMAIN s = 1 .. Len(s) /\ DOMAIN Append(s, e) = 1 .. Len(s) + 1
           /\ \A i \in 1 .. Len(s) : Append(s, e)[i] = s[i]
           /\ Append(s, e)[Len(s) + 1] = e
           /\ Range(Append(s, e)) = Range(s) \cup {e}
<1>1. /\ Append(s, e) \in Seq(S) /\ Len(Append(s, e)) = Len(s) + 1 /\ Len(s) \in Nat
      /\ DOMAIN s = 1 .. Len(s) /\ DOMAIN Append(s, e) = 1 .. Len(s) + 1
      /\ \A i \in 1 .. Len(s) : Append(s, e)[i] = s[i]
      /\ Append(s, e)[Len(s) + 1] = e
  OBVIOUS
<1> DEFINE t == Append(s, e)
<1> HIDE DEF t
<1>2. \A i \in DOMAIN t : i \in 1 .. Len(s) \/ i = Len(s) + 1
  BY <1>1 DEF t
<1>3. Len(s) + 1 \in DOMAIN t /\ \A i \in DOMAIN s : i \in DOMAIN t
  BY <1>1 DEF t
<1>4. Range(t) = Range(s) \cup {e}
  BY <1>1, <1>2, <1>3 DEF Range, t
<1>5. QED
  BY <1>1, <1>4 DEF t

\* u is s, of length n, followed by t, of length k.
Joins(s, n, t, k, u) ==
    /\ n \in Nat /\ k \in Nat
    /\ DOMAIN s = 1 .. n /\ DOMAIN t = 1 .. k /\ DOMAIN u = 1 .. n + k
    /\ \A i \in 1 .. n : u[i] = s[i]
    /\ \A i \in n + 1 .. n + k : u[i] = t[i - n]

LEMMA JoinedRange ==
    ASSUME NEW s, NEW t, NEW u, NEW n, NEW k, Joins(s, n, t, k, u)
    PROVE  /\ {u[i] : i \in n + 1 .. n + k} = Range(t)
           /\ Range(u) = Range(s) \cup Range(t)
<1>0. /\ n \in Nat /\ k \in Nat
      /\ DOMAIN s = 1 .. n /\ DOMAIN t = 1 .. k /\ DOMAIN u = 1 .. n + k
      /\ \A i \in 1 .. n : u[i] = s[i]
      /\ \A i \in n + 1 .. n + k : u[i] = t[i - n]
  BY DEF Joins
<1> DEFINE added == n + 1 .. n + k
<1>1. \A i \in 1 .. n : u[i] = s[i] /\ i \in DOMAIN u
  BY <1>0
<1>2. \A i \in added : i - n \in 1 .. k /\ u[i] = t[i - n] /\ i \in DOMAIN u
  BY <1>0
<1>3. \A i \in 1 .. k : n + i \in added /\ (n + i) - n = i
  BY <1>0
<1>4. \A i \in 1 .. n + k : i \in 1 .. n \/ i \in added
  BY <1>0
<1> HIDE DEF added
<1>5. {u[i] : i \in added} = Range(t)
  <2>1. \A i \in added : u[i] \in Range(t)
    BY <1>0, <1>2 DEF Range
  <2>2. \A i \in 1 .. k : u[n + i] = t[i]
    BY <1>2, <1>3
  <2>3. \A e \in Range(t) : \E i \in added : e = u[i]
    <3>1. SUFFICES ASSUME NEW e \in Range(t) PROVE \E i \in added : e = u[i]
      OBVIOUS
    <3>2. PICK j \in 1 .. k : e = t[j]
      BY <1>0 DEF Range
    <3>3. n + j \in added /\ e = u[n + j]
      BY <1>3, <2>2, <3>2
    <3>4. QED
      BY <3>3
  <2>4. QED
    BY <2>1, <2>3
<1>6. Range(u) = Range(s) \cup Range(t)
  BY <1>0, <1>1, <1>2, <1>4, <1>5 DEF Range
<1>7. QED
  BY <1>5, <1>6 DEF added

-----------------------------------------------------------------------------
(***************************************************************************)
(* Migrations: what a step may do to a job.                                *)
(***************************************************************************)
JobMoves(r, job) ==
    /\ migrator' = [migrator EXCEPT ![r] = job]
    /\ UNCHANGED <<schema, ledger>>

LEMMA CatalogFacts ==
    ASSUME NEW r \in Releases
    PROVE  /\ Catalog[r] \in Seq(File) /\ Len(Catalog[r]) \in Nat
           /\ DOMAIN Catalog[r] = 1 .. Len(Catalog[r])
           /\ \A i \in 1 .. Len(Catalog[r]) :
                Catalog[r][i] \in File /\ Catalog[r][i].version \in Nat
           /\ \A i, j \in 1 .. Len(Catalog[r]) :
                i < j => Catalog[r][i].version < Catalog[r][j].version
<1>1. Catalog[r] \in Seq(File) /\ Len(Catalog[r]) \in Nat /\ DOMAIN Catalog[r] = 1 .. Len(Catalog[r])
  BY MigrationsAssumption
<1>2. QED
  BY <1>1, MigrationsAssumption

\* Every file has a version.
LEMMA FilesHaveVersions ==
    \A file \in File : file.version \in Int
<1> SUFFICES ASSUME NEW file \in File PROVE file.version \in Int
  OBVIOUS
<1>1. PICK r \in Releases : file \in Range(Catalog[r])
  BY DEF File
<1>2. PICK i \in DOMAIN Catalog[r] : file = Catalog[r][i]
  BY <1>1 DEF Range
<1>3. QED
  BY <1>2, MigrationsAssumption

\* Every step of a job that does not commit writes only the row of the job.
LEMMA JobFields ==
    ASSUME MigrationTypeOK, NEW r \in Releases
    PROVE  /\ migrator[r] \in Job /\ migrator[r].pc \in {"idle", "waiting", "locked"}
           /\ migrator[r].next \in Nat /\ migrator[r].ran \in Seq(File)
           /\ migrator[r].rows \subseteq File
           /\ migrator[r].next \in 1 .. Len(Catalog[r]) + 1
BY DEF MigrationTypeOK, Job

LEMMA EmptyJob ==
    /\ IdleJob \in Job /\ IdleJob.pc = "idle" /\ IdleJob.next = 1
    /\ IdleJob.ran = << >> /\ IdleJob.rows = {}
    /\ Range(<< >>) = {} /\ DOMAIN << >> = {}
<1>1. DOMAIN << >> = {} /\ << >> \in Seq(File)
  OBVIOUS
<1>2. Range(<< >>) = {}
  BY <1>1 DEF Range
<1>3. QED
  BY <1>1, <1>2 DEF IdleJob, Job

\* A job that moves, on its own, to a row that fits the invariant keeps it.
LEMMA JobMovesSafely ==
    ASSUME MigrationInvariant, NEW r \in Releases, NEW job \in Job, JobMoves(r, job),
           job.next \in 1 .. Len(Catalog[r]) + 1,
           job.pc = "locked" => \A q \in Releases \ {r} : migrator[q].pc # "locked",
           job.pc # "locked" => job.next = 1 /\ job.ran = << >> /\ job.rows = {},
           OpenTransaction(job, Catalog[r], Range(schema))
    PROVE  MigrationInvariant'
<1>0. /\ migrator \in [Releases -> Job] /\ migrator' = [migrator EXCEPT ![r] = job]
      /\ schema' = schema /\ ledger' = ledger
  BY DEF MigrationInvariant, MigrationTypeOK, JobMoves
<1>1. MigrationTypeOK' /\ LedgerIsTrue'
  BY <1>0 DEF MigrationInvariant, MigrationTypeOK, LedgerIsTrue
<1>2. OneLockHolder'
  BY <1>0 DEF MigrationInvariant, OneLockHolder
<1>3. JobsAreInOrder'
  <2>1. SUFFICES ASSUME NEW q \in Releases
                 PROVE  /\ migrator'[q].pc # "locked" =>
                             /\ migrator'[q].next = 1 /\ migrator'[q].ran = << >>
                             /\ migrator'[q].rows = {}
                        /\ OpenTransaction(migrator'[q], Catalog[q], Range(schema))
    BY <1>0 DEF JobsAreInOrder
  <2>2. CASE q = r
    BY <1>0, <2>2
  <2>3. CASE q # r
    BY <1>0, <2>3 DEF MigrationInvariant, JobsAreInOrder
  <2>4. QED
    BY <2>2, <2>3
<1>4. QED
  BY <1>1, <1>2, <1>3 DEF MigrationInvariant
LEMMA WaitsOrLocks ==
    ASSUME MigrationInvariant, NEW r \in Releases, BeginMigration(r) \/ LockMigrations(r)
    PROVE  MigrationInvariant'
<1>0. /\ MigrationTypeOK /\ migrator[r] \in Job /\ migrator[r].next \in 1 .. Len(Catalog[r]) + 1
      /\ migrator \in [Releases -> Job]
  BY JobFields DEF MigrationInvariant, MigrationTypeOK
<1>1. ASSUME NEW pc \in {"waiting", "locked"},
             migrator' = [migrator EXCEPT ![r].pc = pc], UNCHANGED <<schema, ledger>>,
             migrator[r].pc # "locked",
             pc = "locked" => \A q \in Releases : migrator[q].pc # "locked"
      PROVE  MigrationInvariant'
  <2> DEFINE job == [migrator[r] EXCEPT !.pc = pc]
  <2>1. /\ job \in Job /\ job.pc = pc /\ job.next = migrator[r].next
        /\ job.ran = migrator[r].ran /\ job.rows = migrator[r].rows
    BY <1>0 DEF Job
  <2>2. JobMoves(r, job)
    BY <1>0, <1>1 DEF JobMoves
  <2>3. /\ migrator[r].next = 1 /\ migrator[r].ran = << >> /\ migrator[r].rows = {}
        /\ OpenTransaction(migrator[r], Catalog[r], Range(schema))
    BY <1>1 DEF MigrationInvariant, JobsAreInOrder
  <2> HIDE DEF job
  <2>4. OpenTransaction(job, Catalog[r], Range(schema))
    BY <2>1, <2>3 DEF OpenTransaction
  <2>5. QED
    BY <1>0, <1>1, <2>1, <2>2, <2>3, <2>4, JobMovesSafely
<1>2. QED
  BY <1>1 DEF BeginMigration, LockMigrations

LEMMA SkipSafely ==
    ASSUME MigrationInvariant, NEW r \in Releases, SkipMigration(r)
    PROVE  MigrationInvariant'
<1> DEFINE m == migrator[r]
           file == Catalog[r][m.next]
           job == [m EXCEPT !.next = m.next + 1]
<1>0. /\ MigrationTypeOK /\ m \in Job /\ m.next \in 1 .. Len(Catalog[r]) + 1
      /\ m.next \in Nat /\ migrator \in [Releases -> Job]
  BY JobFields DEF MigrationInvariant, MigrationTypeOK
<1>1. /\ m.pc = "locked" /\ m.next <= Len(Catalog[r]) /\ Recorded(r, file) = {file}
      /\ migrator' = [migrator EXCEPT ![r].next = @ + 1] /\ UNCHANGED <<schema, ledger>>
  BY DEF SkipMigration
<1>2. Len(Catalog[r]) \in Nat /\ DOMAIN Catalog[r] = 1 .. Len(Catalog[r])
  BY CatalogFacts
<1>3. m.next + 1 \in Nat /\ m.next + 1 \in 1 .. Len(Catalog[r]) + 1
  BY <1>0, <1>1, <1>2
<1>4. /\ job \in Job /\ job.pc = m.pc /\ job.next = m.next + 1
      /\ job.ran = m.ran /\ job.rows = m.rows
  BY <1>0, <1>3 DEF Job
<1>5. JobMoves(r, job)
  BY <1>0, <1>1 DEF JobMoves
<1>6. OpenTransaction(m, Catalog[r], Range(schema)) /\ ledger = Range(schema)
  BY DEF MigrationInvariant, JobsAreInOrder, LedgerIsTrue
<1>7. file \in Range(schema) \cup Range(m.ran)
  BY <1>1, <1>6 DEF Recorded, OpenTransaction
<1>8. \A q \in Releases \ {r} : migrator[q].pc # "locked"
  BY <1>1 DEF MigrationInvariant, OneLockHolder
<1> HIDE DEF job
<1>9. OpenTransaction(job, Catalog[r], Range(schema))
  <2>1. \A i \in DOMAIN Catalog[r] : i < m.next + 1 => i < m.next \/ i = m.next
    BY <1>0, <1>2
  <2>2. \A i \in DOMAIN Catalog[r] : i < m.next => i < m.next + 1
    BY <1>0, <1>2
  <2> HIDE DEF m
  <2>3. \A i \in DOMAIN Catalog[r] : i < job.next => Catalog[r][i] \in Range(schema) \cup Range(job.ran)
    BY <1>4, <1>6, <1>7, <2>1 DEF OpenTransaction
  <2>4. QED
    BY <1>4, <1>6, <2>2, <2>3 DEF OpenTransaction
<1>10. QED
  BY <1>1, <1>3, <1>4, <1>5, <1>8, <1>9, JobMovesSafely

LEMMA RunSafely ==
    ASSUME MigrationInvariant, NEW r \in Releases, RunMigration(r)
    PROVE  MigrationInvariant'
<1> DEFINE m == migrator[r]
           file == Catalog[r][m.next]
           ran == Append(m.ran, file)
           job == [pc |-> "locked", next |-> m.next + 1, ran |-> ran, rows |-> m.rows \cup {file}]
<1>0. /\ MigrationTypeOK /\ m \in Job /\ m.next \in 1 .. Len(Catalog[r]) + 1
      /\ m.next \in Nat /\ m.ran \in Seq(File) /\ m.rows \subseteq File
  BY JobFields DEF MigrationInvariant
<1>1. /\ m.pc = "locked" /\ m.next <= Len(Catalog[r]) /\ Recorded(r, file) = {}
      /\ migrator' = [migrator EXCEPT ![r] = job] /\ UNCHANGED <<schema, ledger>>
  BY DEF RunMigration
<1>2. Len(Catalog[r]) \in Nat /\ DOMAIN Catalog[r] = 1 .. Len(Catalog[r])
  BY CatalogFacts
<1>3. m.next + 1 \in Nat /\ m.next + 1 \in 1 .. Len(Catalog[r]) + 1 /\ m.next \in DOMAIN Catalog[r]
  BY <1>0, <1>1, <1>2
<1>4. file \in File /\ file.version \in Int
  BY <1>2, <1>3, CatalogFacts
<1>5. /\ ran \in Seq(File) /\ DOMAIN m.ran = 1 .. Len(m.ran) /\ DOMAIN ran = 1 .. Len(m.ran) + 1
      /\ \A i \in 1 .. Len(m.ran) : ran[i] = m.ran[i]
      /\ ran[Len(m.ran) + 1] = file /\ Range(ran) = Range(m.ran) \cup {file}
  BY <1>0, <1>4, AppendEntries
<1>6. /\ job \in Job /\ job.pc = "locked" /\ job.next = m.next + 1
      /\ job.ran = ran /\ job.rows = m.rows \cup {file}
  BY <1>0, <1>3, <1>4, <1>5 DEF Job
<1>7. OpenTransaction(m, Catalog[r], Range(schema)) /\ ledger = Range(schema)
  BY DEF MigrationInvariant, JobsAreInOrder, LedgerIsTrue
<1>8. \A row \in Range(schema) \cup Range(m.ran) : row.version # file.version
  BY <1>1, <1>7 DEF Recorded, OpenTransaction
<1>9. \A q \in Releases \ {r} : migrator[q].pc # "locked"
  BY <1>1 DEF MigrationInvariant, OneLockHolder
<1> HIDE DEF job
<1>10. OpenTransaction(job, Catalog[r], Range(schema))
  <2>1. \A i \in DOMAIN Catalog[r] : i < m.next + 1 <=> i < m.next \/ i = m.next
    BY <1>0, <1>2
  <2>2. \A i \in DOMAIN ran : i \in DOMAIN m.ran \/ i = Len(m.ran) + 1
    BY <1>0, <1>5
  <2>3. \A i \in DOMAIN m.ran : i < Len(m.ran) + 1 /\ ~(Len(m.ran) + 1 < i)
    BY <1>0, <1>5
  <2>4. \A i \in DOMAIN m.ran : m.ran[i].version < file.version
    <3>1. SUFFICES ASSUME NEW i \in DOMAIN m.ran PROVE m.ran[i].version < file.version
      OBVIOUS
    <3>2. PICK k \in DOMAIN Catalog[r] : k < m.next /\ m.ran[i] = Catalog[r][k]
      BY <1>7 DEF OpenTransaction
    <3>3. QED
      BY <1>2, <1>3, <3>2, CatalogFacts
  <2>5. ~(Len(m.ran) + 1 < Len(m.ran) + 1)
    BY <1>0
  <2> DEFINE n == Len(m.ran) + 1
  <2> HIDE DEF m, ran, n
  <2>6. \A i \in DOMAIN Catalog[r] : i < job.next => Catalog[r][i] \in Range(schema) \cup Range(job.ran)
    BY <1>5, <1>6, <1>7, <2>1 DEF OpenTransaction
  <2>7. \A i \in DOMAIN ran :
          /\ \E k \in DOMAIN Catalog[r] : k < m.next + 1 /\ ran[i] = Catalog[r][k]
          /\ \A row \in Range(schema) : row.version # ran[i].version
    <3>1. ASSUME NEW i \in DOMAIN m.ran
          PROVE  /\ \E k \in DOMAIN Catalog[r] : k < m.next + 1 /\ ran[i] = Catalog[r][k]
                 /\ \A row \in Range(schema) : row.version # ran[i].version
      BY <1>5, <1>7, <2>1, <3>1 DEF OpenTransaction
    <3>2. /\ \E k \in DOMAIN Catalog[r] : k < m.next + 1 /\ file = Catalog[r][k]
          /\ \A row \in Range(schema) : row.version # file.version
      BY <1>3, <1>8, <2>1
    <3>3. QED
      BY <1>5, <2>2, <3>1, <3>2
  <2>8. \A i, j \in DOMAIN ran : i < j => ran[i].version < ran[j].version
    <3>1. \A i, j \in DOMAIN m.ran : i < j => ran[i].version < ran[j].version
      BY <1>5, <1>7 DEF OpenTransaction
    <3>2. \A i \in DOMAIN m.ran : ran[i].version < ran[n].version
      BY <1>5, <2>4 DEF n
    <3>3. \A i \in DOMAIN ran : i \in DOMAIN m.ran \/ i = n
      BY <2>2 DEF n
    <3>4. ~(n < n) /\ \A i \in DOMAIN m.ran : ~(n < i)
      BY <2>3, <2>5 DEF n
    <3>5. QED
      BY <3>1, <3>2, <3>3, <3>4
  <2>9. job.rows = Range(job.ran)
    BY <1>5, <1>6, <1>7 DEF OpenTransaction
  <2>10. QED
    BY <1>6, <2>6, <2>7, <2>8, <2>9 DEF OpenTransaction
<1>11. JobMoves(r, job)
  BY <1>1 DEF JobMoves
<1>12. QED
  BY <1>3, <1>6, <1>9, <1>10, <1>11, JobMovesSafely

LEMMA AbortSafely ==
    ASSUME MigrationInvariant, NEW r \in Releases, AbortMigrations(r)
    PROVE  MigrationInvariant'
<1>1. JobMoves(r, IdleJob) /\ Len(Catalog[r]) \in Nat /\ DOMAIN Catalog[r] = 1 .. Len(Catalog[r])
  BY CatalogFacts DEF AbortMigrations, JobMoves
<1>2. 1 \in 1 .. Len(Catalog[r]) + 1 /\ \A i \in DOMAIN Catalog[r] : ~(i < 1)
  BY <1>1
<1>3. OpenTransaction(IdleJob, Catalog[r], Range(schema))
  BY <1>2, EmptyJob, Zenon DEF OpenTransaction
<1>4. QED
  BY <1>1, <1>2, <1>3, EmptyJob, JobMovesSafely
\* A job that has executed nothing fits any schema.
LEMMA NothingExecuted ==
    ASSUME NEW r \in Releases, NEW job, NEW done,
           job.next = 1, job.ran = << >>, job.rows = {}
    PROVE  OpenTransaction(job, Catalog[r], done)
<1>1. DOMAIN Catalog[r] = 1 .. Len(Catalog[r]) /\ Len(Catalog[r]) \in Nat
  BY CatalogFacts
<1>2. \A i \in DOMAIN Catalog[r] : ~(i < 1)
  BY <1>1
<1>3. QED
  BY <1>2, EmptyJob, Zenon DEF OpenTransaction

\* The commit appends all that was pending, and the versions stay distinct.
LEMMA CommitFacts ==
    ASSUME MigrationInvariant, NEW r \in Releases, CommitMigrations(r)
    PROVE  /\ schema' \in Seq(File) /\ RunsPending(r) /\ ledger' = Range(schema')
           /\ \A i, j \in DOMAIN schema' : schema'[i].version = schema'[j].version => i = j
<1> DEFINE m == migrator[r]
           n == Len(schema)
           k == Len(m.ran)
<1>0. /\ schema \in Seq(File) /\ m.ran \in Seq(File) /\ m.next \in Nat
      /\ ledger = Range(schema) /\ LedgerIsTrue
      /\ OpenTransaction(m, Catalog[r], Range(schema))
      /\ m.next > Len(Catalog[r]) /\ schema' = schema \o m.ran /\ ledger' = ledger \cup m.rows
  BY JobFields
     DEF MigrationInvariant, MigrationTypeOK, LedgerIsTrue, JobsAreInOrder, CommitMigrations
<1>1. /\ schema' \in Seq(File) /\ Len(schema') = n + k /\ n \in Nat /\ k \in Nat
      /\ DOMAIN schema = 1 .. n /\ DOMAIN m.ran = 1 .. k /\ DOMAIN schema' = 1 .. n + k
      /\ \A i \in 1 .. n : schema'[i] = schema[i]
      /\ \A i \in n + 1 .. n + k : i - n \in 1 .. k /\ schema'[i] = m.ran[i - n]
      /\ {schema'[i] : i \in n + 1 .. n + k} = Range(m.ran)
      /\ Range(schema') = Range(schema) \cup Range(m.ran)
  <2>1. n \in Nat /\ k \in Nat
    BY <1>0
  <2>2. schema \in Seq(File) /\ m.ran \in Seq(File) /\ schema' = schema \o m.ran
    BY <1>0
  <2> HIDE DEF m
  <2>3. PICK t : t = schema'
    OBVIOUS
  <2>4. /\ t \in Seq(File) /\ Len(t) = n + k
        /\ DOMAIN schema = 1 .. n /\ DOMAIN m.ran = 1 .. k /\ DOMAIN t = 1 .. n + k
        /\ \A i \in 1 .. n : t[i] = schema[i]
    BY <2>2, <2>3
  <2>5. \A i \in n + 1 .. n + k : i - n \in 1 .. k /\ t[i] = m.ran[i - n]
    BY <2>2, <2>3
  <2> HIDE DEF n, k
  <2>6. {t[i] : i \in n + 1 .. n + k} = Range(m.ran) /\ Range(t) = Range(schema) \cup Range(m.ran)
    <3>1. Joins(schema, n, m.ran, k, t)
      BY <2>1, <2>4, <2>5 DEF Joins
    <3>2. QED
      BY <3>1, JoinedRange
  <2>7. Range(schema') = Range(t) /\ {schema'[i] : i \in n + 1 .. n + k} = {t[i] : i \in n + 1 .. n + k}
    BY <2>3 DEF Range
  <2>8. QED
    BY <2>1, <2>3, <2>4, <2>5, <2>6, <2>7
<1>2. ledger' = Range(schema')
  BY <1>0, <1>1 DEF OpenTransaction
<1>3. Range(m.ran) = Range(Catalog[r]) \ Range(schema)
  <2>1. \A i \in DOMAIN Catalog[r] : i < m.next
    BY <1>0, CatalogFacts
  <2>2. ASSUME NEW file \in Range(Catalog[r]), file \notin Range(schema)
        PROVE  file \in Range(m.ran)
    BY <1>0, <2>1, <2>2 DEF OpenTransaction, Range
  <2>3. ASSUME NEW file \in Range(m.ran)
        PROVE  file \in Range(Catalog[r]) /\ file \notin Range(schema)
    <3>1. PICK i \in DOMAIN m.ran : file = m.ran[i]
      BY DEF Range
    <3>2. /\ \E j \in DOMAIN Catalog[r] : m.ran[i] = Catalog[r][j]
          /\ \A row \in Range(schema) : row.version # m.ran[i].version
      BY <1>0 DEF OpenTransaction
    <3>3. QED
      BY <3>1, <3>2 DEF Range
  <2>4. QED
    BY <2>2, <2>3
<1>4. \A i, j \in n + 1 .. n + k : i < j => schema'[i].version < schema'[j].version
  <2>1. SUFFICES ASSUME NEW i \in n + 1 .. n + k, NEW j \in n + 1 .. n + k, i < j
                 PROVE  schema'[i].version < schema'[j].version
    OBVIOUS
  <2>2. i - n \in 1 .. k /\ j - n \in 1 .. k /\ i - n < j - n
    BY <1>1, <2>1
  <2>3. m.ran[i - n].version < m.ran[j - n].version
    BY <1>0, <1>1, <2>2 DEF OpenTransaction
  <2>4. QED
    BY <1>1, <2>3
<1>5. RunsPending(r)
  <2>1. n <= n + k
    BY <1>1
  <2>2. QED
    BY <1>1, <1>3, <1>4, <2>1 DEF RunsPending
<1>6. \A i, j \in DOMAIN schema' : schema'[i].version = schema'[j].version => i = j
  <2>1. SUFFICES ASSUME NEW i \in 1 .. n + k, NEW j \in 1 .. n + k,
                        schema'[i].version = schema'[j].version
                 PROVE  i = j
    BY <1>1
  <2>2. CASE i \in 1 .. n /\ j \in 1 .. n
    BY <1>0, <1>1, <2>1, <2>2 DEF LedgerIsTrue
  <2>3. ASSUME NEW a \in 1 .. n, NEW b \in n + 1 .. n + k
        PROVE  schema'[a].version # schema'[b].version
    <3>1. schema[a] \in Range(schema) /\ b - n \in 1 .. k
      BY <1>1 DEF Range
    <3>2. schema[a].version # m.ran[b - n].version
      BY <1>0, <1>1, <3>1 DEF OpenTransaction
    <3>3. QED
      BY <1>1, <3>2
  <2>4. CASE i \in n + 1 .. n + k /\ j \in n + 1 .. n + k
    <3>1. schema'[i] \in File /\ schema'[j] \in File
      BY <1>1
    <3>2. schema'[i].version \in Int /\ schema'[j].version \in Int
      BY <3>1, FilesHaveVersions
    <3>3. ~(i < j) /\ ~(j < i)
      BY <1>4, <2>1, <2>4, <3>2
    <3>4. QED
      BY <1>1, <3>3
  <2>5. \A a \in 1 .. n + k : a \in 1 .. n \/ a \in n + 1 .. n + k
    BY <1>1
  <2>6. QED
    BY <2>1, <2>2, <2>3, <2>4, <2>5
<1>7. QED
  BY <1>1, <1>2, <1>5, <1>6

LEMMA CommitSafely ==
    ASSUME MigrationInvariant, NEW r \in Releases, CommitMigrations(r)
    PROVE  MigrationInvariant'
<1>0. /\ migrator \in [Releases -> Job] /\ migrator' = [migrator EXCEPT ![r] = IdleJob]
      /\ ledger \subseteq File /\ migrator[r].rows \subseteq File
      /\ ledger' = ledger \cup migrator[r].rows /\ migrator[r].pc = "locked"
      /\ \A q \in Releases : migrator[q].next \in 1 .. Len(Catalog[q]) + 1
  BY JobFields DEF MigrationInvariant, MigrationTypeOK, CommitMigrations
<1>1. 1 \in 1 .. Len(Catalog[r]) + 1
  BY CatalogFacts
<1>2. MigrationTypeOK'
  BY <1>0, <1>1, CommitFacts, EmptyJob DEF MigrationTypeOK
<1>3. LedgerIsTrue'
  BY CommitFacts DEF LedgerIsTrue
<1>4. \A q \in Releases : /\ migrator'[q].pc # "locked" /\ migrator'[q].next = 1
                          /\ migrator'[q].ran = << >> /\ migrator'[q].rows = {}
  BY <1>0, EmptyJob DEF MigrationInvariant, OneLockHolder, JobsAreInOrder
<1>5. \A q \in Releases : OpenTransaction(migrator'[q], Catalog[q], Range(schema'))
  BY <1>4, NothingExecuted
<1>6. QED
  BY <1>2, <1>3, <1>4, <1>5 DEF MigrationInvariant, OneLockHolder, JobsAreInOrder

LEMMA MigrationStep ==
    ASSUME MigrationInvariant, [MigrationNext]_migrationVars
    PROVE  MigrationInvariant'
<1>1. CASE UNCHANGED migrationVars
  BY <1>1 DEF migrationVars, MigrationInvariant, MigrationTypeOK, LedgerIsTrue, OneLockHolder,
              JobsAreInOrder
<1>2. QED
  BY <1>1, WaitsOrLocks, SkipSafely, RunSafely, CommitSafely, AbortSafely DEF MigrationNext

LEMMA MigrationInitially ==
    ASSUME MigrationInit
    PROVE  MigrationInvariant
<1>0. /\ schema = << >> /\ ledger = {} /\ migrator = [r \in Releases |-> IdleJob]
      /\ Range(schema) = {} /\ DOMAIN schema = {} /\ schema \in Seq(File)
  BY EmptyJob DEF MigrationInit
<1>1. \A r \in Releases : 1 \in 1 .. Len(Catalog[r]) + 1
  BY CatalogFacts
<1>2. MigrationTypeOK /\ LedgerIsTrue /\ OneLockHolder
  BY <1>0, <1>1, EmptyJob DEF MigrationTypeOK, LedgerIsTrue, OneLockHolder
<1>3. JobsAreInOrder
  BY <1>0, EmptyJob, NothingExecuted DEF JobsAreInOrder
<1>4. QED
  BY <1>2, <1>3 DEF MigrationInvariant

\* What UpgradesAreWhole says of one step.
WholeUpgrade ==
    /\ schema' # schema => \E r \in Releases : RunsPending(r)
    /\ ledger' = Range(schema')
    /\ \A i, j \in DOMAIN schema' : schema'[i].version = schema'[j].version => i = j

LEMMA WholeUpgradeStep ==
    ASSUME MigrationInvariant, MigrationInvariant', [MigrationNext]_migrationVars
    PROVE  WholeUpgrade
<1>1. /\ ledger' = Range(schema')
      /\ \A i, j \in DOMAIN schema' : schema'[i].version = schema'[j].version => i = j
  BY DEF MigrationInvariant, LedgerIsTrue
<1>2. ASSUME schema' # schema
      PROVE  \E r \in Releases : RunsPending(r)
  BY <1>2, CommitFacts DEF MigrationNext, migrationVars, BeginMigration, LockMigrations,
                           SkipMigration, RunMigration, AbortMigrations
<1>3. QED
  BY <1>1, <1>2 DEF WholeUpgrade

-----------------------------------------------------------------------------
(***************************************************************************)
(* The service process: types, the pool, and what is in flight.            *)
(***************************************************************************)

\* No action but these two gives out a connection, and they give out one.
LEMMA ConnectionsStep ==
    ASSUME ServiceInvariant, [ServiceNext]_serviceVars
    PROVE  ConnectionsBounded'
<1>0. /\ IsFiniteSet(Acquired) /\ Cardinality(Acquired) <= MaxConns /\ MaxConns \in Nat
      /\ worker \in [Workers -> {"none", "idle", "working", "stopped"}]
      /\ request \in [Requests -> {"none", "waiting", "querying", "answering", "answered",
                                   "refused", "lost"}]
  BY ServiceAssumption DEF ServiceInvariant, ConnectionsBounded, ServiceTypeOK
<1>1. Cardinality(Acquired) \in Nat
  BY <1>0, FS_CardinalityType
<1>2. ASSUME Acquired' \subseteq Acquired
      PROVE  ConnectionsBounded'
  <2>1. IsFiniteSet(Acquired') /\ Cardinality(Acquired') <= Cardinality(Acquired)
    BY <1>0, <1>2, FS_Subset
  <2>2. Cardinality(Acquired') \in Nat
    BY <2>1, FS_CardinalityType
  <2>3. IsFiniteSet(Acquired') /\ Cardinality(Acquired') <= MaxConns
    BY <1>0, <1>1, <2>1, <2>2
  <2>4. QED
    BY <2>3 DEF ConnectionsBounded
<1>3. ASSUME Free, NEW x, Acquired' = Acquired \cup {x}
      PROVE  ConnectionsBounded'
  <2>1. IsFiniteSet(Acquired \cup {x})
    BY <1>0, FS_AddElement
  <2>2. Cardinality(Acquired \cup {x}) <= Cardinality(Acquired) + 1
    <3>1. Cardinality(Acquired \cup {x}) =
            IF x \in Acquired THEN Cardinality(Acquired) ELSE Cardinality(Acquired) + 1
      BY <1>0, FS_AddElement, Zenon
    <3>2. QED
      BY <1>1, <3>1
  <2>3. Cardinality(Acquired \cup {x}) \in Nat
    BY <2>1, FS_CardinalityType
  <2>4. Cardinality(Acquired \cup {x}) <= MaxConns
    BY <1>0, <1>1, <1>3, <2>2, <2>3 DEF Free
  <2>5. IsFiniteSet(Acquired') /\ Cardinality(Acquired') <= MaxConns
    BY <1>3, <2>1, <2>4
  <2>6. QED
    BY <2>5 DEF ConnectionsBounded
<1>4. ASSUME NEW w \in Workers, WorkerAcquires(w)
      PROVE  ConnectionsBounded'
  <2>1. Free /\ Acquired' = Acquired \cup {w}
    BY <1>0, <1>4 DEF WorkerAcquires, Acquired
  <2>2. QED
    BY <1>3, <2>1
<1>5. ASSUME NEW q \in Requests, RequestAcquires(q)
      PROVE  ConnectionsBounded'
  <2>1. Free /\ Acquired' = Acquired \cup {q}
    BY <1>0, <1>5 DEF RequestAcquires, Acquired
  <2>2. QED
    BY <1>3, <2>1
<1>6. CASE UNCHANGED <<worker, request>>
  <2>1. Acquired' \subseteq Acquired
    BY <1>6 DEF Acquired
  <2>2. QED
    BY <1>2, <2>1
<1>7. CASE Listen \/ Exit
  <2>1. Acquired' \subseteq Acquired
    BY <1>0, <1>7 DEF Listen, Exit, Acquired
  <2>2. QED
    BY <1>2, <2>1
<1>8. ASSUME NEW w \in Workers, WorkerReleases(w) \/ WorkerStops(w)
      PROVE  ConnectionsBounded'
  <2>1. Acquired' \subseteq Acquired
    BY <1>0, <1>8 DEF WorkerReleases, WorkerStops, Acquired
  <2>2. QED
    BY <1>2, <2>1
<1>9. ASSUME NEW q \in Requests,
             Accept(q) \/ RefuseReadiness(q) \/ RequestReleases(q) \/ Answer(q) \/ RequestFails(q)
      PROVE  ConnectionsBounded'
  <2>1. Acquired' \subseteq Acquired
    BY <1>0, <1>9 DEF Accept, RefuseReadiness, RequestReleases, Answer, RequestFails, Acquired
  <2>2. QED
    BY <1>2, <2>1
<1>10. QED
  BY <1>4, <1>5, <1>6, <1>7, <1>8, <1>9
     DEF ServiceNext, serviceVars, OpenPool, OpenFails, StartFails, Signal, AcceptFails, Drain,
         Drained, DrainTimesOut, StopWorkers, ClosePool

\* The rest of the invariant of the service.
LEMMA ServiceStep ==
    ASSUME ServiceInvariant, [ServiceNext]_serviceVars
    PROVE  ServiceInvariant'
<1> DEFINE Rest == ServiceTypeOK /\ PoolFollowsRun /\ NothingInFlight /\ GracefulDrain
<1>0. Rest /\ ConnectionsBounded'
  BY ConnectionsStep DEF ServiceInvariant
<1> USE DEF ServiceTypeOK, PoolFollowsRun, NothingInFlight, GracefulDrain, Live, Acquired
<1>1. ASSUME OpenPool \/ OpenFails \/ Listen \/ StartFails \/ Signal
      PROVE  Rest'
  BY <1>0, <1>1 DEF OpenPool, OpenFails, Listen, StartFails, Signal
<1>2. ASSUME NEW w \in Workers, WorkerAcquires(w) \/ WorkerReleases(w) \/ WorkerStops(w)
      PROVE  Rest'
  BY <1>0, <1>2 DEF WorkerAcquires, WorkerReleases, WorkerStops, Free
<1>3. ASSUME NEW q \in Requests, Accept(q) \/ RefuseReadiness(q) \/ RequestAcquires(q)
      PROVE  Rest'
  BY <1>0, <1>3 DEF Accept, RefuseReadiness, RequestAcquires, Free
<1>4. ASSUME NEW q \in Requests, RequestReleases(q) \/ Answer(q) \/ RequestFails(q)
      PROVE  Rest'
  BY <1>0, <1>4 DEF RequestReleases, Answer, RequestFails
<1>5. ASSUME AcceptFails \/ Drain \/ Drained \/ DrainTimesOut
      PROVE  Rest'
  BY <1>0, <1>5 DEF AcceptFails, Drain, Drained, DrainTimesOut
<1>6. ASSUME StopWorkers \/ ClosePool
      PROVE  Rest'
  BY <1>0, <1>6 DEF StopWorkers, ClosePool
<1>7. ASSUME Exit
      PROVE  Rest'
  BY <1>0, <1>7 DEF Exit
<1>8. ASSUME UNCHANGED serviceVars
      PROVE  Rest'
  BY <1>0, <1>8 DEF serviceVars
<1> HIDE DEF Rest
<1>9. Rest'
  BY <1>1, <1>2, <1>3, <1>4, <1>5, <1>6, <1>7, <1>8 DEF ServiceNext
<1>10. QED
  BY <1>0, <1>9 DEF Rest, ServiceInvariant

LEMMA ServiceInitially ==
    ASSUME ServiceInit
    PROVE  ServiceInvariant
<1>1. Acquired = {}
  BY DEF ServiceInit, Acquired
<1>2. ConnectionsBounded
  BY <1>1, FS_EmptySet, ServiceAssumption DEF ConnectionsBounded
<1>3. QED
  BY <1>1, <1>2 DEF ServiceInit, ServiceInvariant, ServiceTypeOK, PoolFollowsRun, NothingInFlight,
                    GracefulDrain, Live

-----------------------------------------------------------------------------
(***************************************************************************)
(* The theorems.                                                           *)
(***************************************************************************)
LEMMA OperationsStep ==
    ASSUME OperationsInvariant, [Next]_<<migrationVars, serviceVars>>
    PROVE  /\ OperationsInvariant'
           /\ [MigrationNext]_migrationVars
<1>1. [MigrationNext]_migrationVars /\ [ServiceNext]_serviceVars
  BY DEF Next
<1>2. QED
  BY <1>1, MigrationStep, ServiceStep DEF OperationsInvariant

\* Whatever catalogs the releases carry and wherever their jobs fail, and however the
\* requests, the workers and the shutdown of Run interleave, the invariant holds.
THEOREM InvariantHolds == Spec => []OperationsInvariant
<1>1. Init => OperationsInvariant
  BY MigrationInitially, ServiceInitially DEF Init, OperationsInvariant
<1>2. OperationsInvariant /\ [Next]_<<migrationVars, serviceVars>> => OperationsInvariant'
  BY OperationsStep
<1>3. QED
  BY <1>1, <1>2, PTL DEF Spec

\* The ledger, the jobs and the process have their types, and the workers and handlers
\* of one process never hold more connections than cfg.DBMaxConns.
THEOREM TypeCorrect == Spec => []TypeOK
<1>1. OperationsInvariant => TypeOK
  BY DEF OperationsInvariant, MigrationInvariant, ServiceInvariant, ConnectionsBounded, TypeOK
<1>2. QED
  BY <1>1, InvariantHolds, PTL

\* The deferred functions of Run close the pool after the last worker has stopped and
\* the last connection is back, and a clean drain loses no accepted request.
THEOREM DrainAlwaysGraceful == Spec => []GracefulDrain
<1>1. OperationsInvariant => GracefulDrain
  BY DEF OperationsInvariant, ServiceInvariant
<1>2. QED
  BY <1>1, InvariantHolds, PTL

\* applyMigrations changes the schema only by all that one release has pending, in the
\* order of the versions, runs no version twice and keeps the ledger true, for every
\* set of releases and every catalog.
THEOREM UpgradesAlwaysWhole == Spec => UpgradesAreWhole
<1>1. OperationsInvariant /\ OperationsInvariant' /\ [Next]_<<migrationVars, serviceVars>>
        => [WholeUpgrade]_migrationVars
  BY OperationsStep, WholeUpgradeStep DEF OperationsInvariant
<1>2. Spec => [][WholeUpgrade]_migrationVars
  BY <1>1, InvariantHolds, PTL DEF Spec
<1>3. QED
  BY <1>2 DEF UpgradesAreWhole, WholeUpgrade
=============================================================================
