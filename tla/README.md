# dpm in TLA+

`dpm` compares a desired PostgreSQL or CockroachDB schema (SQL files, a catalog
dump or a live database) with a target database, renders the migration, has it
reviewed, and applies it. This directory models what its correctness rests on:
the diff and the script emitted for it, executed statement by statement; the
lease, the command and the server that execute it, under failure and
interleaving; the rehearsal and the evidence around it. TLC checks the models on
small instances, TLAPS proves the main results for every instance. Paths below
are relative to the repository.

## 1. Inventory

### Components

| component | state it keeps | operations | what makes it correct |
|---|---|---|---|
| **Migration lease**, `src/lease.rs` | a connection, the advisory key, owner, `executed`, last fingerprint; on the server a session with a lock and perhaps a transaction | `acquire`, `apply(ValidatedScript)`, `release`, drop | statements run only under the lock; two migrators' durable work never interleaves; a failed script leaves a prefix; a receipt never reports more than is durable, and proves tenure; every lock is freed |
| **`dpm apply`**, `src/main.rs` `cmd_apply` | the loaded catalogs, the rendered plan and its checksum, consents, the lease, the exit code | load, render, refuse, review, confirm, lease, reload and compare, execute, converge, cross-check, release | what is executed is what was reviewed, on the catalogs it was rendered from; drops need two consents; a pin bounds the run; an exit code describes one execution epoch |
| other commands, `src/main.rs` | none across steps | `diff`, `verify`, `dump`, `bootstrap`, `review` | exit codes agree with what was found |
| **Script execution**, `src/apply.rs` | a connection | `apply_script`, `split_statements`, `strip_psql_meta_commands` | a statement is never cut inside a quote, dollar quote or comment |
| **Diff**, `src/diff.rs` | none (pure) | `diff` over schemas, extensions, enums, sequences, tables, columns, constraints, indexes, views, functions, triggers | applying the emitted plan makes the next diff empty, or leaves only gated and manual changes |
| **Emit**, `src/emit.rs` | the script under construction, counters of destructive, gated and manual changes | `emit` in phases 0 to 12 | dependencies are created before and dropped after their users; gated SQL is commented out |
| **HTTP server**, `src/server/mod.rs`, `src/server/http.rs` | permits, the in-process `apply_lock`, configuration | accept, read a request, route, diff, apply, health | admission is bounded; applies of one process are serial; a reported success is converged |
| **Sync client**, `src/sync.rs`, `src/interfaces.rs` | an HTTP client with timeouts | requests to the server | a timed-out request may still take effect |
| **Plan safety**, `src/plan_safety/` | none (pure) | borrows of a change, conflicts, waves, certificate, plan checksum | steps of a wave do not conflict; conflicting steps keep their order; equal checksums mean equal plan and SQL |
| **Formal typestate and bounded checker**, `src/formal.rs` | `LeaseState` (owner, epoch), `ModelState` | `acquire`, `release`, `step`, `bounded_model_check` | one holder, monotone epochs, no apply without lease and validation |
| **Rehearsal**, `src/verify.rs` | a replica database | materialise, apply, diff, run checkers, drop | the replica is dropped on every path; the verdict covers every check |
| **Sources**, `src/source.rs` | temporary shadow databases | create, load SQL, introspect, drop | no shadow database outlives its use |
| Introspection, `src/introspect.rs` | none | catalog queries | reads only what the server holds |
| Canonicalization, `src/canonicalize.rs` | a temporary schema on the shadow server | round trip of definitions | a fixed point under re-parsing |
| Cross-checks, `src/crosscheck.rs` | child processes | run external diff tools, filter their output | agreement only if the tool ran and found nothing |
| AI review, `src/ai.rs` | a request or child process | prompt, call, one retry, parse the verdict | an unparsable answer is a rejection |
| Flags, `src/flagenv.rs` | resolved settings | flag, environment, default | precedence |
| FK index advisor, `src/advisor.rs`; catalog, `src/model.rs` | none | pure | — |

### How they interact

`cmd_apply` calls *Sources* (hence *Introspection* and, with a shadow server,
*Canonicalization*) for the two catalogs, *Diff* and *Emit* for the script,
*Plan safety* for its checksum, *AI review* and the terminal for approval, the
*Migration lease* for execution, *Introspection* and *Diff* again for
convergence, *Cross-checks* and *AI review* for evidence. The *server* does
nearly the same per request with an in-process mutex around the lease. `dpm`
processes, server and whoever else writes share nothing but the target database,
and PostgreSQL's advisory lock is the only synchronisation between them; on
CockroachDB there is none.

### What is hard

* **Interleaving.** Source, target and terminal are read at different times;
  another `dpm apply`, a server, an editor of the schema file or a hand-written
  `ALTER` comes between any two of them.
* **The lock is a session's, the decision a client's.** A session can die, a
  connection can break while a statement runs, and the session of a dropped
  connection outlives it, still holding the lock, until the server notices.
* **Partial failure.** Enum additions are statements of their own before the
  transaction; a check, a statement, the `ROLLBACK` after it or the release may
  fail.
* **The guard is textual.** A statement can release the lease through dynamic
  SQL that `ValidatedScript::parse` cannot see.
* **Two renderings.** The plan is rendered before the review and again under the
  lease; consents, pin and review were about the first.
* **Waiting.** A person, an AI reviewer, external tools without timeouts.
* **Order of statements.** A plan is emitted in phases, each a pass over all
  changes; a change in the wrong phase is refused by the server, or takes
  other objects with it.
* **Half a script.** Enum labels are durable before the transaction begins; the
  next plan starts from what a lost session or a refusal left.
* **Values without destructors.** A shadow database is dropped by code on the
  path, not by the value that stands for it, so each early return may forget one.
* **Evidence.** A checker's output is read line by line, a reviewer's for its
  verdict line; a tool that is missing or fails must not look like one that agrees.

`PROJECT.json` lists these hazards at their lines, with the properties that would
catch each going wrong, and those no property covers yet.

## 2. Modules

| module | models | role |
|---|---|---|
| `ExecutionLane` | nothing in detail: what the lease promises | abstract specification |
| `Plans` | catalogs, and *diff*/*emit* by their effect | used by `ApplyCommand`, `ServerApply` |
| `MigrationLease` | `src/lease.rs`, with the sessions, connections and transactions it depends on | detailed specification, refines `ExecutionLane` |
| `ApplyCommand` | `cmd_apply`, `load_sides`, `render` | composed with the lease through `ExecutionLane` |
| `Admission` | `serve_local`, `handle_connection`, clients and SIGINT | what a task computes is abstracted |
| `ServerApply` | `handle_apply` from `apply_lock` to the answer | composed with the lease through `ExecutionLane`; its progress is what `Admission` abstracts as `Apply` |
| `Catalogs`, `SchemaDiff`, `SchemaEmit` | `src/model.rs` and what `src/introspect.rs` shows of a database; `src/diff.rs`; `src/emit.rs` | pure operators |
| `Database` | the server that executes a script (external) | pure operators |
| `Convergence` | diff, emit and execution, again and again | state machine over the four above |
| `PlanBorrows`, `PlanCertificate` | `src/plan_safety/resource.rs`, `certificate.rs` | pure operators |
| `FormalModel` | `ModelState` of `src/formal.rs` | abstract specification |
| `CertifiedMigration` | the loop of `certify_plan`, the typestates and `LeaseState` of `src/formal.rs` | refines `FormalModel` |
| `CrossChecks`, `AiReview` | how `src/crosscheck.rs` and `src/ai.rs` choose, read and judge | pure operators |
| `Rehearsal` | the procedures of `src/source.rs`, `src/canonicalize.rs`, `src/verify.rs`, and the runs of checkers and reviewers | actions |
| `Commands` | `cmd_diff`, `cmd_review`, `cmd_verify`, `cmd_apply` of `src/main.rs` over `Rehearsal` | state machine |
| `MC...` | instances for TLC | |
| `..._proofs` | theorems and proofs | |

Operators marked `Mutant:` are deliberately wrong variants of the definition that
follows them; no specification uses them. Substituted for the definition they
violate the property `PROJECT.json` pairs them with, which shows that the
property depends on that line of the code.

### ExecutionLane

One lane per database. A migrator enters it when it is free and only once
(`Enter`), or gives up (`Withdraw`); while in it, it extends the journal of
durable work (`Write`); it leaves, by its will or not (`Leave`).

### MigrationLease

A member of `Leases` is one call of `PostgresMigrationLease::acquire` and what
becomes of the value it returns. `phase` is the await at which the code stands:

| phase | the code is about to | action |
|---|---|---|
| `idle`, `connected`, `verifying` | connect, try the lock, look at `pg_locks` | `Connect`, `TryLock`, `VerifyAcquired` |
| `held` | be called: `apply`, `release` or drop | `Apply`, `Release`, `Abandon` |
| `before`, `executing`, `after` | verify, wait for the statement, verify | `CheckBefore`, `Execute`/`ExecuteBroken`, `CheckAfter` |
| `rollback` | send `ROLLBACK`, ignoring its error | `Rollback` |
| `closing`, `lost` | close, with `unlocked` true or false | `Close` |
| `done` | – | |

The failed check *before* a statement returns without a `ROLLBACK`, the failed
check *after* it and the failed statement send one, as in the code; `executed`
changes only after the last statement's check. On the server's side `conn` is
`up`, `cut` (client gone, session alive) or `gone`; `txn`, `pending` and
`journal` say what the session's transaction holds and what is durable.
`LinkBreaks`, `SessionEnds` and `Abandon` may happen at any moment.

A statement is reduced to its kind: `begin`, `commit`, `work`, `unlock`
(releases the lock in a way the guard cannot see) and `control` (the same in
plain text, which `ValidatedScript` refuses). The 64-bit key, its two halves in
`pg_locks`, owner names and fingerprints are left out.

### Plans

A catalog is a set of objects. `Plan(s, t)` is the diff; enum labels (`Values`)
are separate because `emit` adds them before `BEGIN`, one durable statement each,
and never removes them (`EnumNeedsRebuild` is only reported).

### ApplyCommand

A member of `Runs` is one `dpm apply` against the same target. `phase` again is
the await at which it stands: `source`, `target` (the two reads of `load_sides`,
the second with diff, render and the refusals that follow without an await),
`review`, `confirm`, `acquire`, `refreshSource`, `refreshTarget`, `apply` and
`executing` (between and during statements), `committed`, `check`, `crosscheck`,
`release`, `exited`. `Fail` is any `?`, and the death of the process.

`LiveDrops` is what is left of the plan's drops after gating. The exit codes 0, 1 (aborted), 3, 4 and errors
are `ok`, `aborted`, `diverged`, `rejected`, `error`.

The lease is the lane: acquiring is `Enter` or `Withdraw`, each durable statement
a `Write`, releasing and the end of the session a `Leave`. The checks around each
statement are `Tenured`. The session may complete a statement after the run that
submitted it has exited. `server` says what the target lives on: where it is not
`Leased` (CockroachDB) there is no lane, no second rendering and no cross-check.
`EditSource` and, where `OutsideEdits`, `EditTarget` are everybody else.

### Admission

A client makes one connection with one request. `client` is what it did, `conn`
where its connection is, `loop` where `serve_local` stands: in `select!`, or in
the accept branch waiting for a permit, where it hears neither connections nor
SIGINT. A connection is `backlog` (the kernel's queue), `accepted` (the loop
holds it, without a permit), in one of the `Serving` states (its task runs and
holds a permit): `reading`, `computing` (a diff or a dry run), `locking` (queued
for `apply_lock`), `applying`, `answering`; or `closed`, or `dropped` with the
server. The number of permits taken is the number of tasks, as each task owns
its permit and drops it when it ends. `Stop` is the return of `serve_local` on
SIGINT or on an accept error: the local task set is dropped with all its tasks.

Reading a request and writing a response wait for the client, without a timeout
(`src/server/http.rs`). A SIGINT that falls between two `ctrl_c()` calls and is
lost is no step of the model, so `signal` means one that the loop would hear.

### ServerApply

A member of `Requests` is a live `POST /v1/apply` that passed its checks
(`src/server/mod.rs`, line 411 on), and `phase` the await at which its task
stands: `lock`, `source` and `target` (the two reads of `compute_migration`),
`acquire`, `sourceAgain` and `targetAgain` under the lease, `apply` and
`executing`, `committed`, `verify`, `release`, `done`. `guard` is the request
whose task holds `apply_lock`; it is dropped wherever `handle_apply` returns
(`Finish`), and so is the lease, whose session and statement may live on. Unlike
`cmd_apply`, the server does not compare the plan under the lease with the first
one: it validates it again (`Rejects`) and executes it. `Others` are dpm
processes elsewhere. The death of the process is `Fail` of every request. `server` is as in
`ApplyCommand`.

### Catalogs, SchemaDiff, SchemaEmit

A catalog is a function from identities, such as `<<"column", "public", "item",
"b">>`, to definitions. Text that the code compares only as a whole (a type, a
default, the body of a view) is `Expr(label, uses)`: a label, equal or not, and
the objects the server records as its dependencies. `Introspect` is what
`src/introspect.rs` makes of a database: the schemas in scope, no sequences of
identity columns, no indexes of materialized views, hidden columns on CockroachDB.
`OutOfScope` are the schemas it leaves out: the excluded ones, or all but those of
`--schemas`. `SchemasGiven` says that both sides are read with such a list, which
`resolve_schemas` takes as it is for the schemas themselves. The run `converge` reads
without one (and passes with `SchemasGiven = TRUE` in its place), `converge_partition`
with one; the theorems hold for both. A JSON dump is taken to have been made with the
same flags.

`Diff` has one operator per function of `src/diff.rs` and yields the changes in
its order; `Emit` has one per phase of `src/emit.rs`, each a pass over the whole
plan, the statements of a change under it, with `BEGIN` and `COMMIT` where the
code puts them and with what is withheld (gated or manual) left out. Columns are
taken in the order of their names (the code keeps them in table order, which decides
only which of two independent statements comes first). `IF EXISTS`, `IF NOT EXISTS` and `CASCADE` are
kept: they decide what a statement does.

### Database and Convergence

`Database` says of a statement whether the server accepts it and what it does:
names must exist or not, dependents forbid a drop, a sequence's counter must lie
within its bounds. It takes rows to satisfy the constraints and casts that a
migration adds, and a default to fit its column's new type. The names of the sequences
behind identity columns are left out: `CompatibleCommute` says nothing of a standalone
sequence created under the name a server picks for one of them. `Convergence` runs a script: `Compared` diffs and emits,
`BeginTx`, `Execute` and `CommitTx` each take a statement, `Refuse` is the
server's error, `Lose` the loss of the session; the last two roll back and leave
what was durable. After a loss or a commit the target is introspected again.
`IsDatabase` says what a database is, whatever was executed on it: each object has
the parts of its kind, stands in its schema or table and names no missing object,
and a foreign key refers to a key (`RefersToKeys`). The cases are assumed to start
from databases; that every statement leaves one is `TypeOK`, checked and proved.

### PlanBorrows, PlanCertificate, CertifiedMigration, FormalModel

`ChangeBorrows` is `change_borrows`: the resources of a change, each exclusive or
shared, exact or a subtree. `TakeStep` is one iteration of `certify_plan`'s loop
and `FinishCertificate` what follows it; `Validates` is `PlanCertificate::validate`.
`stage` is the type a migration's value has; `Validate`, `Authorize`, `End` and
`Drop` are the functions that consume it. What Rust's borrow checker forbids is a
guard: a guard that an authorization borrows is neither released nor dropped.
`ForgetGuard` is there because `std::mem::forget` is safe. Each migration is
mapped to a `FormalModel` of its own, whose epoch counts that migration's leases.

### Rehearsal and Commands

A command is a stack of procedure calls: a frame stands at an await (`at`) of its
procedure (`proc`) and owns shadow databases (`owns`). `Invoke` and `Return` are
call and return, `result` what the last call returned, `Fail` any `?` of a
command. `shadows` are the databases on the shadow server: what each is for
(`role`), which catalog it reproduces (`holds`), and whether it is in use, kept or
could not be dropped (`fate`). An invocation (`call`) fixes sides, flags and
environment and does not change. Whether two catalogs agree after
canonicalization is decided by `holds`; that it may fail, and where, is in the
actions. The steps of external programs (`Spawned`) and of the person at the prompt
(`Answer`, between `Confirm` and `AcquireLease`) are apart from dpm's own (`Own`). A tool's output is a sequence of the kinds of line its reader tells apart.

`Commands` and `ApplyCommand` look at `cmd_apply` from two sides: `ApplyCommand`
at what others do to the databases between its steps, `Commands` at the throwaway
databases and tools of one invocation on its own. Killing the process is left out
of `Commands`: a killed dpm leaves its shadow databases, as any client would.

### Composition with the lease

Why the composition is sound: `MigrationLease` implements the lane for the
scripts `emit` produces (`LaneSpec`, checked and proved), so what holds of
`ApplyCommand` and `ServerApply` over any lane behaviour holds over the lease's.
Scripts with hidden unlocks are examined in `MigrationLease` alone.

## 3. Runs

| run | shows | instance |
|---|---|---|
| `lease_safety` | `LeaseInv`, which contains `LeasedExecution` and `SerialWork`; `DurablePrefix`, `CountIsHonest`, `ReleaseProvesTenure` | 2 leases; generated scripts and scripts with an unlock first, last and inside a transaction, and one spelled out |
| `lease_live` | `LaneSpec`: the lease implements the lane; `LockIsFreed`, `CallsReturn` | 2 leases, generated scripts, also the empty one, no symmetry |
| `apply` | under the lease `FitsReview`, `ReceiptAttests`, `OkLeavesNothing`; with it and without it `ConsentedDrops`, `PinHonoured`, and the inductive `ApplyInv` (`PlanInv`, `EpochInv`) | 2 runs; PostgreSQL with the lease, CockroachDB beside writers that are not dpm; 1 label, 2 tables, 3 schemas, all four policies, pinned or not, one edit, cross-checks on |
| `apply_live` | `LeaseIsReturned`, `ConfirmedEnds` | 2 runs, 2 schemas, no symmetry |
| `admission` | `AdmissionInv`; `AppliesProceed` although other clients stall; `EachAnswered` if clients behave | 3 clients, 2 permits, no symmetry |
| `admission_interrupt` | a violation: `InterruptStops`, which `docs/server.md` states | 2 clients, 1 permit |
| `server` | under the lease `CommitsWhole`, `ConvergedAttests`; with it and without it `OneAtATime`, `OnlyExecutable`, the inductive `ServerInv`, `RequestAnswered` | 2 requests, 1 other migrator, the same targets, label, tables and schemas, drops allowed or not, one edit, no symmetry |
| `converge` | `EmptyPlanMeansEqual`, `Converges`, `ClampStrandsNothing`, `CompatibleCommute`, `GatedKeeps`, `AtomicButLabels`, `OutOfScopeKept` | every ordered pair of databases of seven families (one column in all its forms, tables that refer to each other, enums, one table's facets, views, routines, schemas and sequences), destructive changes allowed or not, PostgreSQL and, for three families, CockroachDB: 11,406 cases; 2 applies, 1 lost session |
| `converge_rediff` | a violation of `RediffIsEmpty`, stated in `readme.md` | family of one column |
| `converge_partition` | a violation of `PartitionsAreLeftAlone`, stated in `readme.md` | family of one table's facets, both sides read with `--schemas` |
| `certified` | `CertificateInv`, `OneTenure`; `ImplementsModel` | 2 migrations, 2 owners, every plan of up to 3 of 5 different changes, 2 epochs |
| `rehearsal` | `NothingForgotten`, `ExitZeroMeans`, `FailsClosed`, `AgreementIsSilence`, `EvidenceIsGenuine`; `EndsUnlessLeftWaiting` | 235 invocations that vary sides, servers, flags, tools and transports; any three lines of output of liquibase under a category, any verdict transcript of up to two lines |

Some properties are conjunctions of named parts that stand or fall together and
read the same code: `LeaseInv` and `ApplyInv` of their module's type invariant and
the inductive parts; `CountIsHonest` of `CountIsDurable` and `CountedKeptLease`;
`CallsReturn` of `AcquireAnswers` and `ApplyReturns`; `Converges` of `TypeOK`,
`OrderSuffices`, `RefusalsAreExplained`, `OnceIsEnough` and `Settles`; `CertificateInv` of `Separated`,
`CertificateValid` and `WavesAreFull`; `ExitZeroMeans` of `VerifiedMeans` and
`ChecksAreSkippedKnowingly`; `EvidenceIsGenuine` of `CheckersSeeTheSides`, `LeaseCoversEvidence` and
`OnlyFaithfulReplicas`.

**Bounds and why they are enough.** The interesting cases need two parties: one
that holds, held or loses the lease, and one that takes it. With two leases one
session can linger, its statement unfinished, while the other side tries, fails
and tries again only as a new lease; a third would repeat what the second does.
Where that argument is not enough the theorems below need none. Scripts are the
shapes `emit` produces: statements outside a transaction before one transaction,
with each place where a release may hide. In `ApplyCommand` one label and two
tables give plans that add, report, create and drop, alone and together; both the
edit and the other run can invalidate the first rendering. `MaxEdits` is the only
counter with a bound (1): it is what keeps the state space finite, and one edit
already falls between any two steps of either run. In `Admission` two of three
clients can hold both permits, stalled or queued for `apply_lock`, while the
third is in the loop's hands or in the backlog. In `ServerApply` one request can
be inside while the other queues, or have failed and left its session behind
while the other has the guard, with a third party taking the lease in between.
In `Convergence` a family is closed under pairing, so every transition between any
two of its members is a case, and what the phases order against each other
(columns and their users, keys and the tables that refer to them, types and
routines, views over views) meets in one family; `MaxApplies` = 2 is the claim
itself, that nothing is left for a third, and one lost session (`MaxLosses`) falls
between any two statements. In `CertifiedMigration` three changes give up to three
waves with a conflict that skips one, and two epochs a first, a last and a refused
acquisition. In `Commands` every family of invocations varies what one procedure
branches on; the open databases are at most three, and one that the server refuses
to drop (`MaxUndropped`) is told apart from the others by its role.
`CHECK_DEADLOCK FALSE` stands in every configuration: all parties may have
finished, a command ends, and a target that equals the source, or whose server
refused the script, is left as it is.

**Symmetry.** Leases, migrators and runs are interchangeable model values and are
permuted in the safety runs only.

**Fairness.** In `MigrationLease`: code between awaits runs on, PostgreSQL
finishes each submitted statement (completing or failing it), and ends the
session of a client that is gone (TCP keepalive). No fairness on connecting,
applying, releasing, or on faults. In `ApplyCommand`: the same, and a run whose
session is gone gets its error. None on `AiReview` and `Confirm` (a person, and
processes started without a timeout in `src/ai.rs`), and none on `CrossCheck`
when cross-checkers are selected, since `src/crosscheck.rs` waits for them
without a timeout, under the lease. `LeaseIsReturned` therefore speaks of runs
without cross-checks; with them the lease lasts as long as the tools. In
`Admission`: the loop and the tasks are scheduled, and work that waits for no
client ends (`RequestAnswered` of `ServerApply` is the reason for `Apply`); none
on `Send`, nor on `Answer` to a client that is still there, except as the
hypothesis `Courteous` of `EachAnswered`. In `ServerApply`: the same as for the
apply command; none on `Others`, who may keep the lease for good. In `Commands`:
dpm's own steps are taken, as servers answer and the HTTP client has a timeout;
none on spawned tools, and none on `Answer`, the person at the prompt of `cmd_apply`
(`src/main.rs:582`).

### What the checks show, in words

* Under the lease, `dpm apply` executes the reviewed script exactly against the
  catalogs it was rendered from, whatever was edited or migrated between the
  review and the lease, and wherever a session died (`FitsReview`). The second
  rendering under the lease is what this rests on: without the comparison the
  property fails.
* An exit code other than an error, after an apply, describes one epoch: from the
  first statement to the release nobody else's work became durable
  (`ReleaseProvesTenure`, `ReceiptAttests`). This rests on the answer of
  `pg_advisory_unlock` being looked at. Both suppose that everybody who migrates
  takes the lease, and say so (`Leased /\ ~OutsideEdits`).
* A statement that releases its lock through dynamic SQL is not prevented: its
  own work may interleave with another's. What holds is that no statement *after*
  it runs without the lock, that work written under the lock stays serial, and
  that the script is never reported as applied.
* Exit code 0 after an apply under the lease means that nothing was gated and nothing
  is left to do by hand.
* Without the lease (CockroachDB) consents and pin still bound every run, but
  `FitsReview` does not hold there, and the code does not claim it.
* The server's answer "applied, nothing remains" is true of the target when it is
  given, and its transaction leaves exactly the schema asked for (`CommitsWhole`,
  `ConvergedAttests`), although the plan executed may be one nobody has seen: it
  is validated under the lease, and the schema is what the request asked for.
* On CockroachDB the server's own mutex keeps its applies apart, with one
  exception that the property names: a request that was answered with an error
  may have left a statement running (`OneAtATime`).
* No one waits for a client while holding `apply_lock`, permits and lock are
  never waited for in a circle, and the lease is asked for without blocking
  (`AppliesProceed`, `EachAnswered`, `RequestAnswered`).
* **SIGINT does not always stop the server.** `docs/server.md` says that "`SIGINT`
  stops the accept loop". The accept branch of `select!` waits for a permit
  inside its handler (`src/server/mod.rs:183`), where `ctrl_c()` is not polled.
  If the permits are held by clients that never finish their request or never
  read their response, one more connection is enough for the loop never to hear
  the signal (`admission_interrupt`).

* Applying what was emitted either stops at a refusal or brings the target to the
  source, but for a list of ends. One apply with everything allowed leaves at most: the
  default of a column that was an identity column (`src/diff.rs:676`), constraints and
  indexes of a column that was dropped and added to change its expression, a table
  rebuilt for another partitioning, triggers of a replaced view, and on CockroachDB a
  foreign key that went with `CASCADE`. A second apply leaves only what needs permission
  or hands, except a table that cannot be rebuilt because its drop is withheld
  (`Converges`, whose parts are named below).
* A refusal is harmless: nothing but enum labels stays (`AtomicButLabels`). It has one
  of these causes, and no other. *Order* (`OrderSuffices`): a
  default, constraint or view calls a routine that is created later, or a view reads one
  that is; an object is dropped before its user goes (the pairs in `DroppedTooSoon`); a
  column becomes an identity column before it is `NOT NULL`. *A statement the plan does
  not have* (`RefusalsAreExplained`): what stands in the way is the same on both sides,
  out of scope, or its drop is withheld, and is not taken down and put back (a view over
  a column whose type changes, a primary key over one that is to be null); `ADD IDENTITY`
  finds a default; two tables to be dropped refer to each other; the old and the new
  bounds of a sequence are disjoint (`ClampStrandsNothing`); the parts of a table that is
  rebuilt find the old one; a schema listed in `--schemas` is not there.
* **Some of these ends contradict what the repository says.** Two are findings, each
  with a run. A column that stops being an identity column and gets a default differs
  after the apply (`RediffIsEmpty`), although `readme.md:265` has applying and diffing
  again "yield zero changes"; the other leftovers of a first apply differ too. A
  table whose partitioning changes is not "surfaced as comments, never guessed at"
  (`readme.md:172`): with destructive changes allowed `CREATE TABLE IF NOT EXISTS` finds
  the old table, `DROP TABLE` follows in a later phase, and `COMMIT` leaves none
  (`PartitionsAreLeftAlone`). Of the refusals the same sentence of `readme.md` is
  contradicted by a column with a default that becomes an identity column
  (`src/diff.rs:657`), and by a schema listed in `--schemas` that only the source has and
  that is never created (`src/introspect.rs:214`); and "drops run dependents-first"
  (`readme.md:171`) by tables, which are dropped in the order of their names
  (`src/emit.rs:663`). These have no run of their own: `RefusalsAreExplained` and
  `DroppedTooSoon` name them.
* Without `--allow-destructive` nothing that holds data or integrity is lost, with
  one exception: triggers and indexes of a view that is replaced by drop and create
  go with it; the next apply creates the triggers again, indexes of materialized
  views are not introspected at all (`GatedKeeps`).
* What the certificate calls compatible really commutes: two steps without a
  borrow conflict can be executed in either order (`CompatibleCommute`). Waves are
  cut only where a step conflicts (`WavesAreFull`).
* A shadow database is dropped on every path but four, each an early return: the answer
  to `CREATE DATABASE` is lost (`src/source.rs:131`), its URL cannot be rewritten
  (`src/source.rs:139`), a checker cannot be spawned (`src/verify.rs:414`), the scan of
  `apply` fails (`src/main.rs:725`). `NothingForgotten` names them in `Forgotten`.
* Exit 0 of `verify` means that the migration turned a faithful replica of the
  target into the source and that every checker asked for ran and agreed. `apply`
  may skip checks when there is nothing to compare with, and says so
  (`ExitZeroMeans`).
* A reviewer that dies, says nothing or contradicts itself does not approve
  (`FailsClosed`); `atlas` and `pg-schema-diff` are believed when their output says
  anywhere that nothing is to be done (`AgreementIsSilence`).
* Every command ends and gives its lease back unless a spawned tool hangs or nobody
  answers the prompt of `apply` (`EndsUnlessLeftWaiting`). An API call is made at most twice. The comment at
  `src/ai.rs:391` has 5xx answers retried; the body is parsed before the status is
  looked at, so a gateway's 503 in HTML is a parse error and is not.

## 4. Theorems

TLAPS proves, for every value of the constants that satisfies the modules' named
assumptions (disjointness of owners and the free lane, scripts with balanced
transactions, invocations with the fields the code parses, lines of output of the kinds
`CrossChecks` tells apart, names without repetition, and of the pairs of databases
in `Cases` what `CasesAssumption` says: both are databases, their counters
within bounds, two constraints or indexes whose definitions read alike are of one kind, no view has a table's name, as no server
would have it, a serial column's sequence has a name, and no label is the marker "end";
nothing is assumed about the number of leases, runs, objects, edits, invocations, about
the size of databases, or about what those lines say and how many there are):

| theorem | statement |
|---|---|
| `LeaseInvariant` | `Spec => []LeaseInv`; `TypeCorrect`, `ExecutesUnderLease` and `WorkIsSerial` state its parts |
| `TenureProved` | `Spec => ReleaseProvesTenure` |
| `ImplementsLane` | for generated scripts, `Spec => LaneSpec` |
| `OutcomeInvariant` | `Spec => [](\A l \in Leases : OutcomeInv(l))`, for `PrefixDurable`: `Spec => []DurablePrefix`, and `CountHonest`: `Spec => []CountIsHonest` |
| `ApplyInvariant` | `Spec => []ApplyInv`; `TypeCorrect` and `EpochInvariant` state its parts |
| `DropsConsented`, `PinnedTouched` | `Spec => ConsentedDrops`, `Spec => PinHonoured`, leased or not |
| `ReviewFits`, `EpochAttested` | `Spec => FitsReview`, `Spec => ReceiptAttests`, which speak of the lease |
| `OkComplete` | `Spec => []OkLeavesNothing`, likewise |
| `AdmissionBounded` | `Spec => []AdmissionInv` |
| `ServerInvariant` | `Spec => []ServerInv` |
| `AppliesSerial`, `ExecutableOnly` | `Spec => []OneAtATime`, `Spec => OnlyExecutable`, leased or not |
| `WholeCommitted`, `ConvergenceAttested` | `Spec => CommitsWhole`, `Spec => ConvergedAttests`, likewise |
| `Invariants`, `TerminalHolds` | `FormalModel`'s `Spec => [](TypeOK /\ CheckInvariants)`, `Spec => TerminalStays`, of the abstract machine by itself; in `CertifiedMigration_proofs` |
| `CertificateInvariant` | `Spec => []CertificateInv`, for every plan |
| `LeaseDiscipline` | `Spec => []OneTenure` |
| `RefinesModel` | `Spec => ImplementsModel` |
| `ShapeInvariant` | `Commands`' `Spec => []Shape`: the call chains |
| `StrictFailsClosed`, `ExitZeroIsEarned` | `Spec => []FailsClosed`, `Spec => []ExitZeroMeans` |
| `SilenceIsEarned` | `Spec => []AgreementIsSilence`, for output of any length |
| `NothingIsForgotten` | `Spec => []NothingForgotten` |
| `EvidenceHolds` | `Spec => EvidenceIsGenuine`; `LeaseHeldThroughout` states its part about the lease |
| `TypeCorrect` | `Convergence`'s `Spec => []TypeOK`, the first part of `Converges`: every statement leaves a database |
| `EmptyPlanIsEqual` | `Spec => []EmptyPlanMeansEqual`, for databases of any size |
| `OutOfScopeIsKept`, `OnlyLabelsPrecede` | `Spec => OutOfScopeKept`, `Spec => AtomicButLabels`, for scripts of any length |
| `GateHolds` | `Spec => GatedKeeps`, for databases and scripts of any size |
| `CompatibleIsSound` | `Spec => []CompatibleCommute`, for databases and plans of any size |
| `BoundsFollow` | `Spec => []ClampStrandsNothing`, for any counters, bounds and plans |

**The lease.** `SerialWork` is not inductive: it says nothing about who may write
next. `SerialInv` adds that a lease whose leased work is followed by another's no
longer owns the lock, and as `RunInv` says that a lease with a script is past
acquiring, it never will again. `RunInv` also ties a running statement to a
connection whose client waits for it or is gone, and to the lock. A commit
appends a session's pending entries, all its own; `ExtendStep` shows that
appending entries of the owner keeps `SerialInv`, `QuietStep` that a step without
new entries does. `TenureProved` reads the conclusion off `SerialInv` at the
moment `Release` finds the lock held. `ImplementsLane` maps `owner` to
`lockOwner` and `spent` to the leases past `connected`; each step of the lease is
a step of the lane or leaves its variables alone. `DurablePrefix` needs to know how
what is durable relates to how far the script has come: `ProgressInv` says it of
`journal`, `pending` and `next` (nothing is recorded ahead of the script, and while it
goes on everything it has passed is recorded), `KeptInv` that no statement after one
that unlocks is ever reached.

**The apply command.** `PlanInv` says that the reviewed plan is never one that
`Refuses`, and that whoever may still execute it drops nothing of the source last
read: the source is read again under the lease, but nothing is executed before
the plan is compared again. `EpochInv` follows a run through its tenure: while it
prepares it has added nothing; while it is armed and owns the lane the target is
what it read plus the labels it added; once done and still the owner, the target
is `Settled`. Only the owner writes under the lease, so the steps of other runs
leave `Epoch(r)` alone (`EpochFrame`). `CommitSettles` is the set algebra of a
committed script. The two action properties follow from it. For the exit code
`OkGrounded` looks further on: once the check is past, nothing is left, or the lane
has been lost, in which case the release will fail and the code is an error's.

**The server.** `AdmissionInv` is inductive as it stands: a `Grant` adds one
connection to those in service when there was room (`BoundGrant`), every other
step keeps or shrinks the set (`BoundKept`); the set is finite even if the
clients are not. `ServerInv` has three parts besides the types. `GuardInv`: the
task between `apply_lock` and its answer is the one with the guard. `PlanInv`:
who may execute has a plan that `Rejects` nothing of, and a statement without
its task is one whose request was answered with an error. `EpochInv`, for the
leased case: what separates the owner's target from its source is the part of
the plan not yet added (`LabelAdvances`), and nothing once the transaction is
through (`CommitReaches`). `AppliesSerial` needs only the first two, so it holds
without a lease; the two theorems about the target need the third.
`PlanReaches`, stated in both modules, is the set algebra of plans that the two rest on.

**Certificates and typestates.** `check_invariants` of `src/formal.rs` is not
inductive: it says nothing of the epoch of a leased migration, which applying
keeps (`LeaseCounted`). That the code's checker is bounded is no matter then. In
`CertifiedMigration` the invariant numbers the steps through closed waves and the
one being filled (`Numbered`); closing a wave keeps that (`CloseWave`), and joining
one keeps it free of conflicts because conflict is symmetric
(`StepsConflictSymmetric`, `CheckParallelAppend`). `Full` says why the last closed
wave is full although the next has only begun. `Held` ties the one live guard to the
lease, `Staged` each typestate to its proof and its guard; from them each step is
one of the abstract machine's or leaves its state alone (`ModelNext`).

**Commands.** Frames are counted from the command at the bottom (`Up(k)`), so that a
call or a return moves no frame's number; three kinds of step are told apart, `Walks`,
`Calling` and `Leaving`, and nothing below the topmost frame or two changes. On that
rest five invariants, each proved from those before it:

* `Shape`: each frame was called from where the source calls it (`CallSite`). It
  bounds the depth (`Levels`) and puts each procedure in its place.
* `AskInv`: what was asked of the reviewer and what its answer was, by the place of
  the command. That the last verdict counts is `VerdictIsLast`, about
  `ParseVerdict`; the lease is held from `refreshed` on.
* `CheckInv`: how far a rehearsal has come says which tools have reported
  (`DoneBy`), and an agreement is one of a tool that ended well.
* `HoldInv`: each frame owns what its place says (`Due`), no two procedures on the
  stack can have the same database (`Claims`, `HeldAre`), and what is open is held, or
  was lost where `Forgotten` says (`Strays`). A step opens or closes one database
  (`Settles`), and a return hands over what it does not close.
* `SightInv`: what the databases hold, by the place of the frame that needs them
  (`SeesTheSides`). A step writes to one role only (`Touches`), never to one that a
  procedure below holds for comparison, except the replica a rehearsal migrates.

`EvidenceHolds` reads what a checker sees off the frame that called it (`CheckersSee`);
its action part is `Faithful`, which each step satisfies with `SightInv` before it.

`SilenceIsEarned` needs that each report is what its tool printed (`Quoted`) and, for
liquibase, what a fold over any number of lines computes. `FoldStates` unfolds it into a
state per line; `ObjectsAreExcused` then walks from an object back to the category above
it and on to the line after its details, where the entry is closed and either excused or
counted. These inductions are over least elements of sets of line numbers
(`LessIsWellFounded`, `Induct`), because the induction theorems of the library take an
operator.

**Convergence.** The lemmas about what diff yields, what emit renders and what the
server makes of a statement are in `Database_proofs`; the run of a script, with the
theorems, is in `Convergence_proofs`. `Inv` has four parts. `db` and `saved` are
databases. Their constraints and indexes are the target's of the case or the source's
(`Provenance`). While a transaction is open, what it changed is in scope (`OutKept`). The script still to run is
`Phased`: `BEGIN` and `COMMIT` are where they belong, and each statement `Serves` its
phase, which says what it may do and to what. The last is read off the code in two steps:
`DiffIs` says what changes each function of `src/diff.rs` can yield, and of which objects
(`Wants`), `EmitServes` what each phase of `src/emit.rs` makes of them. On the server's
side `EffectKeeps` shows that an accepted statement leaves a database: a drop takes
whatever lives in its object and is refused if something else depends on it, and a
created table's keys tighten columns of that table only.

* `OutOfScopeIsKept` rests on `EffectTouches`: a statement changes its own object, what
  lives in it or is owned by it, what depends on it if it is a `CASCADE`, and the columns
  and sequences a creation brings along. Only the dependents of a `CASCADE` can stand in
  another schema, and they are CockroachDB's foreign keys.
* `EmptyPlanIsEqual` turns each comparison around: no change of a kind means equal
  definitions of that kind. Parts are compared within tables both sides have, so it
  needs that every part has its table (`ReadWithTable`).
* `OnlyLabelsPrecede` follows an enum through the statements before `BEGIN`. The
  changes of the diff name the new labels of an enum in the order of the source
  (`DiffRises`), and the first phase keeps that order (`FirstPhaseRises`). `LabelInv`
  says that the labels held are in that order too, and of those still to come that each
  has its anchor in the enum, or before it in the script, with none of the others
  between (`Pending`, `Fits`). So `InsertLabel` puts each in its place (`InsertFits`).
  `SubsequenceInOrder` and `InOrderSubsequence` relate this to the subsequences that
  `diff_enums` and the property speak of.
* `GateHolds` follows what a script owes. Where the definition of a constraint, index,
  policy, view, routine or trigger has changed, the diff yields a change that emit
  renders as a drop which no gate withholds and a creation some phases later.
  `KeptStep` says of a single statement that whatever it takes away is not protected,
  goes with a view that is replaced, or is owed. `Held`, the inductive invariant, says
  the same of all that is gone since `BEGIN`: what is owed is still `Promised`, that is,
  a `CREATE` of it is in the rest of the script (`PromisedAtFirst`, `PromisedLater`), and
  at `COMMIT` the rest of the script is `COMMIT` alone. It needs three things more. The
  script was made for what the diff read, so between that and `BEGIN` only enums have
  changed (`Stays`). Until the drops are done every constraint is the one of `BEGIN`
  (`ConstraintStep`), so that the foreign keys a CockroachDB `CASCADE` takes are those
  the diff saw. And no table has the name of a view (`Apart`, kept by `ApartKeeps`), so
  that dropping a view takes only its own parts (`ViewClosure`).
* `CompatibleIsSound` splits the changes in two (`WideOrNarrow`). Those whose text may
  name anything, and those of extensions, borrow the whole database and conflict with
  every other (`WideConflicts`). What is left is rendered as statements about a single
  object (`NarrowIsLone`). Without a conflict neither object is the other, nor the schema
  the other is in (`NarrowIsClear`). `BesideSteps` is the diamond: in two databases that
  differ in one object at most (`Beside`), a statement about another is accepted in both
  or in neither, and what it leaves differs in the same object only. `LonesCommute` runs
  two lists of them in both orders and closes the diamond.
* `BoundsFollow` needs of the script that each change of bounds comes right after the
  move of the same counter, which flattening the plan's statements keeps (`Paired`,
  `PairedFlatten`), and of the server that no statement up to phase 10 takes a sequence
  away (`SequenceStays`). `ClampInv` says of what is left of a script that the sequences
  it moves are there and that the counter whose bounds come next is within them. That a
  counter is within its old bounds is part of what a database is (`InBounds`), so
  overlapping bounds have room for it.

Sequences built by folds and filters over plans are taken apart by `FlattenLaws`, which
says where each element of a flattened sequence comes from, and unfolded once as
functions (`UnrolledExists`). A proof attempt found an error of the property: a schema
out of scope is created if it is missing and an extension of the source is to live in
it. Extensions are introspected wherever they are, and `CREATE EXTENSION` follows a
`CREATE SCHEMA IF NOT EXISTS` of its home. `OutOfScopeKept` names this case, and the
family `Spaces` of `MCConvergence` has it.

**Model-checked only:** the liveness properties (fairness and `ENABLED` are beyond the
prover), and of `Convergence` the parts of `Converges` beside `TypeOK`: `OnceIsEnough` and
`Settles`, which compare databases after whole scripts and so need what each statement
contributes to the end, and `OrderSuffices` and `RefusalsAreExplained`, which run later
statements before earlier ones.

## 5. Not modelled

* `split_statements` and `strip_psql_meta_commands` (`src/apply.rs`), request
  framing (`src/server/http.rs`): they go character by character over text, which
  the models leave out.
* `lock_key_halves` and owner names (`src/lease.rs`): data.
* `cmd_dump` and `cmd_bootstrap`: one read and one write of a file.
* Flags (`src/flagenv.rs`), the FK index advisor (`src/advisor.rs`), the server's
  `main`, quoting, URLs, redaction, prompts: lookups and formatting.
* The queries of `src/introspect.rs`; what a server makes of a definition that
  `src/canonicalize.rs` sends it: two definitions are equal in the models when they
  are equal after it.
* Rows: an added constraint or a cast that the data refuses is a refusal like any
  other (`Refuse` shows what remains of a script then), but no model says when.
* The plan's objects in `ApplyCommand` and `ServerApply` are independent of each
  other; their order and dependencies are `Convergence`'s subject.
* The checksum is taken to be injective, and a pin to come from the same flags.

## 6. Plan

Done: the lane, the lease, the apply command, the server and its admission, with
their proofs; diff, emit and their convergence, with the proofs that do not compare
whole scripts; certificates, typestates and the abstract machine, with their proofs;
the commands around shadow databases, checkers and reviewers, with their proofs. Left,
in order of importance:

1. `OnceIsEnough`, statement by statement: what a phase contributes to the end no later
   phase undoes.
2. `split_statements` and `strip_psql_meta_commands` over a small alphabet against
   a reference lexer; request framing of `src/server/http.rs` over a byte stream.
3. `Convergence` with rows, so that a constraint or a cast may be refused for what
   a table holds; indexes of materialized views once they are introspected.
