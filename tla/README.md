# Verification of Sustained

Sustained (`src/src/sustained`, about 51,000 lines of Python) is a query
builder over DB-API connections, a schema-migration system, and a static
analyser of what a migration does to a live database. This directory holds
TLA+ models of its stateful parts, the TLC runs that check them on small
instances, and the theorems TLAPS proves about them for all instances.

Paths below are relative to `src/src/sustained` unless they start with `src/`.

## 1. Inventory

### 1.1 Components, their state and their operations

| Component | State it keeps | Operations | What makes it hard |
|---|---|---|---|
| Connection pool (`pool.py`) | idle queue, slot counter, checked-out map, closed flag, one Condition | `acquire_raw`, `release`, `close`; `_reset`, `_discard` with the lock released | critical sections with connection calls between them; wake-ups; deadlines; `close()` in the middle of any call |
| Statement execution and transactions (`execution.py`) | process-wide registry of open blocks, per-thread stack of pinned pools | `transaction`, `run`, `connection_scope`, `pinned_transaction`, `enter_autocommit` | nested blocks and savepoints, failures of the statements that open and close them, threads on one connection |
| Async pool (`aio_pool.py`) | idle queue, waiter futures, slot counter, checked-out map, running resets | `acquire`, `release`, `close` | task cancellation at every `await`, wake-ups passed on, deadlines |
| Async adapters and transactions (`aio.py`) | registry of open async blocks, one lock and one worker per DB-API adapter | `async_transaction`, `arun`, `DbApiAsyncAdapter.session` | cancellation while a worker thread runs a statement; registry read before an `await` and written after it |
| Migrator core (`migrations/core`, `migrator.py`, `aio_migrations.py`, `checks.py`, `tracking.py`) | tracking table, advisory lock, two "table is ready" flags, the rehearsing flag | `up`, `down`, `down_to`, `repair`, `baseline`, `validate`, `rehearse`, tracking-table upgrade | several migrators at once, engines whose DDL does or does not roll back, a step or its bookkeeping failing, the process dying between two statements |
| Rehearsals (`rehearsal.py`, `core/rehearsing.py`) | rehearsal table: key to outcome | `rehearse`, `record_scratch_rehearsal`, `require_rehearsal_row` | a key must name exactly a starting schema and a run; targeted runs look for slices of what was rehearsed |
| Migration model and files (`migration.py`, `migration_files.py`) | none at run time | checksums, rendering, loading | old and new checksum formats |
| Planning and autogenerate (`planning.py`, `autogenerate/`, `type_changes.py`) | the diff and the states the phases thread through | `plan`, `autogenerate`, the online split | ordering of the generated statements, a step that depends on an earlier one |
| SQLite rebuild (`rebuild.py`) | none | the sequence of statements that replaces a table | foreign keys while the table is away; what the copy has to carry |
| Introspection (`introspect/`, `replay.py`) | none | reading a schema, comparing two reads, replaying a read | mostly catalog SQL |
| Impact analysis (`impact/`) | `RunState`: tables, settings and timeouts carried from one statement to the next; transaction windows | `analyze`, preflight | rules per engine; state that a ROLLBACK must take back |
| Guards (`guards/`, `analysis.py`) | timeouts seen so far | a verdict per statement | text scanning |
| Command line (`cli/`) | none | commands and exit codes | I/O |
| Query builder, expressions, compilers, models (`builder.py`, `builders/`, `expressions.py`, `functions.py`, `rendering.py`, `compilers/`, `model.py`, `schema.py`, `ddl.py`) | the query under construction | building and rendering SQL | parameter order; mostly text |

### 1.2 Interactions

* `run()` resolves its connection through `connection_scope()`: an explicit
  argument, else the connection the thread's innermost block on a pool pinned,
  else the model's binding. Pools check a connection out for the call.
* `transaction(pool)` checks out a connection, pins it to the thread and
  releases it in a `finally`; `release()` rolls back whatever is left on it.
* The migrator core is a set of generators that yield requests
  (`core/requests.py`); `Migrator` and `AsyncMigrator` answer them on a
  connection or an adapter, and throw a request's error back in at the yield.
* Migrators in different processes share only the database: the tracking
  table, the rehearsal table and the advisory lock, where the engine has one.
* `up()` reads the rehearsal table that `rehearse()` writes; both build the
  key from the tracking rows and the migrations' checksums.

### 1.3 What has to be right

* Pool: no connection with two callers, none leaked, no slot lost, no wake-up
  lost, nothing kept by a closed pool, every acquire ends.
* Transactions: a write is durable exactly when every block around it
  finished; the registry, the savepoints and the pools follow the blocks.
* Migrator: a tracking row says what the schema holds; a migration's step runs
  once; nothing runs over a failed attempt; the applied migrations stay a
  prefix of the registered ones; an upgrade of the tracking table keeps the
  history.
* Rehearsals: a run that removes data only runs what a rehearsal proved on
  this very schema, and a run that was proved is not refused.

`PROJECT.json` lists the hazards behind these at their lines in the code.

## 2. Plan

Written, in this order: the two pools with their abstract specification and the
proofs about the thread-safe one, the transactions, the migrator, the upgrade
of its tracking table, the rehearsal gate, the async transactions, the state of
the impact analysis, autogenerate, the query builder, the rules of the five
engines, and the rebuild of SQLite tables (sections 3 to 10).
Left:

1. `MigrationHistory`, an abstract specification (a history of applied ids that
   only grows and shrinks at its end) that `Migrator` is shown to implement;
   the generated migrations of `up(models)` in `Migrator`; two migrators and a
   crash in `TrackingUpgrade`.
2. The order in which migration files load, the exit codes of the command line,
   the guards on the text of a statement.
3. Proofs of what those add. Section 13 has the ones done: the two pools,
   `Transactions`, `AsyncTransactions`, the checks and timeouts of the impact
   analysis, the safety properties of `Migrator` and of `RehearsalGate`.

## 3. The pools

### `ConnectionPool` (`pool.py`)

Threads share `_idle`, `_created`, `_closed` and `_checked_out` (`idle`,
`created`, `closed`, `checkedOut`) under one `Condition`. Everything between
taking the lock and leaving it, or waiting, is one action; every call made with
the lock released (the factory, the reset's rollback, closing a connection) is
an action of its own, with `pc[t]` between them. `waiters` are the threads
inside `Condition.wait()`: `notify()` moves one of them, chosen freely, to
`"woken"`, from where it must take the lock again and can lose to any thread
that calls `acquire` first. `Expire` ends a wait at any time. `session[c]` is
what a connection's database session holds: nothing, an open transaction, one that
outlived a reset (`"kept"`), or a lost server. `Reset` has the branches of
`_reset()`: the rollback succeeds, it raises (or is not sent) and the probe answers,
so that the connection is kept with whatever is open on it, or the probe fails too.
`ResetBeforeHandout` says what this leaves: an idle connection has a transaction
open only where the rollback of its reset raised. That it has none (`CleanHandout`)
is refuted (section 12). The environment runs statements (`RunStatement`) and
breaks connections (`Break`).

`PoolCustody` is what the pool promises its callers, with no lock, counter or
queue of waiters: a stock of at most `MaxSize` connections, each ready, lent to
one caller, or on its way back. `ImplementsCustody` is its specification under
the mapping at the end of `ConnectionPool`.

The callers of `ConnectionPool` are assumed not to release a connection that is no
longer theirs (section 12).

### `AsyncPool` (`aio_pool.py`)

Tasks of one event loop. Nothing else runs between two awaits, so an action is
what a task does from one await to the next: `_take()`'s loop, a turn of
`_wait()`, `_reset()` after its rollback. `waiters` is the queue of pending
futures. Cancellation can meet a task at each await: while it waits, between
the wake-up and its next turn (`CancelWoken`, then `PassWakeup`), in the
factory (`FactoryRaises`), in a shielded release (`ReleaseReturns`), or while
`close()` closes adapters, which nothing shields (`CancelClose`). A reset is a
task of its own (`reset[a]`), so an adapter's release goes on without its
caller. The pool implements the same `PoolCustody`.

`rollsBack` says whether the adapter's `rollback()` does anything. For
`AsyncpgAdapter` it does not, and on the others it may raise where the probe
answers; either way the transaction stays, so no run promises a clean hand-out
(section 12).

## 4. `Transactions` (`execution.py`)

Every thread runs code that may open `transaction()` blocks on a connection or
a pool, run statements inside and outside them, raise, and catch an exception at
any level. `registry` is `_ACTIVE_TRANSACTIONS`, `stack[t]` the blocks the
thread is inside, which also carry the pins of pools. `phase[t]` separates the
two critical sections of `transaction()`, on either side of its `BEGIN`, and
the steps of `run()`: execute, ask whether a block is open, commit. `pending[c]`
is the database transaction of a connection: its writes, and its savepoints in
the order they were set, each with the writes there were then. Rolling back to
one goes back to those, and it stays set, as in SQL, until it is released; the
code does both. `Lose(c)` takes a server away. Any statement can
raise, on a connection that lives as well as on a lost one, those that open or close
a block too; one that raises on a live connection has done nothing. So `outcome`
says how a block ended: `"ok"`, `"failed"` and taken back, or, where it raised and
the statement that should close it raised as well, `"kept"` (a RELEASE or ROLLBACK
TO: its writes stay with the block around it), `"left"` (taken back, its savepoint
still set) or `"stranded"` (a ROLLBACK: the transaction stays open). What the code
does then is in the properties as it is: `AtomicBlocks` excepts a block that was kept
or stranded, `OpenBlocksAreKnown` lets the savepoint of such a block outlive it.
`RaisedBlocksLeaveNothing`, without the exception, is refuted (section 12). `uses` is which connections and pools each thread's code names,
chosen at the start from the constant `Uses`; `Private` says that no two threads
name one connection.

Not modelled: reading rows into models, eager loading, `enter_autocommit()`; a COMMIT
that is carried out and whose answer is lost, or that an aborted transaction answers
as a success (PostgreSQL); and the `undo` of a dialect without RELEASE (SQL Server),
which is one statement instead of two.

## 5. `Migrator` and `TrackingUpgrade` (`migrations/core`)

`Migrator`: each process is one migrator on a connection of its own, built with
one of the `Deploys`, a sequence of migrations with an edition of their content.
So two processes may know different migrations, or other content of the same.
`rows` is the committed tracking table, `schema[id]` what the database holds of
a migration's objects, `held[p]` the re-entrant advisory lock, `ready[p]` the
migrator's own "the table is there" flag, `view[p]` the snapshot of an open
transaction on an engine that reads from one. `pc` follows a run: lock, read the
rows, validate and plan, take each step, write its row, unlock. A step that may
run in a transaction commits together with its row; a bare step
(`transactional=False`, or an engine whose DDL commits by itself) can fail
half-way, with the failure recorded or, after a crash, not. The operator may
clean up after a failed attempt. `loose` collects the ids about which the code
cannot know: a crash between the statements of a bare step and its row, and a
failed row that `repair()` deletes before the clean-up. `WritesRolledBack` is a
write that fails and takes the transaction it is in with it. `repair()` rolls
nothing back by itself: on an engine without the lock, whose `lock_scope()` would,
its rows before the one that failed stay for the next commit of the process
(`RepairKeptInPart`, which commits them at once).

The passing runs assume that a read sees the latest commit (Postgres, SQL
Server, SQLite, MySQL at READ COMMITTED or in autocommit); section 12 gives the
other case. `CallUp`, `CallDown`, `CallRepair` and `CallBaseline` are the
four calls that start a run.

`Filters` has the one operator that `Migrator` and `RehearsalGate` share, the
members of a list that a condition keeps.

`TrackingUpgrade`: the loop that probes and adds the columns an earlier version
did not have. A driver may open transactions by itself and an engine may roll
back an `ADD COLUMN`; both are parameters.

## 6. `RehearsalGate` (`rehearsal.py`, `core/rehearsing.py`)

One migrator whose files are edited, rehearsed, run whole or up to a target,
taken down, and repaired. A key is the pair of what its digest hashes, the
checksums of the applied history and those of the run. `outcome` is the
rehearsal table. `history` keeps next to the stored checksum the edition that
really ran, so that the properties can compare what the gate believed with what
was proved.

A rehearsal is the sweep the code makes in one transaction and takes back: the up
steps, the down steps newest first, a comparison with the schema before. At most
one fault lies in it: an up step or a down step that raises, or an object that no
down step takes back. `Bare` contents (`transactional=False`) are skipped, and one
of `NoDown` blocks the down steps of what is older. `Unseen` is what a rehearsal
cannot meet, by the docs; a sweep is clean when its fault is one of these, and only
a clean one proves the run, whatever row it writes. `RehearseScratch` sweeps on
another database, empty or with the first migration applied, and `RecordScratch`
writes the rows where they count.

`covered` says that the last rehearsal met no fault and nothing happened since that
its keys do not allow for. A rehearsal has keys for the runs that start where a
targeted run ended or a run failed among the versioned migrations, and none for
those that start between two repeatables (section 12), so a run that stops there
ends `covered` (`AppliedFirst`).

An edit between a scratch rehearsal and its recording leaves the results, which the
recording compares by id, as the code does; `edited` collects what such edits put in
the place of what the rehearsal ran. `GateSound` promises of a run that a recorded
scratch rehearsal covers that each migration of it ran there or was put there so
(`RanOrEdited`); `EditVoidsRow`, without that exception, is refuted (section 12).
`InPlace` says whether schema changes roll back, without which only a scratch
rehearsal is possible.

Not modelled: the diff of a rehearsal against models, keys of the older format,
the traced form.

## 7. `AsyncTransactions` (`aio.py`)

Tasks of one event loop run writes and open blocks on DB-API adapters, on their
own or from a pool. Nothing runs between two awaits, and every await is a driver
call: it waits for the adapter's lock (`stage` `"wait"`), runs in a worker thread
(`"running"`), and hands its task a result, an error or a cancellation. A worker
cannot be interrupted, so a cancelled call goes on without its task, and the
adapter undoes what it did before it lets the next call in (`"undoing"`).
`phase[t]` is the call a task is in and thereby what it does after it. `control`
is what ends a transaction: the driver's own methods, statements (a connection
in autocommit), or statements on a cursor that is a session of its own (DuckDB).
`pending[a]` is the transaction on an adapter: its writes, and its savepoints, each
with the writes there were when it was set. Any call may raise, a RELEASE, a ROLLBACK
TO or a ROLLBACK on an adapter that lives too, and has then done nothing. `outcome`
has the endings of section 4 and `"cut"`, where the cancellation met the COMMIT or
RELEASE itself. A DuckDB session whose close raised is taken to go on in the next
one, which allows more than the driver does.

`AtomicBlocks` and `FinishedIsDurable` are about uses in which each task has
adapters of its own or takes them from a pool, and names none of a pool's adapters by
itself (`Private`).

Not modelled: calls that go straight to an adapter, the asyncpg and aiosqlite
adapters, child tasks that inherit a pin, `autocommit_scope()`,
`pinned_async_transaction()`, dialects without savepoints other than DuckDB, two
tasks that open blocks on one adapter at once, eager loading.

## 8. The impact analysis (`impact/`)

The analysis runs nothing: `RunState` follows what each statement did, so that a
later one is judged against the tables it will meet. Each module takes every
statement twice, by a PostgreSQL catalog and by the analysis, and compares the
two.

* `RunTables`: tables the run creates, renames, copies, attaches, detaches,
  drops and rolls back. `db` is the catalog, `facts` the records of `RunState`.
  The rows of a live table are a token, so that a copied or attached table has a
  size that can be compared.
* `RunChecks`: what proves that a column has no NULL when `SET NOT NULL` runs,
  while columns and constraints are renamed, dropped, added and replaced.
* `RunTimeouts`: `SET`, `SET LOCAL`, `RESET` and `DISCARD`, and the rollbacks
  that take them back, against PostgreSQL's own rules for the setting.
* `LockWindows`: the windows `aggregate()` reports for a migration against the
  locks held while each of its statements runs, for the four ways an engine keeps
  a lock.

`MCImpact` follows one of the four at a time. Four constants admit what the
analysis is known to read wrong, and are `FALSE` in the run (section 12):
`UnnamedChecks`, `GoneNamesReused`, `LocalOff` and `NamesReused`. Known and left out of the models:
`ROLLBACK TO SAVEPOINT` is read as `ROLLBACK` (`impact/recognizer/session.py:46`);
`guards/text.py:190` counts `SET lock_timeout = 0` as covering; `CREATE TABLE IF
NOT EXISTS ... PARTITION OF` leaves no link when the partitions were not read; the
`VALIDATE` of a check the schema reports as `NOT VALID` is not followed. Storage
parameters, domains, indexes, default partitions, schema-qualified names and
MySQL's scopes of settings are not followed in these four modules.

The rules answer for one statement; `ImpactRules` has what they share, and
`PostgresRules`, `MySQLRules` (with MariaDB), `MSSQLRules`, `SQLiteRules` and
`DuckDBRules` have one operator per handler: which locks, what work, how sure,
whether the server refuses it, and the remedy, as statements that can be judged in
their turn. `ImpactAnalysis` reads the context, fact by fact, any of which the
server may withhold; judges the statements of a script in order, each with what
the ones before it did; and beside that answer keeps the one a complete read would
have given. So the properties can say what not reading a fact may cost:
`KnownStays` (an answer given as known does not change with what was not read),
`GuardsErrOnBlocking` (what passes `max_blocking` or `no_rewrite` with facts missing
passes with all of them, MySQL apart, where `src/docs/impact.md:738` takes a storage
that was not read for the instant case) and `RemediesAreSafer` (none of the
statements of a remedy is refused, or works on the data while it blocks as much as
what they replace).

`MCImpactRules` has ten families of servers and scripts: partitions, versions,
column types, new columns, keys and storage (PostgreSQL), clauses and changed
columns (MySQL and MariaDB), SQL Server, and the two engines that are a file. A
table that a script drops had no partitions. The constants `CollationUnread`,
`FulltextUnread`, `RemedyOnPartitions`, `RemedyOnDomains`, `LockedInstant`,
`RemedyAfterWith` and `ClusteredUnread` admit what is known to go wrong, and are
`FALSE` in the run (section 12). The wording of findings, remedies in prose, the
trace probes and the live preflight are not modelled.

## 9. Autogenerate (`autogenerate/`)

`SchemaCatalog` is a PostgreSQL schema as far as it can refuse a generated
statement, and what each statement needs and does. `SchemaDiff` is
`diff_schema()`; `Autogenerate` the phases of `autogenerate_migrations()`, whose
blocks append to the up steps and prepend to the down steps of the migration or
of a group of `<id>_online`; `AutogenerateRun` runs what was generated: `PlanMigrations` and `Generate` decide on the way; the first
migration runs in one transaction, each statement of the second by itself, with
failures, second attempts, a new generation after a failure, writes of the
application between statements, and the way down. Within the online migration
`NotNullRoute`, `UniqueUsingIndex`, `BuildConcurrently` and `ValidateConstraint`
are the forms that avoid a long lock.

`SQLiteRebuild` is the same on SQLite. A table with a change that ALTER TABLE
cannot make is rebuilt: a copy is created from the declaration, the rows are
copied, the old table is dropped and the copy renamed, with two pragmas around it
when live foreign keys point at it. Its schema has in addition what no model can
declare (collations, unnamed checks, UNIQUEs over pairs, indexes on expressions,
triggers, generated columns), views, the rows, the columns that are NULL
throughout, and the two pragmas. A migration with a pragma runs without a
transaction. `NothingElseIsLost` follows the rows and those parts through every
statement.

`MCAutogenerate` starts from every pair of a small live schema and a declaration
in three families for PostgreSQL (keys, columns, references), with and without
`online`, and three for SQLite (rebuild, parts, tables), with foreign keys
enforced or not and cascading or not; each with the three ways to treat drops. The pairs whose generation is known to fail are left out by `Known`, each
named: `split_key` and `chain` (section 12), and

* `late_change`: with `online`, a changed foreign key is added before the online
  migration builds the unique index it leans on;
* `early_drop`: an index is dropped or built again while a foreign key that is
  dropped later, or stays, leans on it;
* `invalid_target`: a unique index left invalid is built again after what points
  at it;
* `undiffed`, `two_keys`: a column-level UNIQUE that is missing live is not in
  the diff, so the UNIQUE of a column whose online index failed is lost to the
  next generation; and with two keys on a column, PostgreSQL chooses the one a
  foreign key leans on.

and on SQLite `added_key`, `late_key`, `undroppable` and `generated` (section 12).

Not modelled: types and defaults, comments, enum types, renames, keys over
several columns, index predicates and directions, partitioned tables,
`assert_algorithm`, excluded tables, the other dialects; a failure between two
statements of a rebuild without a transaction, which the docs have finished by
hand.

## 10. The query builder (`builder.py`, `compilers/`, `expressions.py`)

`QueryRendering` is `to_sql()` as a function from a query and a dialect to a
sequence of tokens and the list of bound values. Only the tokens that carry
order are kept: placeholders (marked with the value each was written for),
parentheses, `WITH`, the definition and the reading of a CTE, set operators,
`ORDER BY`, `LIMIT` and `OFFSET`. The hoisting of CTEs on SQL Server is in full.
`QueryBuilder` is a query under construction, one builder call a step; `First` and
`Total` render the copies that `first()` and `total()` run, and `rendered` is the
query the statement was made from.
`MCQueryBuilder` gives the calls subqueries that bind values, define and read
CTEs, carry a `LIMIT`, or are set operations, on SQLite, DuckDB, MySQL and SQL
Server; PostgreSQL differs from DuckDB in what it refuses only.

`Admitted` names what is known to go wrong and is left out of the passing run;
each member makes a property fail:

* `window`: a window's arguments and its `OVER` clause (section 12);
* `nulls`, `truth`: NULLS FIRST and LAST where the dialect has no such clause
  (`compilers/base.py:1567`), and IS TRUE on SQL Server (`compilers/mssql.py:272`),
  write a rendered column twice and bind its values once;
* `case`: the results of CASE and the arguments of aggregates are rendered with no
  context, so on SQL Server their CTEs stay in parentheses;
* `row`: a value of `insert()` with a CTE keeps its WITH on SQL Server, and inside
  another CTE loses it;
* `order`: the CTEs of a subquery in FROM are hoisted before the outer CTE they
  read, against the docstring at `builder.py:556`;
* `member`: on a dialect that writes members of a set operation without
  parentheses, a member that is itself a set operation is let through
  (`builder.py:588`).

Not modelled: relations and eager loading, quoting, literals, operators, batch
inserts, EXPLAIN, grouping sets, recursive CTEs, Presto and Athena.

## 11. Runs

| Run | Instance | What it shows |
|---|---|---|
| `pool` | 2 threads, 3 connections, pool of 2; 197,712 states | Custody, leaks and wake-ups, also after a reset whose rollback raised; the refinement of `PoolCustody`, `AcquireEnds`, `ClosedPoolDrains` |
| `async_pool` | 2 tasks, 2 adapters, pool of 1, both kinds of driver; 9,716 states | No slot, adapter or wake-up is lost under cancellation; refinement of `PoolCustody`; liveness |
| `tx_blocks` | 2 threads, a pool of 1 and a connection, 3 blocks, 2 writes; 2,481,523 states | Atomicity of nested blocks but for those whose closing statement raised, durability, the registry, the savepoints, the pool |
| `migrator_safety` | 2 processes, 3 deploys of 3 ids, 3 engines, 3 runs, 1 fault; 998,978 states | The rows tell the truth, the history is one order, failed attempts are not rerun, reverts are newest first and of the content applied |
| `migrator_liveness` | 2 processes, 2 deploys, 2 runs, 2 faults | Every run ends |
| `tracking_upgrade` | a table of the first version, 3 kinds of driver | Violation: a failed probe's rollback takes the column added just before |
| `rehearsal_gate` | 2 versioned ids, 2 repeatables, 2 editions, 2 rehearsals (here or on a scratch database, with a fault or without), 1 edit, 1 override; 768,685 states | A rehearsed run is not refused, and only what was rehearsed on this schema passes, or was edited before a scratch rehearsal was recorded |
| `async_tx` | 2 tasks, 2 adapters, a pool of 1, 2 blocks, 2 writes, 2 cancellations; 496,129 states | Blocks are atomic but for those whose closing call raised or was cancelled, what finished is durable, a connection runs one call at a time, every call ends |
| `impact` | 3 live tables and a free name; 2 columns and 3 constraints; 4 statements, 6 settings, 3 in a window | What the analysis believes of tables, sizes, partitions, checks and timeouts is what the database has; the windows are the locks held |
| `impact_rules` | ten families of servers and scripts for the engines, every fact read or not; 757,145 states | What is given as known stays when more is read, a missing fact does not let a guard pass, a remedy blocks no more than what it replaces |
| `autogenerate` | 2 tables, 5 columns, every option, 1 failure, six families on two engines; 701,435 states | Every generated statement runs, the next diff is empty, the way down restores, NOT NULL is proved first, a rebuild loses neither rows nor what no model declares |
| `queries` | 4 dialects, 3 calls, first() and total(); 131,685 states | Parameters in order, CTEs defined before they are read, one leading WITH, members whole |

`NothingIsLost` (`async_pool`) joins slot accounting, leaks and wake-ups;
`OpenBlocksAreKnown` (`tx_blocks`) the registry and the savepoints;
`FactsFollowTables` (`impact`) tables, sizes and relations; `ClausesStayInPlace`
(`queries`) the leading WITH and the clauses of members.
Each module also states a `TypeOK`, and `ConnectionPool` more invariants than its
run lists: those are proved (section 13).

### Bounds

* `pool`: two threads that each hold one connection and want a second exercise
  every wait; with three connections a replacement is opened while a discarded
  one is still closing. More threads are covered by the proofs of section 13,
  except for the two liveness properties.
* `async_pool`: a release goes on after its caller is cancelled, so two tasks
  suffice to have both wait for one slot, one of them woken and cancelled.
* `MaxBlocks` 3 and `MaxWrites` 2 (`Transactions`): a block, a nested block, and
  a second nested block of the same depth, which would meet a stale savepoint;
  a write that must go and one that must stay.
* `MaxRuns` 3 and `MaxFaults` 1 (`Migrator`): one run to be in the way, one that
  fails, one that repairs or takes back. The liveness run has two faults: an
  unlock that is refused, and a crash of the process that waits.
* `MaxEdition` 2, `MaxRehearsals` 2, `MaxEdits` 1, `MaxOverrides` 1
  (`RehearsalGate`): a rehearsal before and one after an edit, and a run that
  was not rehearsed between them. One fault a sweep: the sweep stops at the first.
  Two repeatables, so that a run can stop between them. The proofs cover more of
  each.

Only the pools go on for ever. The other behaviours stop when a bound is used up,
so their runs do not check for deadlock.

* `async_tx`: two blocks, so that one can be nested in the other or belong to the
  other task, and two cancellations, so that a task can be cancelled while the
  undoing of its first cancellation runs.
* `impact`: four statements reach a rename, a swap over a third name and the
  statement judged after it; two migrations reach a rollback of the second.
  The live tables there before the run are one level of partitions deep. With two
  levels and the partitions read `FactsFollowTables` holds as well (99,778 states);
  with the partitions unread it does not (section 12).
* `autogenerate`: the families together cover every kind of block; one failure
  covers a second attempt and a new generation, and both with NULLs written in
  between.
* `impact_rules`: sizes are 1 or above `Limit` 5, which is all the size rules ask;
  three rows of a tree of partitions are its root, a branch and a leaf. SQL
  Server's escalation threshold is 3 locks.
* `queries`: three calls put a CTE, a reader of it and a clause that binds a value
  into one query, in every order.

### Fairness

* Pools: the operating system or the event loop runs every thread or task that
  can go on, and deadlines pass (weak fairness). A caller gives back what it
  holds, because `connection()` and `scope()` release in a `finally`, but it may
  make other pool calls before, so that the release is only enabled now and
  then: strong fairness. Nothing obliges anyone to acquire, to cancel or to
  close the pool.
* `Migrator`: a run goes on by itself (weak fairness), the server gives the lock
  to a session that asks for it again and again (strong fairness: others may
  take it in between), and a connection whose run is over is closed in the end.
  Nothing obliges a process to start a run.
* `AsyncTransactions`: the event loop runs tasks that can go on and worker threads
  return (weak fairness); the adapter's lock goes to a task that keeps waiting for
  it (strong fairness, `asyncio.Lock` is first come, first served).

## 12. Disagreements found between the code and its own statements

One of them is a run, and `PROJECT.json` quotes the line it disagrees with:
`tracking_upgrade`: the rollback after a failed probe takes back the column added
just before, on a driver that opens transactions and an engine that rolls back DDL.

The others TLC refutes as well, with the run's configuration changed as the table
says (`<-` gives a constant a definition of the MC module) and the one property
checked:

| Configuration | Refuted | What happens |
|---|---|---|
| `MCConnectionPool.cfg` | `CleanHandout` | a rollback that raises while `SELECT 1` answers leaves its transaction on a connection that is made idle (`pool.py:132` to `:142`), against `pool.py:98`; `src/docs/reference/execution.md:136` tells of the probe |
| `MCAsyncPool.cfg` | `EveryHandoutClean` | the same of an adapter, against `aio_pool.py:154` |
| `MCTransactions.cfg` | `RaisedBlocksLeaveNothing` | a nested block runs a statement and ends well, its RELEASE raises (`execution.py:615`), the caller catches that and the outer block commits: the block raised and its write is durable. So it is after an `undo` that raises (`:532` to `:536`), and after a rollback that raises (`:647` to `:653`) and a commit of what comes next on the connection; against `execution.py:544` and `src/docs/reference/execution.md:44` |
| `MCAsyncTransactions.cfg` | `RaisedBlocksLeaveNothing` | the same of `async_transaction()` (`aio.py:701`, `:667` to `:671`, `:738` to `:747`) |
| `MCAsyncPool.cfg`, `Tasks <- OneTask`, `Drivers <- Asyncpg` | `EveryHandoutClean` | `AsyncpgAdapter.rollback()` (`aio.py:525`) sends nothing, so a caller's own BEGIN survives the release that promises to roll it back (`aio_pool.py:154`) |
| `MCTransactions.cfg`, `Uses <- OnlyShared` | `SecondThreadRefused` | `transaction()` checks and registers in two critical sections (`execution.py:556`, `:588`): two threads that arrive together both open a block |
| `MCTransactions.cfg`, `Threads <- OneThread`, `Connections <- ThreeConnections`, `Pools <- TwoPools`, `PoolConnections <- TwoPoolConnections`, `Uses <- TwoPoolUses`, `WithSavepoints <- ThreeConnections` | `ExplicitPoolStaysInBlock` | only the innermost pin is compared with an explicit pool (`execution.py:201`), so in `transaction(P)` and then `transaction(Q)` a statement given `P` runs on a second connection of `P` |
| `MCMigrator.cfg`, `Repeatables = {}`, `NonTransactional = {}`, `Deploys <- OneDeploy`, `LegacySets <- NoLegacy`, `Engines <- FrozenEngines`, `Commands <- UpAndDownTo`, `MaxFaults = 0` | `WindowCountedUnderTheLock` | `down_to()` reads before it takes the lock and ends no transaction before it reads again (`migrations/core/runs.py:578`); at REPEATABLE READ the second read sees the old rows |
| `MCMigrator.cfg`, `LegacySets <- NoLegacy`, `Engines <- FrozenEngines`, `MaxFaults = 0` | `HistoryIsOrdered` | the same of a migrator that has read in a transaction it left open, by a `down()` with nothing to take back: its later `up()` numbers its rows by what the table held then, and two rows share a `seq` |
| `MCAsyncTransactions.cfg`, `Control <- DriverOnly`, `Uses <- BoundUses`, `MaxBlocks = 0`, `MaxCancels = 0`, `SPECIFICATION Spec` | `ConcurrentRunsKept` | a failing `arun()` rolls back what another task ran on the same adapter and has not committed (`aio.py:777`), against `src/docs/executing.md:365` |
| `MCAsyncTransactions.cfg` with `Control <- AutocommitOnly` and `Uses <- AutocommitUses` | `FinishedIsDurable` | after a cancelled BEGIN on a connection in autocommit a later write is left in an open transaction (`aio.py:730`), against `src/docs/executing.md:361` |
| `MCAutogenerate.cfg`, `Families = {"keys"}`, `Admitted = {"split_key"}` | `OneMigrationOffline` | without `online`, a foreign key whose target is built in the same generation is put into a second migration (`autogenerate/steps.py:756`), against `autogenerate/__init__.py:337` |
| `MCAutogenerate.cfg`, `Families = {"references"}`, `Admitted = {"chain"}` | `EveryStatementRuns` | new columns that reference each other in a chain declared in reverse are added before their targets |
| `MCAutogenerate.cfg`, SQLite families, `Admitted = {"added_key"}` | `EveryStatementRuns`, `NothingElseIsLost` | `rebuild_turns_foreign_keys_off()` (`rebuild.py:390`) asks the live foreign keys alone; one the generation adds, to a table rebuilt later or to its own, makes DROP TABLE fail or, with ON DELETE CASCADE, delete the copied rows, against `src/docs/schema.md:143` |
| the same, `{"late_key"}` | `EveryStatementRuns` | rows are copied into a table whose foreign key points at a unique index built later: "foreign key mismatch" |
| the same, `{"undroppable"}` | `EveryStatementRuns` | with `allow_drops`, DROP COLUMN of a column that a UNIQUE, a CHECK, an index on an expression or a trigger uses is refused, and no rebuild is chosen |
| the same, `{"generated"}` | `NothingElseIsLost` | PRAGMA table_info leaves generated columns out and a rebuild loses them, as it does STRICT and AUTOINCREMENT (not modelled), against `src/docs/schema.md:147` |
| `MCRehearsalGate.cfg` | `EditVoidsRow` | a migration is edited after a scratch rehearsal and before its recording, which compares the results by id (`migrations/rehearsal.py:389` to `:391`): the row is keyed by statements that never ran, and the gate takes it, against `src/docs/schema.md:708` |
| `MCImpact.cfg`, `LivePartitioned = {p, q}` | `FactsFollowTables` | without the partitions read the analysis does not know that `q` is below `p`: after `CREATE TABLE x PARTITION OF q`, an `INSERT ... SELECT` into `p` leaves `x` new and empty (`impact/state.py:487`) and what is done to it later is left out of the report, against `src/docs/impact.md:306`; after `DROP TABLE p` it keeps `x` |
| `MCQueryBuilder.cfg`, `Admitted = {"window"}` | `ParamsInOrder` | `compile_window_call()` (`compilers/base.py:1691`) binds the values of `OVER` before those of the arguments and writes them after |
| `MCImpactRules.cfg`, `CollationUnread` | `KnownStays` | without the index read, a changed type of a column with another collation is given as known (`impact/rules/postgres/column_types.py:261`), against `src/docs/impact.md:109` |
| the same, `FulltextUnread` | `KnownStays` | so is a change of a MySQL table whose FULLTEXT indexes were not read |
| the same, `ClusteredUnread` | `KnownStays` | so are SQL Server's DROP INDEX, DROP CONSTRAINT and ALTER INDEX REBUILD without the clustered index |
| the same, `LockedInstant` | `RemediesAreSafer` | MySQL's `ADD COLUMN ..., LOCK=NONE` is reported as likely without work, and its remedy `ALGORITHM=INPLACE, LOCK=NONE` as a rewrite (`impact/rules/mysql/online.py:275`) |
| the same, `RemedyOnPartitions`, `RemedyOnDomains` | `RemediesAreSafer` | remedies are given that the server refuses on a partitioned table, or that check each row through a domain (`src/docs/impact.md:75`) |
| the same, `RemedyAfterWith` | `RemediesAreSafer` | on SQL Server the remedy appends a second `WITH (ONLINE = ON)` to a statement that has a WITH |

And with the constants of sections 8 to 10: `UnnamedChecks` (an unnamed check is
not found when its column is renamed or it is dropped, `impact/state.py:562`,
against `src/docs/impact.md:310`), `GoneNamesReused` (a column that is dropped
takes its checks with it, and their names stay in the renames the analysis follows:
after `RENAME CONSTRAINT m1 TO x`, `DROP COLUMN` of its column and `RENAME CONSTRAINT
m2 TO x`, a `DROP CONSTRAINT x` drops the wrong one, `impact/state.py:657`, and `SET
NOT NULL` on the column of `m2` is called catalog work, against
`impact/rules/postgres/alter.py:228`; with `Parts = {"checks"}`, `SchemaColumns = {c,
d}` and `SchemaChecks <- MCTwoChecks`), `LocalOff` (`SET LOCAL lock_timeout = 0` does
not hide the session's timeout, `impact/timeouts.py:68`, against lines 18 to 20
there), `NamesReused` (a table created under a live table's old name and then
renamed takes the live one's record, `impact/state.py:355` and `:612`), and the
members of `Admitted`.

Read in the sources while modelling, without a configuration:

* `release()` of the pool pops a connection by identity, whoever checked it out
  (`pool.py:104`): after another thread has acquired it, a second release succeeds.
* A rehearsed run that fails between two repeatables leaves a history that no row of
  the rehearsal covers (`_destructive_prefix_keys()`, `migrations/rehearsal.py:306`,
  starts after versioned migrations only), and the next `up()` is refused until it is
  rehearsed again. `src/docs/schema.md:716` promises targeted runs, which never stop
  there. `GateComplete` was first stated without this case, and TLC refuted it.
* `SET TABLESPACE`, `SET LOGGED` and `ONLY` on a partitioned table are judged by the
  partitions too (`src/docs/impact.md:109` and `:611` differ).
* `src/docs/schema.md:755` says a scratch rehearsal is recorded "only when the scratch
  run applied every migration pending"; the code, as its docstring says, counts the
  skipped `transactional=False` ones as applied.
* `src/docs/schema.md:147` says a rebuild loses an index on an expression; the code
  writes it back.
* After a failure between the DROP and the rename of a bare rebuild, a new generation
  with `allow_drops` would drop the copy that holds the rows.
* A trigger that names a column a rebuild dropped is created again, broken, and makes
  a later DROP COLUMN fail.

## 13. What is proved

### The pools

`ConnectionPoolProofs` proves, for any finite sets of threads and connections
that are disjoint and any `max_size` of at least 1:

| Theorem | Statement |
|---|---|
| `TypeCorrect` | `Spec => []TypeOK` |
| `SlotAccountingHolds` | `_created` is the number of slots in use and never exceeds `max_size` |
| `ExclusiveCustodyHolds` | no connection is with two callers, or with a caller and idle |
| `NoLeakHolds` | every open connection is idle or in some thread's custody |
| `ResetBeforeHandoutHolds` | no idle connection has an open transaction, but one that the rollback of its reset left because it raised |
| `ClosedKeepsNothingHolds` | a closed pool has no idle connection and no waiter |
| `NoLostWakeupHolds` | while threads wait, every idle connection and free slot has a woken thread of its own |
| `PoolImplementsCustody` | the pool implements `PoolCustody` |

None of these invariants is inductive alone. `TypeInv` adds to the types which
phases carry a connection (`PhaseOK`). `CustodyInv` joins the statements about
where a connection is, and adds that the rollback of one carried back by a release
has been tried, with nobody left to run a statement on it (`CarriedReset`): without
it `PutIdle` could make one idle that nobody reset. `SlotAccounting` needs both, because each action changes a set
of slots by an element that must be known to be in it or not. `NoLostWakeup`
counts: a step that uses a promise (`WakeupUsed`), one that makes something
available and notifies (`WakeupGiven`), and one that does neither
(`WakeupKept`). The refinement maps the pool's steps to the abstract ones, with
`LoadIsCreated` equating the abstract load with `_created`.

`AsyncPoolProofs` proves the same of the async pool, for any finite and disjoint
sets of tasks and adapters, any `max_size` of at least 1 and either kind of driver:
`TypeCorrect`, `OnePlaceHolds` (an adapter is idle, with one task, in its reset, in
one `close()`, or abandoned), `NoLeakHolds`, `NothingIsLostHolds` (slots, open
adapters and wake-ups, as the run checks them) and `AsyncPoolImplementsCustody`.
The invariant is `TypeInv /\ CustodyInv /\ SlotAccounting /\ WakeupsPromised`.
Nothing interrupts a task between two awaits, so that the actions are larger than
the threads' and the lemmas are about what an action is made of: a slot that moves
with an adapter, one that is given up, a notification. `WakeupsPromised` has to say
that the queue holds the waiting tasks, each once: a cancelled waiter that was
already woken passes its wake-up on, and that finds somebody only if the queue is
right.

### The transactions

`TransactionsProofs` proves all four safety properties of
`Transactions`, for any threads, connections and pools, with and without savepoints.
Assumed of the constants: pools share no connection (`PoolsAssumption`), no thread
names a connection that a pool opened (`UsesAssumption`; only the pool hands those
out), and the names of nothing are no names (`NamesAssumption`).

| Theorem | Statement |
|---|---|
| `InvHolds` | `Spec => []Inv`, the invariant below |
| `PoolConnectionsAtRestHolds` | a connection in its pool has no block, no statement and no thread on it |
| `OpenBlocksAreKnownHolds` | registry and savepoints tell of the blocks open on a connection, and a savepoint outlives its block only where a statement that closes it raised |
| `AtomicBlocksHolds` | no write is durable while a block it ran in is open, nor after one raised, save one whose RELEASE, ROLLBACK TO or ROLLBACK raised |
| `FinishedBlocksKeptHolds` | what blocks wrote that all ended well is durable |

`Inv` is `TypeInv`, and which phases have a block (`PhaseOK`), what the blocks on a
thread's stack are (`BlocksInv`), how they nest on a connection (`NestingInv`: a block
whose level is above 0 lies over the one below it on the same connection), who has a
connection of a pool (`CustodyInv`), what the registry and the session of a connection hold for
the blocks open on it (`SessionInv`), and what its transaction does (`HeldInv`): each
savepoint is of one block, open or one whose closing statement raised; the last of a
level is that of the open block there and parts its writes from those before it; and
the writes are of blocks that are open or that nothing took back. `AtomicInv` adds
where each write is: a durable one has no block that is open or was taken back, and one
that ran is pending, durable, or taken back by one of its blocks.

Three things in the argument are about the code. `PoolConnectionsAtRest` needs no
condition on how threads use connections, as nothing but the pool reaches one of
its own. The other three hold where no two threads name one connection (`Private`,
which `Uses` fixes for the whole behaviour): with shared connections they are false,
and the docs do not promise them. And `NestingInv` is needed before anything can be
said of savepoints: the name of a savepoint is its level, which is used again after
a block ended, and a rollback to it hits the right one only because every level
above has been released or rolled back first.

`AsyncTransactionsProofs` proves `OneThreadPerConnectionHolds` for any tasks,
adapters and pools, shared as they may be: no driver connection runs two calls at
once. `LockInv` says that a running call, and the thread that a cancelled one left
behind, hold the lock of the adapter they are on. Which adapter that is, its
innermost block's or the one the call names, takes most of the proof
(`HasAdapter`). Assumed: `Nobody` is no task, pools share no adapter, and no pool is
named as an adapter or as no pool (`AsyncPoolsAssumption`, `NamesAssumption`).

It goes on to prove the other two safety properties of `AsyncTransactions`, for uses
that are `Private`, which no step changes:

| Theorem | Statement |
|---|---|
| `AtomicInvHolds` | `Spec => []AtomicInv`, the invariant below |
| `AtomicBlocksHolds` | no write is durable while a block it ran in is open, nor after one raised, save where a cancellation met its COMMIT or RELEASE, or its RELEASE, ROLLBACK TO or ROLLBACK raised |
| `FinishedIsDurableHolds` | what blocks wrote that ended and that nothing took back is durable, and a write outside any block once `arun()` returned |

The first two hold for every way a transaction may end. The third assumes
`NoStatements`: no adapter has a connection that the caller put in autocommit. There
a BEGIN whose task is cancelled leaves a transaction open, which a later write joins
and its `arun()` does not commit (section 12). Only a write outside any block needs
the assumption; `FinishedBlocksAreDurable`, for the writes of blocks, does without.

`AtomicInv` says of a private use, beyond `LockInv`:

* `StacksInv`, `PhasesInv`: no two frames have one block, frames on one adapter lie
  deeper the later they came, and every block on a stack is open, except the
  innermost one of a task that is ending it.
* `Custody`: at most one task is on an adapter, in a block or with a call, and none on
  one that its pool has. So no call ever finds its lock taken.
* `SessionsInv`: the levels of the blocks on an adapter are 0 to the depth in the
  registry, less one while the SAVEPOINT of the next is under way; without a block
  there is no entry and no session.
* `SavepointsInv`: there is a savepoint of each level from 1 to that depth, and one
  set after the last savepoint of a level has a higher level. A SAVEPOINT whose task
  is cancelled, or whose RELEASE raises, stays set and its name is used again, so
  several may have one name.
* `WritesInv`: a write that is pending is of blocks on the stack or ended without taking
  it back, and the savepoint of an open block holds exactly the writes that are not of
  that block. Where no block is open, what is pending was left by a block whose ROLLBACK
  raised or by a write outside any block that raised (`LeftOver`).
* `DurableInv`: a durable write's blocks ended without taking it back (`Keeping`); any
  other write of a block is pending still, or a block of it has taken it back or left it
  in the open transaction (`TakenBack`).

The argument goes by kinds of steps. `StepKinds` takes the actions apart once, with
every branch of `Succeeded` and `Raised`, and says what each kind does to the state,
given that a SAVEPOINT to release or go back to is always there (`BlockReady`);
`StepFocus` says that a step concerns one adapter and that no other task is on it.
What is known of the other adapters and tasks then stays as it was (`ElsewhereSame`,
`OthersAway`), and each part of the invariant is followed on one adapter through ten
kinds of step. TLC checked `AtomicInv` and `ReturnedInv` (what the third theorem
needs of writes outside blocks) before they were proved, with three blocks, and
`AtomicInv` with a connection in autocommit too.

### The migrator

`MigratorProofs` proves all four safety properties of `Migrator`, and two that it
rests on, for any processes, deploys, engines, commands and bounds:

| Theorem | Statement |
|---|---|
| `TypeCorrect` | `Spec => []TypeOK` |
| `RunsExclude` | on an engine with the lock one run at a time reads the table and acts on it |
| `DataInvHolds` | the inductive invariant below |
| `TableTellsTheTruth` | an applied row has its objects, once; an id without a row has none |
| `OneOrderOfApplication` | on an engine with the lock no two rows share a `seq` |
| `FailedAttemptStaysFailed` | a versioned migration with a failed attempt on record is not run again |
| `DownRunsRevertTheHistory` | a down run takes back what was applied, the newest first |

Assumed of the constants (`MigratorAssumption`): finitely many ids, and a deploy names
each id once. The first two theorems need no more. The others hold where a read sees
what is committed (`ReadsLatest`), as the passing runs have it: on a frozen engine
`HistoryIsOrdered` is false (section 12), so that this is a limit of the code, not of
the proof. At the bounds of that row TLC finds `RowsMatchSchema` to hold on a frozen
engine as well; there it is only model-checked.

The two properties of the table are not inductive: whether a row that is about to be
written is right depends on a plan that was made from rows read before, perhaps by a
run that another one has overtaken. The argument is that under the lock **what remains
of a plan is a plan for the rows as they are** (`PlanInv`): the ids still to be applied
have no row, or are repeatables whose row is to be updated, those still to be taken back
are applied and are what is newest, in that order, and the next number is above every
one that is taken. It is a
statement about the rest of the plan, so that taking a step only has to remove the
first one, and it holds with the lock because no other run can write a row meanwhile
(`LockInv`, over all engines and failures, also an unlock that was refused).
`StepInv` says what the objects of a bare step in flight are between its body and its
row, `TodoInv` and `RowsInv` what is true of plans and rows on every engine, with no
lock to rely on: there a transactional step whose row is taken already fails on the
primary key and rolls its objects back, and the promise covers only transactional
migrations.

Most lemmas are about the plans: what a filter keeps of a deploy (`Where`, a recursive
function whose facts `FilterProofs` proves by induction on the length: `Induction` takes
the least member of the set of counterexamples), the ids of
the applied rows in the order of `seq` (`BySeq`), and that the window of a down run is
the end of that order, back to front (`DownStepsFacts`).

### The rehearsal gate

`RehearsalGateProofs` proves both properties of the gate, for any lists of versioned
migrations and repeatables, any contents and bounds, in place or on a scratch
database, with any fault in any rehearsal:

| Theorem | Statement |
|---|---|
| `TypeCorrect` | `Spec => []TypeOK` |
| `SweepHonest` | a rehearsal passes where it met no fault that it can see, and only there |
| `GateCompleteHolds` | after a rehearsal without a fault, no run of its migrations is refused |
| `GateSoundHolds` | an `up()` that removes data runs what a rehearsal without a fault ran, or what an edit put in its place between a scratch rehearsal and its recording |

Assumed of the constants (`GateAssumption`): the lists name each migration once and have
no migration in common. Nothing else: the one edit that the code takes for rehearsed is
an exception in `GateSound` itself (section 12).

The inductive invariant `IInv` is `TypeOK` with three parts. `CoveredKeys`, for
completeness: as long as `covered` holds, the table has a passed row for *every* key that
the code would compute for a rehearsal made *now*, from the history and the pending
migrations as they have become. It is stronger than `GateComplete`, which asks only for
the keys of the runs that can start now, and has to be, because each targeted run moves
the start. `Justified`, for soundness: until a repair the rows name the editions that
really ran, and the statements of every passed key ran in a rehearsal without a fault, in
place from this history or, up to the edits before its recording, on the scratch
database. `ScratchRan`: the results that wait to be recorded name only migrations that
the rehearsal went over, so that what is recorded under one of their ids ran or was
edited since.

The steps of the argument follow the code:

* `SweepHonest`, by the kind of fault: a step up that raises, a step down that raises, an
  object left behind. The results that `_rehearsal_results()` computes from where the
  sweep ended are all good exactly where the sweep was.
* `PrefixKeysAre` and `PassedKeysAre` say which pairs of lists the loops over start points
  and ends make: a part of the pending versioned migrations after any start, or all that
  is left of them with the repeatables, behind the history and what precedes the start.
* `StoppedVersioned` says what `applied_records()` and the pending lists are after a run
  that stopped in its versioned part, and `LaterKeys` that no key is needed then that was
  not before. `NothingLeft` is the case of a run that went through.
* `KeysOpen` leads from the keys back to the gate.

`GateComplete` could not be proved as it was first stated: at a run that stops between
two repeatables the step from `LaterKeys` has no counterpart, and an instance with two of
them gave TLC the counterexample.

### The impact analysis

`ImpactStateProofs` proves, for scripts of any length:

* `CoveredUnlessOffHolds`: a statement that counts as covered waits for a bounded
  time, or a `SET LOCAL` turned the timeout off; `CoveredIsInForceHolds` is what
  follows where none does. `TimeoutsInv`: the analysis may miss a setting but never
  makes one up. Its memory of the value at the start of a transaction is right only
  while one is open, which is all it is used for.
* `ProvedColumnsAreCheckedHolds`: for any columns, names of constraints and checks
  of the schema, a column taken for proved has a valid check in the catalog, unless
  unnamed checks or names of checks gone with their column are admitted.
  `ChecksInv` relates the two records name by name (`Agree`), those kept for a
  rollback as well; one lemma per action of ALTER TABLE shows that it keeps them.
  The first attempt at this proof failed on RENAME CONSTRAINT, for the reason that
  `GoneNamesReused` of section 12 admits.

Assumed: the schema's checks are on its columns and have names of constraints
(`ChecksAssumption`), and `NotSet` is not a value of the setting.

### Only model-checked

* The liveness properties (`AcquireEnds`, `ClosedPoolDrains`, the ends of runs and
  calls): liveness under fairness is beyond the prover.
* `QueryRendering` and `QueryBuilder`, which are recursive over their data, and
  `FactsFollowTables`, which follows a tree of partitions of any depth (`Reach`): what
  a recursive definition computes for every input is an induction over data. Of all
  constants it is not even true: it needs partitions that were read, or live trees one
  level deep (section 12).
* `LockWindows`, `ImpactAnalysis` with the rules of the engines, and `Autogenerate`
  with what it uses: functions of large records, where a proof would split by the
  same cases that TLC enumerates.
* `ConcurrentRunsKept` of `AsyncTransactions`, which is refuted (section 12), and
  `Migrator` on an engine whose transactions read a snapshot.

## 14. What is not modelled, and why

The sections on the modules name what each leaves out of its component. Left out
altogether: the catalog queries of `introspect/` (text per engine, no state); the
recognizer's tokenizer and parser; schema statements and literals (text); loading
of files, the command line and the release scripts (I/O); checksums (hashing).
The order of files, the generated migrations of `up(models)` and the guards on the
text of a statement have logic worth modelling and are in the plan. `PROJECT.json` lists every component with its
reason.
