# TLA+ models of taskq

taskq is a task queue behind an HTTP API: clients create tasks (a name and a
command), trigger runs of them, and read the results; every request is
authenticated, scoped and rate-limited.  The code is in
`03-development/src/taskq/`; paths below are relative to it.  The models cover
its stateful parts: the background executor, the rows that tasks and runs leave
behind, the paginated list, keys and scopes, the metrics, the token buckets in
memory and in the database, the migrations and the readiness probe.

## 1. Inventory

| Component | State | Operations | What is hard | Correct when |
|---|---|---|---|---|
| Background executor, `service/executor.py`, `_hard_kill_process` in `service/runner.py` | `_pending`, `_tasks`, `_submitted`, `_in_flight_count`, `_results`; a subprocess per id | `submit`, `run_until_drained`, cancellation of the drain | coroutines interleave at every await; task timeout, drain deadline and cancellation race; queued ids must be dispatched | the cap holds, no subprocess outlives its coroutine, a report covers exactly one wave and tells the truth, a drain ends |
| Tasks, `api/routes/tasks.py`, `service/tasks.py`, `repository/tasks.py` | rows of `tasks` | create, get, list, delete | handlers run in threads; delete is two transactions; one connection is shared | names are unique, a 201 is a committed row, a delete takes its rows along, a walk through the list neither repeats nor skips |
| Runs, `api/routes/runs.py`, `repository/results.py`, `service/runner.py` | rows of `task_results`, background bodies | trigger (202), background execution, list | deletes race running bodies; the runner raises or times out | a 202 has a row, the row reaches the runner's outcome and keeps it |
| Rate limiting in memory, `service/rate_limit.py`, `api/middleware.py` | one bucket per caller and worker | consume, `Retry-After` | wall clock goes back; several workers | the caller gets burst plus refill, `Retry-After` is honest |
| Rate limiting in the database, `repository/rate_buckets.py` | one row per key | `get`, `consume` | lost updates, stale clock readings, first use, locks left behind | every consume is one indivisible step |
| Keys and scopes, `service/auth.py`, `repository/keys.py`, `api/deps.py`, `cli/key_create.py` | rows of `api_keys`, a fixed table of test keys | create, verify | a failing lookup falls back to the fixed table | a revoked key never opens a route |
| Migrations, `migrations/` | schema, revision table | upgrade, downgrade v1 to v3 | failure between two statements, data carried through a downgrade | a round trip keeps the data, a failure leaves a revision |
| Health, `api/routes/health.py` | none of its own | `healthz`, `readyz` | three reads, each of which may fail, while a migration may run or after one has failed | a file called ready holds its results where the code at head looks for them |
| Metrics, `service/metrics.py`, `repository/metrics.py`, `api/routes/metrics.py` | a counter per process | counts, percentiles | rounding of the index, two sessions | percentiles are samples near the nearest rank |
| Problems, correlation ids, schemas, settings, redaction | per request | formatting, validation | nothing concurrent | |

How they interact.  A request passes the rate limiter, then the scope
dependency, then a handler; `TaskService` and the handlers of runs call the
repositories, each method of which opens, commits and closes a session of its
own.  `trigger_run` schedules `_execute_and_persist`, which calls `TaskRunner`
and then `update_result`.  `AsyncExecutor` and `RateBucketRepository` are
complete and tested, but no code of the application calls them: the models take
their callers from their documentation and their tests.

## 2. Modules

| Module | Models |
|---|---|
| `DrainContract` | abstract: what a caller of the executor may rely on |
| `AsyncExecutor` | `AsyncExecutor` on an event loop; implements `DrainContract` |
| `RunLedger` | abstract: tasks and runs as clients may count on them |
| `TaskStore` | tasks, runs and their sessions, on either engine; implements `RunLedger` with a connection per session |
| `TaskPages` | the cursor pagination of `list` |
| `ApiKeys` | issuing, revoking and checking keys |
| `Percentiles` | the index of a percentile |
| `Metrics` | `/v1/metrics`: extends `ApiKeys` and `Percentiles` |
| `Migrations` | the revisions v1 to v3 in both directions, and `readyz` |
| `RefillMath` | `compute_refill` and spending, for both kinds of bucket |
| `TokenBuckets` | buckets in memory, workers, a wall clock |
| `AtomicBucket` | abstract: a row on which every consume is indivisible |
| `RateBucketRows` | `RateBucketRepository`; implements `AtomicBucket` where rows can be locked |
| `*Proofs` | theorems about the module of that name (`MetricsProofs`: also `ApiKeys`, `Percentiles`) |
| `MC_*` | the instances for TLC: symmetry, and the values a cfg cannot write |

Definitions marked `mutant` are deliberate mistakes that stand beside the
definition they spoil; no specification uses them.  `PROJECT.json` names, for
each property, the mistake that breaks it.

### AsyncExecutor

One action is what one coroutine does between two awaits, or one event outside
the program.  `pc[t]` says where the `_run_task` of `t` is, `drainPc` where
`run_until_drained` and `_wait_all` are; the other variables are the fields of
the class and the operating system's processes.

- `Submit` is `submit` with `_dispatch`; its `sleep(0)` is `CallerReady`: a
  single caller continues after the coroutine it created took its first step.
  `ConcurrentSubmit` allows several callers, also during a drain.
- `Start` ... `CancelDone` are the steps of `_run_task`.  `Finish` is its
  `finally` clause.  `CancelUnstarted` is a coroutine cancelled before its
  first step, for which that clause does not run.
- `WaitAllTop` and `WaitAllBody` are the two halves of an iteration of
  `_wait_all`, split at its only await.  When nothing is in `_tasks` there is no
  await at all, so `LoopFree` keeps every other coroutine from running.
- `DrainTimeout`, `TimedOut`, `CancelAndSeed`, `Reaped` are the deadline path;
  `CancelDrain` and `Unwound` a cancellation by the caller.
- asyncio is modelled from its use, for Python 3.11 (the version the
  specification names): `wait_for` awaits its argument in a task of its own,
  cancels it when the timer fires and waits for it to end; `gather` cancels its
  children and waits for all of them; a `Task.cancel()` is met at the next step
  of its coroutine, and a finished result beats a late cancellation.

Abstractions: commands are their outcome only; the negative cap that `_env_int`
would accept behaves like 0; ids are fresh (section 6), which includes that a drain that still
awaits the previous coroutine of an id has ended before the id comes back (`Fresh`).

### TaskStore

`db` is what is committed, `work` the same under the open transaction.  Each
statement, commit and close of a session is an action; a request's `Pc` says
which of its calls comes next.  `shared`, chosen at the start from `Engines`,
says which engine is in place.  With one connection for all (the `StaticPool`
engine of `_build_engine`) a commit commits everybody's statements and a close
rolls them all back; with a connection per session, and as each session writes
once, statement and commit are a single step.  Both are constructions the
repositories accept.

Only what the properties tell apart of a row is kept: that it exists, and its
status.  `ReaderCloses` stands for every session that only reads; `list_runs`
reads too, but its session commits (`ReaderCommits`).  `RunReturns` is any result
of `TaskRunner.run`, `RunRaises` the exceptions it lets through (no permission to
execute, an empty argv, unbalanced quotes).

`RunLedger` is what is left of this when sessions, statements and threads are taken
away: create, delete, purge of the rows, accept, return, settle, one step each.  In
`Ledger`, the mapping, an insert is the creation or the acceptance, since with a
connection per session it is visible at once, and the two transactions of a delete are
its two steps.  What the ledger leaves open is what the code leaves open: the rows of a
deleted task go later than the task, and a run may be accepted while its task goes.
On the shared connection the mapping shows a ledger that stays empty, so nothing is
claimed of it; `store_shared` shows why.

### TaskPages

One client walks the list, one SELECT per page, with a page size of its choice,
while tasks are flushed (which sets `created_at`), committed later, and deleted.
The text a column stores and the text a cursor carries differ: SQLAlchemy's
SQLite dialect writes a space where `isoformat` writes a `T`, and the comparison
is one of texts.  A text is its day, its separator and its time (`StoredText`,
`IsoText`, `TextLess`).  `throughout` is history: what was there during the whole
walk.  The status filter is left out, since no code changes a status.

### ApiKeys, Percentiles, Metrics

`ApiKeys` has the steps of `key_create`'s `main` (insert, commit, refresh, print), a
revocation (taskq has no command for it, so `Revoke` is external), and a request:
`Send`, one or two `Lookup`s, `Answer`.  `/v1/metrics` checks its scope twice, as
the code declares it on the route and on the handler.  A lookup may fail, which
`verify_api_key` treats as an unknown key.  All sessions share the connection of
`TaskStore`, so `OtherCloses` and `OtherCommits` are the sessions of other threads.
A key stands for its hash.

`Metrics` extends this by the handler behind the admin scope, which reads in two
sessions, and by runs that come and go; `Percentiles` is its arithmetic.  A duration
is represented by its place in the sorted list.

### Migrations

A command is one revision up or down; its statements run one at a time on `work`,
become permanent at once while no transaction is open, and can be followed by a
failure at any point (`Fail`: the rollback is all that is left).  The SQLite driver
opens a transaction at the first write of rows, not at DDL, which is why `begun`
is a variable.  `FillRow` is one round of the loop in v3's `downgrade`.  Between two
commands rows and documents are written, as the tests write them.  Of a result its
id and its task are kept, as texts: v3 fills in what a document lacks, and joins
`-result` to an id.  Other columns travel with them.

`readyz` reads the file three times, while a migration may run: `ProbeDb` is
`is_db_reachable`, whose outcome is kept in `db_ok`, `ProbeTables` the list of tables
and `ProbeRow` the revision.  An exception at either of the last two (`ProbeFails`) gives
the same 503 as an older revision; `Answers` is the verdict, and `probe` shows it until
the next probe.  The application's own engine is in memory, so it never sees a migrated
file; the tests substitute `get_engine`, and so does the model.

### RefillMath, TokenBuckets

Time is counted in ticks, and a token is worth `Cost` units, a bucket gaining
one unit per tick; `Second / Cost` is the rate, and rates of any ratio can be
expressed this way.  The floats of the code are exact here: rounding is not
modelled.  `Refill` is `compute_refill`, with its three cases.  The middleware has
no await between finding a bucket and its verdict, so `Grant` and `Reject` are
one step each; the second reading of the clock, for `Retry-After`, is taken to be the
first (a later one only refills earlier what the next request would refill).
`StepBack` and `Recover` move the wall clock against the time that really
goes by.

### RateBucketRows

One row, several workers, each statement a step.  `Begin` reads the clock, before
any lock; `Select` waits for the lock and loads the row; `Insert` is
`_materialise`; `Get` and `Consume` write, commit and release.  `Flushed` is
SQLAlchemy's UPDATE, which names the columns that changed.  The `refresh` after
the commit only reads, and is part of `Consume`.  `Fail` is an exception at any
point.  `RowLock = FALSE` is SQLite, for which SQLAlchemy leaves FOR UPDATE out.
An INSERT waits for the transaction that writes the same key on every database.
`rewound` is history, for `GrantBound`.

## 3. Runs

| Run | Shows | Bounds |
|---|---|---|
| `executor_sequential` | for one caller: `TypeOK`, `LiveWithinCap`, `Tracked`, `ReportTruthful`, `QuietAfterDrain`, and `KeepsContract`, the refinement of `DrainContract` | 3 ids, 2 slots: an id queues while two live |
| `executor_concurrent` | when submissions race the drain: `NoOrphan`, `CancelReaches`, `DrainedWins`, `DroppedIsReported`, `CancelUnwinds`, `DrainEndsOrStarves` | 2 ids, 1 slot: one lives, one queues |
| `executor_overcap` (violated) | `DrainEnds` fails when an id queues | 2 ids, 1 slot |
| `store` | on both engines: `TypeOK`, `CreatedTaskStored`, `UniqueNames`, `TerminalIsFinal`; with a connection per session also `FinishedRunSettled`, `DeletedStaysDeleted`, `RunSettlesOrRaises`, and `ImplementsLedger`, the refinement of `RunLedger` | 2 tasks, 1 run, 2 names |
| `store_shared` (violated) | `AcceptedRunStored` fails on the shared connection | 1 task, 1 run |
| `pages` | `TypeOK`, `WalkAscends`, `SkipsRestOfDayOnly` | 3 tasks, pages of 1 or 2, 4 instants on 2 days |
| `pages_skip` (violated) | `WalkComplete` | 2 tasks, pages of 1 |
| `keys` | `TypeOK`, `PrintedKeyStored`, `ServedWithinScope`, `HolderIsServed`, `RevokedKeyStaysOut`, `PercentilesHonest` | 1 key, 1 request, 5 scopes, up to 12 samples |
| `migrations` | `TypeOK`, `ResultsKept`, `SchemaMatchesRevision`, `ReadyServesResults` | 2 tasks, 2 documents, 3 results |
| `migration_fails` (violated) | `FailureRollsBack` | the same |
| `bucket_clock` | `TypeOK`, `GrantBound`, `RetryHonest` with a moving clock | 2 workers, burst 2, 8 ticks |
| `rows_locked` | with row locks: `TypeOK`, `GrantBound`, `CallsEnd`, and `ImplementsAtomic`, the refinement of `AtomicBucket` | 2 workers, burst 2, 3 ticks |

Why the bounds are enough to be interesting: ids come back once their previous
life left no trace, so the executor's runs go through any number of waves; the
drain, its deadline, its cancellation and a late submission need one live and one
queued id, which both passing runs have.  In `store` two creates can clash over a
name and a run races the deletion of its task; several runs of one task, each
with a row of its own, are left to the proofs.  Three tasks give a walk up to three
pages with a tie in `created_at`, and two instants per day show both sides of what the
text comparison does.  One key and one request are used again and again; the five
scopes include one that ranks nowhere and the empty one; up to 12 samples all roundings of
the four percentages occur.  In `migrations` the two tasks share a name, which
is also the id of a result, so that the index on names, the keys of results and the
tasks made up by the downgrade can all clash; one document says nothing and one
result has no task; the walks between the revisions are unbounded.  The buckets empty,
refill and fill up within the ticks given, with a rate that does not divide a
second (`Cost = 3`, `Second = 2`).  `MaxElapsed`, `MaxLag`, `MaxRecovered` and
`MaxClock` bound time and are guards of the clock's actions only.  Deadlock is
checked everywhere.

Fairness.  `AsyncExecutor`: the event loop resumes each ready coroutine and runs each
due timer, and the kernel ends a killed process.  It is strong where `_wait_all`
can switch a step off by holding the loop.  Nothing is assumed of subprocesses nobody
killed, or of callers.  `TaskStore`: an accepted request's own steps go on (the
thread pool runs them, the runner is bounded by its timeout).  `TaskPages`, `ApiKeys`,
`Metrics`, `Migrations` and `TokenBuckets` state no fairness: nothing there has to
happen.  `RateBucketRows`:
the database serves the waiters of a lock, and an exception leaves the method;
nothing makes a worker call again.

## 4. Where code and documents differ

Found violated by a run; `PROJECT.json` quotes the text that promises otherwise:

- `executor_overcap`: `_in_flight_count` is not decremented during a drain, so
  with more ids than slots `_wait_all` spins without an await, and its deadline
  cannot fire.  `DrainEndsOrStarves` is what remains true.
- `store_shared`: on the shared connection a reader's close rolls back a
  run's row before its commit.  `IsolatedRunStored`, a theorem, and `ImplementsLedger`
  are what remains true.
- `pages_skip`: the cursor's `T` sorts after the stored space, so a page ends the
  day of its last task: every later task of that day is skipped.
  `SkipsRestOfDayOnly` is what remains true.
- `migration_fails`: on SQLite the statements of a revision before its first write of
  rows survive its failure, and every retry fails on them.  `ResultsKept` holds nevertheless,
  and `FailureKeepsRows`, a theorem, says that nothing but such objects is left behind.

Seen while modelling, and part of the models, but without a run of their own:

- A submission from another coroutine, after `_wait_all` returned and before
  `_finalize_wave`, is wiped from the ledger and its slot given away
  (`LiveWithinCap` with `ConcurrentSubmit = TRUE`).
- Each worker keeps its own buckets (`TokenBuckets`), while the documents want
  them shared through the database.
- A wall clock that goes back and recovers grants the same time twice (the
  term `recovered` of `GrantBound`).
- On SQLite, for which FOR UPDATE is left out, two consumes of one token both
  succeed (`ImplementsAtomic` with `RowLock = FALSE`).
- The second of two racing first uses of a key fails with `IntegrityError`
  (`InsertRefused`).
- `RateBucketRepository.consume` reads the clock before it has the lock: the row's
  time can go back, and its refill be repeated (the term `rewound` of `GrantBound`).
- `delete_task` is two transactions: between them, and after a crash between them, the
  rows of a deleted task remain, though its docstring calls them cascaded
  (`DeleteTaskCommit`).
- A runner that raises leaves its row pending for good (`RunRaises`;
  `RunSettlesOrRaises` is what remains true).
- The downgrade from v3 makes up tasks of status `migrated`, one for each result, keyed
  and named by the result's id where its docstring says `task_id` (`FillKey`);
  a real task of that name makes it fail.  A null `task_id` comes
  back as the result's own id, so the round trip is not byte-identical (`Filled`).
- `readyz` answers "ready" where no revision is recorded: in a new file, after a
  downgrade to base, and after a first upgrade that failed halfway, over half a schema
  (`AtHead`, `ProbeTables`).  Its docstring chooses this (`health.py:72-74`), while AC-9.2
  wants the head revision (`SPEC.md:178,181`) and TC-FR09-09 (`04-testing/TEST_PLAN.md:261`)
  a 503 for an empty revision table.  `ReadyServesResults` is what remains true: such a
  file holds no results that the code at head would miss.
- A drain can report the status "drained" with ids whose own timeout killed them, where
  the docstring of `run_until_drained` says that every task finished cleanly
  (`executor.py:220-221`; `ReportTruthful` speaks of each id).
- `/v1/metrics` looks its caller up twice (`Checks`), and a failing lookup makes a
  valid key unknown for that request (`Lookup`).
- `latency_percentiles` names the nearest rank and rounds instead: at 6 samples and 90
  percent it takes the place 4, counted from 0, where the rank is 5 (`PctIndex`).

Seen while reading, below the models' level of detail: nothing ever writes the
status `running`, neither in `task_results` nor in `tasks`; `update_result` stores
`stderr_tail and ""`, which is always empty; the result rows of the API carry
their creation time under the name `XXcreated_atXX`; the tables the migrations
make lack columns of the ORM models; `key_create` from a process of its own writes
to an in-memory database of its own; two threads at the first requests can build an
engine each (`get_engine`).

## 5. Theorems

All are for every value of the constants under the assumptions named in the
modules.  TLC has checked the formulas, and the inductive invariants behind them, on
the instances of the runs.  A theorem named after a property with `Correct`, and
`RowsImplementAtomic`, proves what a run checks (`IsolatedRunStoredCorrect` excepted,
which the `store` run covers by `ImplementsLedger`); the others say what is true of a property
outside the instances it holds for, or what a caller can make of it.

`AsyncExecutorProofs`
- `TypeCorrect`: `TypeOK` is inductive.
- `NoOrphanCorrect`: `NoOrphan` is not inductive.  `OrphanInv` adds that a coroutine
  which has not forked has no process, one that is being killed no live one, and
  that the FIFO holds queued ids only.  Every step that ends a coroutine then
  finds its process dead.
- `DrainedWinsCorrect`, `DroppedIsReportedCorrect`, for any callers: `LedgerInv` says
  that an entry of the ledger agrees with where its coroutine is, so the
  `setdefault` of the deadline cannot cover an outcome a coroutine recorded.
- `CapCorrect`, `TrackedCorrect`, `QuietAfterDrainCorrect`, assuming
  `~ConcurrentSubmit` (section 4 says what happens without it):
  `CapInv` counts the ids of the wave that hold a slot (`SlotInv`: their number is
  at most `_in_flight_count`, which is at most the cap), and ties `_tasks`,
  `_submitted` and the FIFO together (`WaveInv`), so that finalizing finds no
  coroutine left.
- `ReportTruthfulCorrect`, `KeepsContractCorrect`, under the same assumption:
  `ReportInv` adds which coroutines can still run at each stage of a drain
  (`DrainInv`) and what each outcome says of its coroutine (`OutcomeInv`); then
  every step is one of `DrainContract` or changes nothing that it sees.

- `CancelReachesCorrect`, for any callers: whoever a withdrawn drain still awaits was
  told so, or has killed its subprocess.  It is inductive with `TypeOK`, because an id
  comes back only when no drain awaits its previous coroutine.  It is the safety half of
  `CancelUnwinds`.
- `CapUnlessUntracked`, for any callers: `SlotBound` counts what is in `_tasks` against
  the slots that are free, so only a coroutine that was wiped from `_tasks` can
  push the number of subprocesses over the cap.  It is what is left of `LiveWithinCap`
  when submissions race the end of a drain.
- `StarvesOnlyOverCap`, for one caller that is not cancelled: `SlotExact`
  makes the count of `SlotInv` exact (every slot taken was taken for an id of the wave), so a
  `_wait_all` that finds no slot and no task has more ids than slots.  With
  `DrainEndsOrStarves` of `executor_concurrent` it says that a wave within the cap is
  always drained.

`TaskStoreProofs`, for either engine and any number of tasks, runs and names
- `StoreTypeCorrect`, `UniqueNamesCorrect`, `CreatedTaskStoredCorrect`,
  `IsolatedRunStoredCorrect`, `FinishedRunSettledCorrect`, `TerminalIsFinalCorrect`.
  None of them is inductive about `db` alone: whoever commits, commits `work`.
  `StoreInv` says the same of `work`, and what `work` may add to `db` or take from it.
- `DeletedStaysDeletedCorrect`, a property of whole behaviours: `RowGone` describes
  the run and the delete from the moment both are under way, and no step leaves it.
- `StatusFromRunner`: no foreign commit or rollback makes up a status, on either engine.
- `ImplementsLedgerCorrect`: `LedgerInv` adds to `StoreInv` the order in which a client can
  learn of a task and of a run (no task or delete before its create has begun, no trigger for a
  task that never was, no outcome before the acceptance); then each action is one step of
  `RunLedger` or none (`LedgerStep`), and on the shared connection the view never
  changes (`SharedStutters`).

`TaskPagesProofs`, for any tasks, page sizes, length of a day and clock
- `PageTypeCorrect`, `WalkAscendsCorrect`, `SkipsRestOfDayCorrect`: `WalkInv` says that
  the cursor is that of the last task listed, and that each task that was there
  throughout has been listed, was skipped on the day of a cursor, or is still ahead.
  The lemmas on finite sets show that a page is an initial part of what is left.
- `WalkIsBounded`: each page that is followed by another lists something that was not
  listed before (`PageAddsNew`), so the pages are at most one more than the tasks they list,
  also if ids never run out: a client that keeps asking comes to the end.

`MetricsProofs`, for any keys, requests, scopes and number of samples
- `KeyTypeCorrect`, `PrintedKeyStoredCorrect`, `ServedWithinScopeCorrect`,
  `HolderIsServedCorrect`: `KeyInv` describes a key's row by the stage of its creation,
  in `db` and `work`, and what a request may claim at each check.
- `RevokedKeyStaysOutCorrect`: a revoked key (`Locked`) stays revoked in `db` and in `work`.
- `FixedKeysOnly`: what the two scope properties leave open, the requests without an
  issued key.  They are decided by the table of fixed keys alone, also when lookups fail.
- `PercentilesCorrect`: by the arithmetic of `IndexInRange`, `IndexNearRank` and
  `IndexMonotone`.

`MigrationsProofs`, for any texts, tasks, documents and results that fit the columns
- `MigrationTypeCorrect`.
- `SchemaCorrect`: until a command fails, what is there and what is left of the script
  add up to the schema it leads to (`SchemaInv`).
- `ResultsKeptCorrect`: `DataInv` follows the three kinds of script.  Upgrading
  to v3, the copied rows are what the documents hold until those are dropped; downgrading,
  the rows done are documents already (`Filling`); any other script is outside a
  transaction and drops only what it is meant to lose.
- `ReadyServesResultsCorrect`: where `readyz` says ready, no older revision is recorded
  (`ProbeDoes`), so by `SchemaInv` and `DataInv` no document is left, and what `ResultsKept`
  says the file holds is what the code at head is served.
- `FailureKeepsRows`: `StartInv` compares the file with what it was when the command began.
  Statements outside a transaction change objects only, but for the drops a downgrade is
  meant to make; that a table of results is never dropped outside one unless it is
  empty needs `DataInv`.

`TokenBucketsProofs`
- `BucketTypeCorrect`: `TypeOK`.
- `GrantBoundCorrect`: with the potential of a bucket (its tokens, plus what the
  clock can still refill) as part of the invariant, a grant spends what `GrantBound` allows.
- `RetryHonestCorrect`: by what a refill over the announced seconds yields
  (`CeilingSound`, `WaitingRefills`).
- `WindowBound`: `GrantBound` for the time between any two moments.  The potential of the
  first moment (`Spendable`) is at most a full bucket, so a caller cannot save up more than
  a burst, however long it waits.
- `BurstServed`: the converse for a caller: no 429 before `Burst` requests were granted.
  `PaidInv` says that a bucket lacks no more than what was granted from it.

`RateBucketRowsProofs`
- `RowTypeCorrect`: `TypeOK`, with or without row locks.
- `NoLockLeft`, on any database: only a call that has loaded the row holds its lock; the
  safety half of `CallsEnd`.
- `RowBurstServed`, on any database: where updates overwrite each other a row can be
  richer than it should be, never poorer, so nobody is refused before the burst is spent.
- `RowGrantBoundCorrect` and `RowsImplementAtomic`, assuming `Exclusive`: row locks, or a
  single worker, which is safe on SQLite too.  Whoever has loaded a row holds its lock, so the committed row is what was loaded; then
  `Flushed` writes what `Consumed` computed, which is the step of `AtomicBucket`,
  and every other step stutters or ticks.  (There is no `WindowBound` for rows: a reading
  of the clock that waited for the lock sets the row's time back, so a window may be
  refilled by time that passed before it.)

`RefillMathProofs` has the lemmas on refills that both kinds of bucket cite, and
`RefillSplits`: two refills in a row give what one over the whole time gives, so calling
often neither mints nor loses a fraction of a token.

Only model-checked: the liveness properties (`CancelUnwinds`, `DrainEndsOrStarves`,
`RunSettlesOrRaises`, `CallsEnd`), since temporal properties under fairness are out of
the prover's reach, and the four counterexamples.  `CancelReaches`, `StarvesOnlyOverCap`,
`FinishedRunSettled`, `NoLockLeft` and `WalkIsBounded` are the parts of them that safety can say.  Every other property of a
passing run is a theorem; those of the executor that need a single caller say so.

## 6. Not modelled

- Problem documents, correlation ids, schemas, redaction, settings and path helpers:
  formatting and validation, with no state beyond a request.
- `healthz`, which has no state; the counter of rejections in the metrics, one
  increment each; the counts by status, since no code changes a status.
- `unit_of_work` and `create_task_result`, which nothing calls; the race for the
  first use of `get_engine` (section 4).
- `env.py`'s logging and the offline SQL path; columns of results other than the ids.
- Within the executor: an id submitted twice in one wave (the callers in the tests draw
  fresh ids, and a model would need an identity of coroutines besides the id), and two
  drains at a time.
- Errors of the database other than those named; the rounding of floats; the growth of
  the middleware's dict, in which no behaviour depends on its size.
- Crashes: a worker's crash is `Fail` in `RateBucketRows` and in `Migrations`; the other
  components keep nothing over a restart, since the engine the code builds is in memory.

## 7. Plan

What could be added, were the code to grow into it:

1. The background body and the executor together, once the application dispatches
   its runs through `AsyncExecutor`; the rate-limit rows behind the middleware likewise.
2. A crash of the worker between the 202 and the end of the run, once an engine
   that persists is configured and something picks pending rows up.
3. An identity of coroutines besides the id, which would let the theorems on concurrent
   submissions speak of an id submitted twice in one wave.
