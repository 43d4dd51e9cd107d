# pg_task_scheduler: a verification project

TLA+ models of the durable task queue, the recurring schedules, the worker
runtime, its connections, the values of the rows and the read and HTTP side of
`pg_task_scheduler`, checked with TLC on small instances. Their safety properties are
proved with TLAPS for every value of the constants, for the queue up to the abstract
specification it implements. Paths are relative to the directory that holds the
repository as `src/`.

## 1. The system

`pg_task_scheduler` is a task queue on PostgreSQL. Producers insert tasks
inside their own transactions. Any number of scheduler instances claim tasks
under a lease, run handlers, renew the lease while a handler runs, and record
the result. Recurring schedules are turned into tasks by a materializer in every
instance. There is no leader: the instances meet only in the database.

| Part | State | Operations that change it | Source |
| --- | --- | --- | --- |
| Task queue store | `scheduler_runs`, `scheduler_run_attempts` | `claim_batch`, `finalize_run`, `fail_run`, `renew_lease`, `recover_expired` | `src/src/store/{claim,finalize,reap}.rs` |
| Producers, administration | the same tables | `enqueue`, `cancel`, `prune_terminal` | `src/src/queue.rs` |
| Recurring schedules | `scheduler_jobs` | `create`, `ensure_job`, `reschedule`, `pause`, `resume`, `delete` | `src/src/jobs.rs` |
| Materializer | cursor of `scheduler_jobs`, rows of `scheduler_runs` | `materialize_due_jobs` | `src/src/store/materialize.rs` |
| Cron expressions | none | parse, `next_after` | `src/src/cron.rs` |
| Worker runtime | permits, handler set, deadline per handler, health | `run_until_shutdown`, `claim_and_dispatch`, `dispatch`, `finalize_handler` | `src/src/runtime/worker.rs` |
| Builder, registry | configuration before the start | `register`, `build` | `src/src/runtime/{builder,registry}.rs` |
| Domain types, identifiers | none | validating constructors | `src/src/models.rs`, `src/src/ids.rs` |
| Inspection, admin router | none | read-only queries, HTTP routes over the job API | `src/src/store/inspect.rs`, `src/src/admin.rs` |
| Schema | CHECK constraints, unique indexes, cascade | migration | `src/migrations/0001_create_scheduler_tables/up.sql` |
| Connection pool adapter | connections of the application's pool | `acquire`, drop | `src/src/pool.rs` |
| Errors, metrics, crate root | counters | `incr` | `src/src/error.rs`, `metrics.rs`, `lib.rs` |

Interaction. All instances share the tables; row locks and the lease token
(`gen_random_uuid` of each claim) are the only coordination. A producer's
transaction overlaps everything else for as long as its caller likes. The
materializer inserts tasks that the queue then treats like any other. A handler
talks to the store only through renewals (every third of the lease) and one
final write; between them its only knowledge is the deadline it was told last.

What is hard here:

- statements of different sessions interleave at READ COMMITTED: a statement
  reads a snapshot, may wait for a lock, and goes on with the latest row but the
  old snapshot for everything else;
- each transition is written to two tables, which must agree for ever;
- leases expire by the clock of the database while a worker, stalled or cut off,
  still believes it owns the task;
- cursors are computed from the start time of a transaction and written later;
- an instance may die between any two statements;
- batches are bounded, ordered, and skip what is locked;
- one statement reads the clock several times, in the order of the columns;
- the answer of what was committed may be lost;
- an await inside a branch of `select!` suspends everything else of that task,
  so who waits for a connection decides who is polled;
- constructors, CHECK constraints and the conversions back each define what a
  valid value is, and a sum of clock and duration has a range of its own;
- a client that reads twice puts together two moments.

What makes each part correct:

- store: at most one current owner of a task; an attempt is recorded for each
  claim and closed exactly once; the budget of attempts is kept; terminal is
  final; the rows keep the CHECK constraints, and only a claim of a lease too short
  for it is refused by one; a lost token is lost for ever;
- cancel: its answer is true; retention and recovery never take what is held;
- schedules: a slot is materialized at most once and not skipped, a paused
  schedule stays quiet, one bad schedule does not hold up the others;
- runtime: no more handlers than permits, a handler stops when its lease is
  lost, a task of a dead instance runs again, a due task is claimed, connections
  go back to the pool, shutdown ends;
- values: what a constructor accepts is stored, and reads back as it was asked for;
- read side: what a client was told stays true, and an answer means what its
  caller concludes from it.

## 2. The modules

### TaskStore

The queue, one action per committed statement or transaction.

| Variable | Code |
| --- | --- |
| `runs` | rows of `scheduler_runs` by id. `options` holds the columns that never change; `worker_id` is set and cleared together with `lease_token` and is represented by it |
| `attempts` | rows of `scheduler_run_attempts` by lease token; outcome `"open"` is SQL NULL |
| `issued`, `spent` | tokens and ids that were used once: `gen_random_uuid` repeats none |
| `tx` | the open producer transaction that inserted a row or hit it through its deduplication key, and since when it holds it |
| `cancel` | where a call of `cancel` stands, with the snapshot its statement started with, and its answer |
| `now` | `clock_timestamp()`, in whole ticks, the unit of leases and backoffs |

| Action | Code |
| --- | --- |
| `EnqueueInsert`, `EnqueueDuplicate` | `enqueue`: the insert, or the `DO UPDATE` that locks the existing row |
| `ProducerCommit`, `RollbackInsert`, `RollbackDuplicate` | the end of the caller's transaction. An enqueue outside a transaction commits at once. The insert of the materializer is, for this module, an `EnqueueInsert` with an explicit start and no key |
| `ClaimBatch` | `CLAIM_BATCH`: eligibility, order by priority and availability, limit, SKIP LOCKED, lease and attempt in one statement. `claim_one` is the limit 1. |
| `DirectWrite` of `finalize_run`, `fail_run`, `renew_lease` | the three fenced writes. When `Owns` fails the code returns `Fenced` or `AlreadyTerminal` and changes nothing; when `HasOpenAttempt` fails it rolls back |
| `DelayedWrite` | the same writes when they waited for the row lock of a producer that rolled back: they keep the clock they read before |
| `recover_expired` | `RECOVER`: requeue or fail, and close the attempt |
| `CancelStart`, `CancelLock`, `CancelMiss`, `CancelProbe`, `CancelError` | `cancel`: the snapshot of `CANCEL`, the locked row that is changed or not, the `EXISTS` query, a database error. A cancellation whose answer is lost is a `CancelLock` that nobody is told of |
| `prune_terminal` | `PRUNE`, with ON DELETE CASCADE |
| `Tick` | time |

`busy` in the batch actions is any set of rows that some other statement has
locked at that instant and SKIP LOCKED passes over. A write that waits for a
lock whose holder commits a change has its predicate evaluated again on the new
row; that is the same as running it afterwards, so it needs no action. `RECOVER`
has the same snapshot as `CANCEL`: an attempt its snapshot cannot see leaves the
task for the next pass, which is a step that changes nothing.

A sum of an instant and a duration that is past `LastInstant`, the largest
`timestamptz`, aborts the statement (`InRange`): a claim of such a lease fails for
its whole batch (`ClaimAborts`), a renewal or retry for its task.

`CLAIM_BATCH` calls `clock_timestamp()` once for each column, and PostgreSQL computes
the columns of an UPDATE in the order of the table: `lease_expires_at`
(`up.sql:65`) before `started_at` (`up.sql:66`). A claim therefore counts each lease
from some clock that is at most `ClaimGap` before the one it starts with, and if the
lease then does not end after `started_at`, the CHECK constraint (`up.sql:117`) fails
the whole batch (`LeaseAccepted`, `ClaimAborts`). `ClaimGap` bounds what the code leaves
to the speed of the server; the theorems hold for every value of it.

### TaskLifecycle, TaskStoreRefinement

`TaskLifecycle` is the abstract promise, without tables, attempts, leases and
clocks: a task is absent, waiting, owned, ended in one of three ways, or gone;
`Submit`, `Own`, `Release`, `Withdraw`, `Forget` are its steps. An owner is fresh each
time, owners are counted against the budget, and a task whose budget is used up
cannot go back to waiting. `TaskStoreRefinement` maps the store to it: a task
exists once its producer has committed, a lease is an ownership with the token as
its owner, and it lasts until a statement ends it, expired or not.

### Schedules

The table `scheduler_jobs`, the job API and the materializers.

| Variable | Code |
| --- | --- |
| `jobs`, `deleted` | rows of `scheduler_jobs`; ids that are gone |
| `occurrences` | rows of `scheduler_runs` with a `job_id`, as `<<job_id, scheduled_for>>` (what the unique index is over) |
| `mat` | per instance: transaction under way, its `now()`, the locked job, jobs processed in this pass |
| `call` | per caller: the transaction of `create`, `ensure_job` or a reset that has read `now()` and not yet written |
| `events` | counts API calls, damage and lost passes, for the bound `MaxEvents` |
| `rescheduled` | auxiliary: jobs whose cursor a caller has moved |

`PassStart`, `SelectDue`, `PassIdle`, `Materialize`, `NextAfterFails`,
`PauseCorrupt` are the steps of `materialize_due_jobs`, `PassLost` is the death
of the instance or of its connection in the middle (the transaction rolls back).
`Begin` then `Insert`, `EnsureExisting`, `ResetFromNow` or `CallFails` are the
API operations that read the clock first, of which `CallFails` is the one that rolls
back; `SetNextRunAt`, `set_paused` and `Delete` are single statements. The locks of the
API are held for one step, so `SelectDue` passes over any set of rows (`busy`), and
`PassIdle` may find nothing. `Corrupt` is damage to a stored expression, which
`materialize.rs` handles. `Parses` and `NextAfter` stand for croner, external to the
repository; the assumption on them is what `next_after` promises: strictly later, or
an error.

### WorkerRuntime

The scheduler instances, composed with the queue: the module extends `TaskStore`,
adds the state of the instances to its tables and uses its actions for everything
an instance does to them. `StoreSpec` is the specification of the queue alone.

| Variable | Code |
| --- | --- |
| `loop` | `run_until_shutdown` of an instance: in `select!`, waiting for recovery's answer, in `claim_batch` with the `limit` it read, draining, stopped or dead; and its `WorkerHealth` |
| `handlers` | dispatched tasks by lease token: `running` (the handler is polled), `renewing` (the heartbeat is, the handler is not), `finishing`, and `sent`: the client is gone and the server may still execute its last statement |
| `ended` | instances with a handler that has ended and is not joined |
| `returned` | auxiliary: what the handler of a token returned |
| `faults` | counts failed calls, lost answers, panics and crashes, for the bound `MaxFaults` |

| Action | Code |
| --- | --- |
| `Poll`, `Joined` | the poll tick with `materialize`, which fails for ever when `Poisoned`; a handler was joined |
| `Recover`, `RecoverNothing`, then `AfterRecovery` | the recovery tick, after which the loop claims |
| `TickFails` | an error of either tick: nothing is claimed in that cycle |
| `ClaimAndDispatch`, `ClaimNothing`, `ClaimFails`, `ClaimLost` | `claim_and_dispatch` after its permits were read: tasks are spawned, none were free, an error, an error after the commit |
| `HandlerReturns`, `HandlerPanics` | the handler future ends, or its task unwinds |
| `Heartbeat`, then `Renewed`, `RenewalFenced`, `RenewalFails`, `RenewalLost` | the second branch of `dispatch`, with the comparison of deadline and host clock (`GoOn`) where the code makes it |
| `Finalize`, `FinalizeFenced`, `FinalizeFails` | `finalize_handler`: one try |
| `Shutdown`, `Stop` | the cancelled token ends the loop; the drain ends or times out and the rest is aborted |
| `Crash`, `SentExecuted`, `SentLost` | the process dies; what was sent is executed or not |
| `Others` | producers, cancellation and retention, as in `TaskStore` |

The permits are those not held by a live handler, since each dispatch holds one
for its life. The host clock of an instance is the clock of the database plus
`Ahead`. The interval of polls, recoveries and heartbeats is any time: no
property may depend on it. A heartbeat that failed and whose statement is executed
only after the handler went on is not represented: it would renew the row to a later
deadline than the handler knows, which `RenewalLost` already does.

### ConnectionPool

How one instance uses the pool the application gave it: who holds a connection
(`held`), who waits for one (`waiting`), and who waits `ahead` of whom, first come first
served. `setup` is what the application has
chosen, and does not change: which handlers take connections from the same pool,
and whether `acquire` fails after a while.

| Action | Code |
| --- | --- |
| `TickBegins`, `TickEnds`, `ClaimBegins`, `ClaimEnds`, `LoopTimesOut` | the loop awaits a connection, outside of `select!`, uses it and drops it, or gets the error of the pool |
| `Heartbeat`, `RenewalGoesOn`, `RenewalGivesUp` | the heartbeat awaits a connection while the handler is not polled |
| `Returns`, `Finalized`, `Panics` | the handler ends and `finalize_handler` takes a connection |
| `UseBegins`, `UseEnds` | the handler itself, only while it is polled |
| `Shutdown`, `DrainBegins`, `Stop` | the token, the drain, the abort that drops what the rest holds or waits for |

It is apart from `WorkerRuntime` because it asks another question: there every
call ends, here calls wait for each other. Statements are instantaneous once they
have a connection and tasks are only handlers that may start.

### RowValues

One row, from what a caller asks for through the constructors
(`validate_identifier`, `MaxAttempts`, `RetryBackoff`, `LeaseDuration`), the columns
(`to_pg_interval`), the CHECK constraints, the copy of a job into a run
(`materialize`) and the conversions that read it back (`Job`, `ClaimedRun`), with any
edit in SQL that the constraints allow in between. The widths of the integers and
the units of time are constants. A text is its length, the kind of whitespace
around it and whether it has a NUL; an interval has months, days and
microseconds, as in PostgreSQL.

### TaskRoutes, JobRoutes

`TaskRoutes` adds a client to `TaskStore`: `task_state`, `task_attempts` and
`cancel_task` of `inspect.rs` and `admin.rs`, with `told`, what it was told last about
each task. `JobRoutes` adds the answers of the job API and of the `/jobs` routes to
`Schedules`: `reply` is the answer of the last step. The conversion into a `Job`
happens after the commit there, as in the code, so an answer and an effect can
disagree; and each operation that has committed may answer with a database error
instead (`AnsweredOrLost`), because its connection is lost before the answer
(`docs/Concurrency.md:169`). `failed` and `unavailable` are the errors without an effect. A
statement that the server executes only after its client was told is an error
without an effect, followed by a call with one whose answer is lost.

### Other modules

The modules `MC...` give the constants of the runs their values. The modules
`...Proofs` hold the lemmas and theorems about the module they are named after:
`TaskStoreProofs`, `TaskStoreRefinementProofs`, `SchedulesProofs`, `JobRoutesProofs`,
`WorkerRuntimeProofs`, `TaskRoutesProofs`, `RowValuesProofs`, `ConnectionPoolProofs`. The
inductive invariants they use (`StoreInv`, `ScheduleInv`, `RuntimeInv`, `RouteInv`,
`RowInv`, `PoolInv`) are defined in the modules themselves, where TLC can evaluate them.

A definition that stands immediately before a mapped one, takes the same
parameters and is used nowhere is a plausible bug of that code
(`AttemptsLeftOffByOne`, `LapsedEarly`, `NeverLocked` ...). Put in the place of
its neighbour it must make a named property fail; `mutants` in `PROJECT.json`
says which.

## 3. The runs

| Run | Expected | Shows |
| --- | --- | --- |
| `lifecycle` | pass | `TypeOK`, `RowChecks`, `AttemptLedger`, `LeaseExclusive`, `FencedForever`, `LifecycleSpec` |
| `watching` | pass | `LiveAttempt`, `ProducerRows`, `CancelTruthful`, `TerminalIsFinal`, `HistoryAppendOnly`, `ToldStaysTrue`, `HistoryExplains` |
| `cancel_race` | violation | `AlreadyTerminalIsTerminal` (finding 1) |
| `late_completion` | violation | `CompletedUnderLease` (finding 2) |
| `answers` | pass | `TypeOK`, `HeldJobStays`, `CursorAhead`, `CursorInvariant`, `PausedIsQuiet`, `ErrorsTellWhatChanged`, `DeletedIsGone` |
| `served` | pass | `ServedUnlessPoisoned`, `CorruptIsPaused` |
| `poison` | violation | `DueJobsServed` when damage leaves an expression that parses and never fires (finding 3) |
| `takeover` | pass | `OutcomeEarned`, `LocalDeadline`, `OverlapAfterExpiry`, `StoppedIsQuiet`, `StoreSpec` |
| `recovery` | pass | `LeaseLossNoticed`, `OrphansRecovered` |
| `progress` | pass | `RuntimeTypeOK`, `Capacity`, `ClaimableIsClaimed`, `LeaseLossNoticed` |
| `pool` | pass | `ConnectionsReturned`, `WaitersServed`, `ShutdownEnds` |
| `boundaries` | pass | `ConstraintsNeverRefuse`, `ReadsBackAsAsked`, `OnlyCronCorrupts`, `HeartbeatInsideLease` |

The properties:

- `RowChecks`: the rows satisfy the CHECK constraints of `scheduler_runs` on states,
  attempts and leases. Only the claim of a lease that is over before it has started
  is aborted by one; no other transition, renewals and retries that waited included,
  runs into any;
- `LiveAttempt`: a running task has exactly one open attempt, with its token,
  number and deadline. The errors `... did not have one live attempt` of
  `finalize.rs` are unreachable, and recovery can always free a task;
- `AttemptLedger`: the attempts of a task are numbered `1 .. attempt_count`, all
  but the last failed or expired, and the last fits the state of the task;
- `LeaseExclusive`: an attempt whose recorded deadline lies ahead, and that its
  worker or a cancellation did not close, is still the lease of its task;
- `FencedForever`: a token that is not a current lease never becomes one again;
- `TerminalIsFinal`, `HistoryAppendOnly`: what has ended is only ever deleted;
- `ProducerRows`: a row held by an open producer transaction stays, and an
  uncommitted task is untouched;
- `CancelTruthful`: `Cancelled` and `NotFound` are true when they are said;
- `HeldJobStays`: what a materializer read under its lock stays so till it commits;
- `CursorAhead`: no slot is materialized twice, even without the unique index;
- `CursorInvariant`: only the materializer, with the run of that slot, or an
  explicit reschedule moves a cursor past a due slot;
- `PausedIsQuiet`: a paused schedule makes no task and only `resume` ends that;
- `ServedUnlessPoisoned`: every due schedule is eventually served, unless a due
  row whose expression parses and never fires again is there (`DueJobsServed`
  makes no exception);
- `CorruptIsPaused`: a due job whose expression does not parse is paused, unless a
  caller deletes, moves or redeploys it first, or a poisoned row ends the passes;
- `ErrorsTellWhatChanged`: what each error leaves open. `NotFound` has changed
  nothing; `CorruptJob` is answered only for an expression that does not parse, and has
  changed nothing, except that `SetNextRunAt` has moved the cursor; a database error
  may or may not have taken effect, but touches one job at most and of that only what
  the operation is for: a failed redeploy has not moved a cursor or resumed a job;
- `DeletedIsGone`: a deleted job is gone for calls that began before, for
  materializers and for readers;
- `LifecycleSpec`: the store implements `TaskLifecycle`;
- `ToldStaysTrue`: a task a client has read does not vanish except by retention,
  and a final state it has read is final;
- `HistoryExplains`: the attempts read after a final state, from another table
  and at another moment, explain it;
- `Capacity`: no more handlers than permits, and while a claim is awaited its limit,
  read before, fits beside the handlers that go on;
- `OutcomeEarned`: an attempt is completed or failed only with what its own
  handler returned, whatever crashes, aborts or executes late;
- `LocalDeadline`: a handler never believes in a later deadline than the store;
- `OverlapAfterExpiry`: two handlers of a task overlap only after the lease of
  the older one expired;
- `StoppedIsQuiet`: a stopped instance has no handler left;
- `StoreSpec`: the runtime, crashes and late statements included, implements
  `TaskStore`, so what is proved of the store holds of the composition;
- `LeaseLossNoticed`: a handler whose lease is lost is stopped;
- `OrphansRecovered`: a task without a handler does not stay running after its
  lease has expired;
- `ClaimableIsClaimed`: a due task is claimed, unless handlers occupy every permit
  of the instances that serve it, or a due task is there whose lease ends past the
  largest `timestamptz` or is no longer than a claim takes;
- `ConnectionsReturned`: the runtime holds or awaits a connection only while it
  has a statement to run, and an abort returns everything;
- `WaitersServed`, `ShutdownEnds`: no wait of the runtime for a connection lasts for
  ever, and shutdown ends, unless the pool is `Wedged`: it has no timeout, and every
  connection belongs to a handler whose own heartbeat waits for one;
- `ConstraintsNeverRefuse`: no CHECK constraint refuses what the constructors
  accepted, or the run of a stored job;
- `ReadsBackAsAsked`: what is stored is exactly what was asked for;
- `OnlyCronCorrupts`: no edit in SQL that passes the constraints makes a row
  corrupt, except in a cron expression;
- `HeartbeatInsideLease`: the period of the heartbeat is positive and shorter than the
  lease. It does not say that a renewal comes in time: the sleep that waits for it
  (`worker.rs:242`) counts in whole milliseconds, rounded up, so that a lease below
  one millisecond has always ended by its first heartbeat.

Three of them have exceptions, and the exceptions are exact: without them TLC
finds the behaviour described under "Observations" below.

Bounds, and why they are enough:

- `lifecycle`: two tasks of different name, priority, budget (2 and 1), lease
  (2 and 1 ticks) and backoff, one kind behind a deduplication key, four tokens,
  five instants. Both tasks can use all attempts; retry, expiry before and at the
  deadline, renewal, a second claim by another worker while the first still holds
  the old token, pruning, reuse of a key, and batches of one and two all happen.
  A claim counts its lease from now or from one tick before, so a lease of one tick
  may be refused. No cancellation, so that the clock can run.
- `watching`: one task of two attempts behind a key, lease of two ticks, five
  instants, one client: a claim inside a cancel, a renewal that moves the deadline,
  a delayed write after expiry, a second attempt and retention, each between two
  reads. Tasks do not interact except through keys and batches, which are in
  `lifecycle`.
- `cancel_race`, `late_completion`: one key, two ids, two tokens, four instants.
- `answers`: two materializers and one caller, two names and two ids, an
  expression that fires each tick, one that never fires and one that does not
  parse, three instants, three events, passes of two.
- `served`, `poison`: one materializer and two jobs with different names, so
  that one can stand in the way of the other.
- `takeover`: two instances with one permit each, one task of two attempts, one
  fault and any shutdowns, four instants, host clocks one tick ahead, so that a
  deadline taken from the wrong clock shows. The second attempt overlaps the
  first handler in it, also on one instance.
- `recovery`: two instances, of which the first may crash or be shut down, with
  clocks behind by more than the run lasts, so that only the fence can stop a
  handler; a task without a second attempt, or with a backoff that is out of
  range, so that its retry cannot be recorded.
- `progress`: one instance with two permits and two tasks of one attempt, of which one
  may be cancelled, with an ordinary lease or an urgent one that is out of range, and a
  materialization that always fails. A handler runs on or ends while the loop waits
  to claim with the other permit, so the number of free permits changes between its
  reading and its use (`Capacity`). With as many permits as tasks a full instance is
  hardly an excuse for `ClaimableIsClaimed`. The clock stands: the handler of a cancelled
  task must be stopped without a lease expiring, which `recovery` shows for one that
  expired, and a claim is not refused for a short lease, which happens in `lifecycle`
  and `recovery`. Three handlers at once need a third task; that
  they do not exceed two permits is left to `PermitsSuffice`.
- `pool`: two connections and three handlers; none, one, or as many of them as
  there are connections use the pool, with and without timeouts.
- `boundaries`: identifiers of up to two characters, integers up to two,
  microseconds of four nanoseconds, seconds of two microseconds, days of four:
  both sides of each bound and of each division by three are reached.

Ids, names, tokens and instances are interchangeable model values, so the safety
runs use their permutations as symmetry (none of them checks liveness). The bounds on
the clock (`MaxTime`), events (`MaxEvents`) and faults (`MaxFaults`) end every behaviour, therefore
`CHECK_DEADLOCK FALSE`.

Fairness is assumed in five runs. `served` and `poison`: weak fairness of
`MaterializerStep` of each instance, and strong fairness of its `SelectAmong` with
nothing locked by the job API: those locks are as short as a statement, and a
`SELECT_DUE` that is repeated for ever does not meet them each time.
`run_until_shutdown` awaits `poll.tick()` again and again, each tick starts a pass, and
a pass that has begun a transaction goes on with it. Nothing is assumed of callers, of damage, of
retention or of time. `PassLost` is not fair either, and `MaxEvents` keeps it
from happening for ever.

`recovery` (`FairSpec` of `WorkerRuntime`): weak fairness of time, of `LoopStep` of
each instance (the loop cycles until it is cancelled, and every await in it ends),
and of what the runtime does with a dispatched task (`DispatchStep`: timers fire,
calls to the database end). Strong fairness of `Recover`: the loop returns to
`select!` again and again, the recovery interval stays ready until it is taken, and
`select!` picks among ready branches at random, so it is not passed over for
ever. Nothing is assumed of handlers (one may hang for ever), producers,
cancellations, crashes or late statements.

`progress` (`ClaimingSpec`) adds strong fairness of the recovery tick when it finds
nothing, for the same reason, and of a claim that others are not in the way of:
SKIP LOCKED passes over rows that are locked at that instant, and no transaction
of the crate holds a pending row for ever.

`pool`: weak fairness of `LoopStep`, of heartbeat timers and of what the runtime
does once it has its connection or its error; strong fairness of the shutdown
branch of `select!`, and of a handler returning its connection while it is polled.
A handler that keeps a connection for ever is the application's leak.

### Findings

1. `cancel_race`. A claim commits between the snapshot of `CANCEL` and its row
   lock. The statement then sees the running row, which `FOR UPDATE` follows to
   its latest version, and does not see the attempt, which is newer than the
   snapshot. Nothing is changed, the `EXISTS` query finds the task, and `cancel`
   answers `AlreadyTerminal` while the task runs on. The comment at
   `src/src/queue.rs:212` promises that pending or running work is cancelled.
2. `late_completion`. A completion evaluates `lease_expires_at > clock_timestamp()`,
   waits for a producer whose deduplicated enqueue has locked the row, and is
   applied when that producer rolls back, although the lease expired meanwhile.
   `src/docs/Concurrency.md:52` says the predicate is checked again after a wait.
   It is, but only when the row was changed. Exclusiveness is not lost
   (`LeaseExclusive` and `LiveAttempt` hold with this step).
3. `poison`. `materialize_one` pauses a job whose expression does not parse, and
   fails with `?` on one that parses and has no next occurrence. Such a row
   keeps the oldest cursor, so every pass fails on it and the schedules behind
   it are never materialized, against `src/src/store/materialize.rs:54`.

### Observations

Consequences of the code that the exceptions in the properties describe, and that
no statement of the documentation contradicts word by word:

- The heartbeat awaits `pool.acquire()` inside its branch of `select!`
  (`src/src/runtime/worker.rs:243`), so the handler is not polled meanwhile. Handlers
  that share a pool without timeouts can therefore all be suspended by their own
  heartbeats with every connection among them. A loop that then awaits a
  connection, in `claim_and_dispatch`, `materialize` or `recover_leases`, does not see
  the shutdown token and `shutdown_timeout` never starts (`Wedged`). One
  connection more than handlers that share the pool, or a timeout, excludes it.
- A lease of about a microsecond is accepted everywhere too, and its claim may fail
  the batch: the deadline is computed from the clock before `started_at` is
  (`src/src/store/claim.rs:49`), and the CHECK constraint compares the two. If it is
  claimed, it has ended before its first heartbeat.
- A lease within about a thousandth of `i64::MAX` microseconds is accepted
  everywhere, and its claim is out of the range of `timestamptz`: it fails the
  batch it is in (`src/src/store/claim.rs:50`), and with it the tasks behind it.
- A schedule that fails every materialization keeps poll ticks from claiming
  (`src/src/runtime/worker.rs:80`); tasks are then claimed after recovery ticks and
  joined handlers only, which is enough for `ClaimableIsClaimed`.
- After a heartbeat, `dispatch` compares the clock of the host with the deadline
  of the database even when the renewal succeeded (`worker.rs:266`). A host whose
  clock is ahead by the lease or more drops each handler at its first heartbeat.
- `reschedule` with `SetNextRunAt` on a job whose stored expression is corrupt
  commits and then answers with an error (`src/src/jobs.rs:211`).
- A reset computes its cursor from the start of its transaction. If it has waited for
  a materializer, the cursor may stand again on a slot that has its run; the unique
  index under `ON CONFLICT DO NOTHING` keeps the slot from a second one, for as long as
  retention keeps the first. `CursorAhead` exempts jobs that were rescheduled.

## 4. The proofs

`TaskStoreProofs` proves, for any sets of ids, tokens, names, keys, options,
start times and limits, and without bounds on the clock:

| Theorem | Statement |
| --- | --- |
| `TypeCorrect` | `Spec => []TypeOK` |
| `StoreInvariant` | `Spec => []StoreInv` |
| `RowsKeepTheirChecks` | `Spec => []RowChecks` |
| `RunningHasLiveAttempt` | `Spec => []LiveAttempt` |
| `HistoryIsComplete` | `Spec => []AttemptLedger` |
| `ProducersKeepTheirRows` | `Spec => []ProducerRows` |
| `LeaseIsExclusive` | `Spec => []LeaseExclusive` |
| `TerminalStaysFinal` | `Spec => TerminalIsFinal` |
| `LostTokensStayLost` | `Spec => FencedForever` |
| `HistoryStays` | `Spec => HistoryAppendOnly` |
| `CancelAnswersTruly` | `Spec => []CancelTruthful` |

`TaskStoreRefinementProofs` proves, under the same assumptions,

| Theorem | Statement |
| --- | --- |
| `StoreImplementsLifecycle` | `Spec => LifecycleSpec` |

Assumptions: those named in `TaskStore`: options have a positive budget and
lease (the constructors of `models.rs` enforce it), start times are instants,
limits are positive (`NonZeroUsize`), `Null` is not a value. TLC evaluates them
in every run.

The argument. No property is inductive alone, so the theorems rest on one
invariant,

    StoreInv == TypeOK /\ RowStates /\ LiveAttempt /\ AttemptLedger
                /\ ProducerRows /\ ExpiredIsPast

- a claim keeps the budget because a pending row has attempts left (`RowStates`);
- it numbers its attempt uniquely because the numbers on record are exactly
  those up to `attempt_count` (`AttemptLedger`);
- a write of a worker finds the attempt it must close, and no other open attempt
  of that task is left behind, by `LiveAttempt`;
- a rollback removes a row without orphaned attempts because an uncommitted task
  has none (`ProducerRows` and `AttemptLedger`);
- recovery closes only attempts whose own recorded deadline has passed because
  both tables carry the same deadline (`LiveAttempt`), which is `ExpiredIsPast`,
  and `LeaseExclusive` follows from it.

The proof has one lemma per action (`EnqueueInv`, `ProducerInv`, `ClaimInv`,
`WriteInv`, `RenewInv`, `RecoverInv`, `CancelInv`, `PruneInv`), over common
lemmas for what transitions have in common: rows that leave `running` with their
attempts closed (`CloseStep`), rows that disappear (`RemoveStep`), rows replaced
without an attempt (`ReplaceStep`), tables that stay (`FrameStep`).

`RowChecks` adds `LeaseAfterStart` to `RowStates`, and needs a second invariant on top of
the first, `StartedBefore`: a renewal that waited for a producer keeps the clock it read
before, so its deadline lies after `started_at` only because the attempt started
before the producer came (`StartStep`, from `LeasesStep`, which says how a step may
write a lease).

The action properties follow from `StoreInv` and two lemmas on what a step can
do to a row (`RowsStep`: rows that change were pending or running, and start
running only under a fresh token) and to an attempt (`AttemptsStep`: only open
ones change). `CancelTruthful` is inductive together with `SnapshotKept`: the
row a call of `cancel` saw in its snapshot is still committed or was deleted.

The refinement (`LifecycleStep`) has one lemma per group of actions: producers
(`ProducerStep`: a commit submits, a rollback of what nobody saw forgets it), claims
(`OwnStep`), writes of workers (`WriteStep`: completion, failure and requeue release,
a renewal stutters), `RecoveryStep`, `CancellationStep` and `RetentionStep`. It needs
`StoreInv`: that an owner is fresh and the budget kept follows from `RowStates`, that
only an ended task is forgotten from `ProducerRows`; and `SpentStep`, that an id once
used up never names a row again.

### The runtime

`WorkerRuntimeProofs` proves, for any number of instances, permits, host clocks and
faults:

| Theorem | Statement |
| --- | --- |
| `RuntimeInvariant` | `RuntimeSpec => []RuntimeInv` |
| `RuntimeImplementsStore` | `RuntimeSpec => StoreSpec` |
| `RuntimeTyped` | `RuntimeSpec => []RuntimeTypeOK` |
| `PermitsSuffice` | `RuntimeSpec => []Capacity` |
| `OutcomesAreEarned` | `RuntimeSpec => []OutcomeEarned` |
| `DeadlinesAreStored` | `RuntimeSpec => []LocalDeadline` |
| `StoppedStaysQuiet` | `RuntimeSpec => []StoppedIsQuiet` |
| `OverlapsOnlyAfterExpiry` | `RuntimeSpec => []OverlapAfterExpiry` |

With `RuntimeImplementsStore` every theorem about `TaskStore`, `StoreImplementsLifecycle`
included, is one about a deployment. Its proof (`StepComposes`) shows each step of an
instance to be a step of the store or to leave the tables alone. A claim is one of
the store's because the permits that limit it are positive (`LoopPhases`) and within
`Limits`; a write that was sent before a crash and is executed after it is a
`DirectWrite` or a `DelayedWrite`, because a statement cannot have read a clock before
its row was locked (`TxClock`).

The promises need more than that, and `RuntimeInv` says what:

- `LocalDeadline` fails if a renewal can shorten a lease, and a renewal that waited
  keeps the clock it read before. `LeaseClock` rules it out: while a producer has
  held the row, its lease does not reach further than a full one from the moment
  the producer came;
- `OutcomeEarned` and `OverlapAfterExpiry` need `WritesEarned`: a dispatched task
  carries what its own handler returned, and its attempt is not completed or failed
  as long as it is there. Two handlers of a task have two attempts, the older of
  which is failed or expired by `AttemptLedger`; it is not failed, so it expired, and
  `ExpiredIsPast` dates it;
- `Capacity` counts: the permits read before a claim was awaited are still free when
  it answers, since only the loop takes permits; the batch is no larger than them,
  and its tokens are fresh (`FiniteWork`, `ClaimedWithinLimit`).

Assumptions: `RuntimeAssumption` (a positive `max_concurrency`, an integer clock offset
per instance, names an instance claims with) besides those of `TaskStore`.

### The schedules

`SchedulesProofs` and `JobRoutesProofs` prove, for any number of jobs, callers and
instances and any expressions:

| Theorem | Statement |
| --- | --- |
| `ScheduleInvariant` | `Spec => []ScheduleInv` |
| `KeysStayUnique` | `Spec => []UniqueKeys` |
| `SchedulesTyped` | `Spec => []TypeOK` |
| `HeldJobsStay` | `Spec => []HeldJobStays` |
| `CursorsAhead` | `Spec => []CursorAhead` |
| `CursorsMoveProperly` | `Spec => CursorInvariant` |
| `PausedJobsStayQuiet` | `Spec => PausedIsQuiet` |
| `RoutesImplementSchedules` | `RouteSpec => Spec` |
| `ErrorsAreExact` | `RouteSpec => ErrorsTellWhatChanged` |
| `DeletedJobsAreGone` | `RouteSpec => DeletedIsGone` |

Of croner only `NextAfterAssumption` is assumed: the next occurrence is strictly later,
or there is none. `CursorAhead` is not inductive: the cursor a materializer
writes is the next occurrence after its transaction's `now()`, and lies after the slot
it has materialized only because the slot was due at that `now()` and the row has
been locked since (`HeldJobStays`); and a new job starts without occurrences only
because a free id never had any (`OccurrencesKnown`). The three form `ScheduleInv` with
the types. The action properties follow from one lemma on what a step does to a row
(`JobStep`), and those of the answers from one lemma per kind of answer. That no two jobs
share a name (`UniqueKeys`) is what a redeploy relies on.

### Clients

`TaskRoutesProofs` proves, under the assumptions of `TaskStore`:

| Theorem | Statement |
| --- | --- |
| `RouteInvariant` | `RouteSpec => [](StoreInv /\ SpentIds /\ RouteInv)` |
| `RoutesImplementStore` | `RouteSpec => Spec` |
| `ToldIsTrue` | `RouteSpec => []ToldStaysTrue` |
| `HistoriesExplain` | `RouteSpec => []HistoryExplains` |

A view that is true stays true under every step of the store (`ViewKept`, from
`CommittedStays` and `RowsStep`), so only the step that answers has to be looked at. The
history is read later than the state it explains: at that moment the state is
still the stored one, or the task was removed, and `AttemptLedger` says which attempts
there are. A failed task without attempts would break it; that there is none is
`FailedWasClaimed`, which `AttemptLedger` does not imply.

### Values

`RowValuesProofs` proves, for integers of every width, identifiers of every
length and every unit of time with more than three nanoseconds in a microsecond:

| Theorem | Statement |
| --- | --- |
| `RowInvariant` | `Spec => []RowInv` |
| `ConstraintsAreNeverMet` | `Spec => []ConstraintsNeverRefuse` |
| `RowsReadBack` | `Spec => []ReadsBackAsAsked` |
| `OnlyCronIsRefused` | `Spec => []OnlyCronCorrupts` |
| `HeartbeatsFit` | `Spec => []HeartbeatInsideLease` |

The real widths and units are among them; TLC reaches only very small ones.
`RowInv` says what the caller holds went through the constructors, that a stored row
fits its columns and passes its constraints, and that a column nobody edited is
what was asked for. The lemmas are about the operators: a whole number of
microseconds loses nothing (`MicrosFacts`), an interval without calendar fields is as
long as its microseconds (`PureLength`), what the constructors accept passes the
constraints (`ColumnsFit`), what passes the constraints converts (`CheckedRowReads`), and
a third of a lease lies inside it (`ThirdInside`).

### The pool

`ConnectionPoolProofs` proves, for any pool size, any number of handlers and any of
them sharing the pool:

| Theorem | Statement |
| --- | --- |
| `PoolInvariant` | `Spec => []PoolInv` |
| `NothingIsLeftBehind` | `Spec => []ConnectionsReturned` |

`AcquireKeeps` and `DropKeeps` say what the two operations do to a sound pool; the rest
is that each step of the loop or of a handler leaves exactly those in the pool that
still have a statement to run (`Entitled`). `PoolInv` adds only that the sets are finite
and that the order of the queue speaks of those who wait.

### Only model-checked

Liveness (`ServedUnlessPoisoned`, `CorruptIsPaused`, `LeaseLossNoticed`, `OrphansRecovered`, `ClaimableIsClaimed`,
`WaitersServed`, `ShutdownEnds`) needs fairness and `ENABLED`, which are outside the
prover's reach. Every invariant and every other action property of a passing run is
proved.

## 5. Not modelled

- Builder and registry (`builder.rs`, `registry.rs`): setters, checks for duplicate
  names and zero intervals, a map from names to handlers, all in calls that consume
  the builder one after the other. A model would restate each guard, and the unit
  tests reach them all. That tasks are claimed only for registered names, and the
  results a handler may return, are in `WorkerRuntime`.
- Of the worker runtime: metrics and the length of its intervals. The call of
  `materialize` is an atomic success or failure there and is detailed in `Schedules`.
- `pg_notify` in `enqueue` has no receiver in the crate and changes no state.
- Payloads, JSON, error texts, `Display`, default values: no property tells them
  apart. The character class `[[:space:]]` is taken to be ASCII, as in the C locale.
- croner: an external parser; its two answers are parameters.
- The HTTP framework, and the pools themselves (deadpool, bb8, mobc): `acquire` is a
  queue in order of arrival.
- PostgreSQL itself: snapshot, row lock and SKIP LOCKED are modelled as far as
  the statements depend on them. Serialization of a second insert of the same
  deduplication key or job name behind an uncommitted first one is a wait, that
  is, a step that is not enabled. Of the statements that read the clock more than
  once only the claim compares the readings; the others are given one.

## 6. Plan

1. Composition of `Schedules` with `TaskStore`: a slot leads to exactly one task,
   also when retention has removed the run that the unique index would find.
2. The safety part of the liveness properties, as theorems: a lapsed lease can be
   recovered by any instance, and a fenced handler is stopped at its next heartbeat.
3. The abstract promise of a schedule (each slot is fired or skipped once, in order),
   with `Schedules` shown to implement it.
