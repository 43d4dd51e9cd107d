----------------------------- MODULE TaskStore -----------------------------
(***************************************************************************)
(* The durable task queue: the tables scheduler_runs and                   *)
(* scheduler_run_attempts, and every statement or transaction of           *)
(* src/store and src/queue.rs that changes them.                           *)
(*                                                                         *)
(* One action is one committed statement or transaction. PostgreSQL runs   *)
(* them at READ COMMITTED, and three effects of that level are visible     *)
(* here because the code is exposed to them:                               *)
(*   - a statement reads a snapshot taken when it starts and may then wait *)
(*     for a row lock (cancel is split into its snapshot, its lock and its *)
(*     EXISTS probe);                                                      *)
(*   - SKIP LOCKED statements pass over any row some other statement has   *)
(*     locked at that moment (the set `busy' of the batch actions);        *)
(*   - an enqueue lives in its caller's transaction, which stays open for  *)
(*     as long as the caller likes: an inserted row is invisible until the *)
(*     commit, and a row hit through its deduplication key is locked. A    *)
(*     statement that waits for such a lock has read the clock before it   *)
(*     waited; PostgreSQL evaluates its predicate again only if the row    *)
(*     was changed, that is, not when the transaction rolls back.          *)
(***************************************************************************)
EXTENDS Integers, FiniteSets

CONSTANTS
    RunIds,      \* primary keys of scheduler_runs (random UUIDs)
    Tokens,      \* lease tokens (random UUIDs)
    Names,       \* job names
    Keys,        \* deduplication keys
    Options,     \* the enqueue options producers use
    StartTimes,  \* instants producers ask for with Availability::At
    NameSets,    \* the sets of registered names workers claim with
    Cancellable, \* the tasks callers cancel
    Limits,      \* the LIMITs of claim, recovery and retention
    LastInstant, \* the largest timestamptz
    ClaimGap,    \* bound: ticks between the clock readings of one claim
    MaxTime,     \* bound: the clock stops here
    Null         \* SQL NULL

(* The constructors reject a budget of zero and a lease of zero, and accept *)
(* a backoff of zero.                                                       *)
MaxAttempts == Nat \ {0}
LeaseDuration == Nat \ {0}
RetryBackoff == Nat

(***************************************************************************)
(* EnqueueOptions: a task's name, priority, attempt budget, lease and      *)
(* backoff (whole ticks) and its optional deduplication key.               *)
(***************************************************************************)
OptionType == [job_name : Names, priority : Int, max_attempts : MaxAttempts,
               lease_duration : LeaseDuration, retry_backoff : RetryBackoff,
               deduplication_key : Keys \cup {Null}]

ASSUME OptionsAssumption == Options \subseteq OptionType
ASSUME StartAssumption == StartTimes \subseteq Nat
ASSUME LimitsAssumption == Limits \subseteq Nat \ {0}
ASSUME CancellableAssumption == Cancellable \subseteq RunIds
ASSUME MaxTimeAssumption == MaxTime \in Nat /\ LastInstant \in Nat /\ MaxTime <= LastInstant
ASSUME ClaimGapAssumption == ClaimGap \in Nat
ASSUME NullAssumption == Null \notin Nat /\ Null \notin Tokens /\ Null \notin Keys

VARIABLES
    runs,      \* scheduler_runs: the stored rows, by primary key
    attempts,  \* scheduler_run_attempts: the stored rows, by lease token
    issued,    \* tokens gen_random_uuid has returned; it repeats none
    spent,     \* ids whose row was pruned or rolled back; never reused
    tx,        \* the producer transaction that holds a row, if any
    cancel,    \* where a call of cancel on a task stands
    now        \* the database clock

vars == <<runs, attempts, issued, spent, tx, cancel, now>>

-----------------------------------------------------------------------------
(* Rows                                                                    *)

RunStates == {"pending", "running", "completed", "failed", "cancelled"}
Terminal == {"completed", "failed", "cancelled"}
Errors == {"none", "job error", "lease expired"}

(***************************************************************************)
(* One row of scheduler_runs. worker_id is set and cleared together with   *)
(* lease_token and is represented by it; the columns that never change     *)
(* after the insert are `options'.                                         *)
(***************************************************************************)
RunRow == [options : Options, state : RunStates, available_at : Nat,
           attempt_count : Nat, lease_token : Tokens \cup {Null},
           lease_expires_at : Nat \cup {Null}, started_at : Nat \cup {Null},
           finished_at : Nat \cup {Null}, last_error : Errors]

(* One row of scheduler_run_attempts; outcome "open" is SQL NULL. *)
AttemptRow == [run_id : RunIds, attempt_number : Nat \ {0}, lease_expires_at : Nat,
               outcome : {"open", "completed", "failed", "expired", "cancelled"}]

(***************************************************************************)
(* A producer's open transaction on a row: it inserted it, or it hit it    *)
(* through the deduplication key, and has held its lock since then.        *)
(***************************************************************************)
TxState == [kind : {"none", "insert", "duplicate"}, since : Nat]
NoTx == [kind |-> "none", since |-> 0]

(***************************************************************************)
(* A call of cancel: waiting for the row lock with the snapshot it started *)
(* with (was the row visible, which attempts were), about to probe for the *)
(* row, or answered.                                                       *)
(***************************************************************************)
CancelState == [phase : {"idle", "locking", "probing", "Cancelled", "AlreadyTerminal",
                         "NotFound"},
                visible : BOOLEAN, seen : SUBSET Tokens]
NoCancel == [phase |-> "idle", visible |-> FALSE, seen |-> {}]

Committed == {r \in DOMAIN runs : tx[r].kind # "insert"}
Unlocked(r) == tx[r].kind = "none"
FreeIds == RunIds \ (DOMAIN runs \cup spent)
FreshTokensReused == Tokens \ {runs[r].lease_token : r \in DOMAIN runs}
FreshTokens == Tokens \ issued

MissingStart(at) == at
(* COALESCE($3, now()): now() is the start of the producer's transaction. *)
AvailableAt(at) == IF at = Null THEN now ELSE at

NewRow(opt, at) ==
    [options |-> opt, state |-> "pending", available_at |-> at, attempt_count |-> 0,
     lease_token |-> Null, lease_expires_at |-> Null, started_at |-> Null,
     finished_at |-> Null, last_error |-> "none"]

LeasedKeepingCount(row, t, at) ==
    [row EXCEPT !.state = "running", !.lease_token = t, !.started_at = now,
                !.lease_expires_at = at + row.options.lease_duration]
(* The columns are computed in the order of the table: the deadline from    *)
(* the clock `at', started_at, later, from the clock now.                   *)
Leased(row, t, at) ==
    [row EXCEPT !.state = "running", !.attempt_count = @ + 1, !.lease_token = t,
                !.lease_expires_at = at + row.options.lease_duration, !.started_at = now]

Finished(row, state, error, at) ==
    [row EXCEPT !.state = state, !.lease_token = Null, !.lease_expires_at = Null,
                !.started_at = Null, !.finished_at = at, !.last_error = error]

Requeued(row, at) ==
    [row EXCEPT !.state = "pending", !.available_at = at, !.lease_token = Null,
                !.lease_expires_at = Null, !.started_at = Null]

(* A sum of an instant and an interval that is past the largest timestamptz *)
(* is an error, which aborts the statement.                                 *)
InRange(at) == at <= LastInstant

AttemptsLeftOffByOne(row) == row.attempt_count <= row.options.max_attempts
AttemptsLeft(row) == row.attempt_count < row.options.max_attempts

(***************************************************************************)
(* Closing attempts: only the open ones are written (outcome IS NULL).     *)
(***************************************************************************)
CloseWholeRun(tokens, outcome) ==
    [t \in DOMAIN attempts |->
        IF attempts[t].run_id \in {attempts[u].run_id : u \in tokens \cap DOMAIN attempts}
        THEN [attempts[t] EXCEPT !.outcome = outcome] ELSE attempts[t]]
Close(tokens, outcome) ==
    [t \in DOMAIN attempts |->
        IF t \in tokens /\ attempts[t].outcome = "open"
        THEN [attempts[t] EXCEPT !.outcome = outcome] ELSE attempts[t]]

HasOpenAttempt(t) == t \in DOMAIN attempts /\ attempts[t].outcome = "open"

(* ORDER BY ... LIMIT: batch is a first `limit' of ready, under `before'. *)
IsFirst(batch, ready, limit, before) ==
    /\ Cardinality(batch) <= limit
    /\ Cardinality(batch) < limit => batch = ready
    /\ \A x \in batch, y \in ready \ batch : <<y, x>> \notin before

-----------------------------------------------------------------------------
(* Producers: enqueue inside the caller's transaction                      *)

(* Rows the partial unique index (job_name, deduplication_key) clashes with, *)
(* those of transactions still open included.                                *)
Conflicts(opt) ==
    {r \in DOMAIN runs : /\ opt.deduplication_key # Null
                         /\ runs[r].options.job_name = opt.job_name
                         /\ runs[r].options.deduplication_key = opt.deduplication_key}

EnqueueInsert(r, opt, at) ==
    /\ Conflicts(opt) = {}
    /\ runs' = [x \in DOMAIN runs \cup {r} |->
                  IF x = r THEN NewRow(opt, AvailableAt(at)) ELSE runs[x]]
    /\ tx' = [tx EXCEPT ![r] = [kind |-> "insert", since |-> now]]
    /\ UNCHANGED <<attempts, issued, spent, cancel, now>>

(* DO UPDATE SET deduplication_key: waits for the row, then holds it. *)
EnqueueDuplicate(r, opt) ==
    /\ r \in Conflicts(opt)
    /\ Unlocked(r)
    /\ tx' = [tx EXCEPT ![r] = [kind |-> "duplicate", since |-> now]]
    /\ UNCHANGED <<runs, attempts, issued, spent, cancel, now>>

ProducerCommit(r) ==
    /\ ~Unlocked(r)
    /\ tx' = [tx EXCEPT ![r] = NoTx]
    /\ UNCHANGED <<runs, attempts, issued, spent, cancel, now>>

RollbackInsert(r) ==
    /\ tx[r].kind = "insert"
    /\ tx' = [tx EXCEPT ![r] = NoTx]
    /\ runs' = [x \in DOMAIN runs \ {r} |-> runs[x]]
    /\ spent' = spent \cup {r}
    /\ UNCHANGED <<attempts, issued, cancel, now>>

RollbackDuplicate(r) ==
    /\ tx[r].kind = "duplicate"
    /\ tx' = [tx EXCEPT ![r] = NoTx]
    /\ UNCHANGED <<runs, attempts, issued, spent, cancel, now>>

-----------------------------------------------------------------------------
(* Claiming                                                                *)

Eligible(names) ==
    {r \in Committed : /\ Unlocked(r)
                       /\ runs[r].state = "pending"
                       /\ runs[r].available_at <= now
                       /\ runs[r].options.job_name \in names}

ClaimOrder ==
    {p \in Committed \X Committed :
        \/ runs[p[1]].options.priority > runs[p[2]].options.priority
        \/ /\ runs[p[1]].options.priority = runs[p[2]].options.priority
           /\ runs[p[1]].available_at < runs[p[2]].available_at}

(* The attempt a claim records for r, with the lease it has just written. *)
NewAttempt(r, row) ==
    [run_id |-> r, attempt_number |-> row.attempt_count,
     lease_expires_at |-> row.lease_expires_at, outcome |-> "open"]

(* The clocks that a claim of the batch may have read when it ends now: its *)
(* rows were due by the first.                                              *)
ClaimClocks(batch) ==
    {c \in 0 .. now : now - c <= ClaimGap /\ \A r \in batch : runs[r].available_at <= c}

(* The deadline of a lease counted from the clock c is a timestamptz, and   *)
(* the CHECK constraint lease_expires_at > started_at accepts it.           *)
LeaseAccepted(row, c) ==
    /\ InRange(c + row.options.lease_duration)
    /\ c + row.options.lease_duration > now

(***************************************************************************)
(* claim_batch: one statement leases the batch, each row by the clock it   *)
(* read for it, and records the attempts, or fails as a whole.             *)
(***************************************************************************)
Claim(batch, token, at) ==
    /\ \A r \in batch : LeaseAccepted(runs[r], at[r])
    /\ runs' = [r \in DOMAIN runs |->
                  IF r \in batch THEN Leased(runs[r], token[r], at[r]) ELSE runs[r]]
    /\ attempts' = [t \in DOMAIN attempts \cup {token[r] : r \in batch} |->
                      IF t \in DOMAIN attempts THEN attempts[t]
                      ELSE LET r == CHOOSE x \in batch : token[x] = t
                           IN  NewAttempt(r, runs'[r])]
    /\ issued' = issued \cup {token[r] : r \in batch}
    /\ UNCHANGED <<spent, tx, cancel, now>>

(* What the candidates CTE selects when the rows in busy are locked. *)
Batches(names, limit, busy) ==
    {batch \in SUBSET (Eligible(names) \ busy) \ {{}} :
        IsFirst(batch, Eligible(names) \ busy, limit, ClaimOrder)}

ClaimAmong(names, limit, busy) ==
    \E batch \in Batches(names, limit, busy) :
      \E token \in [batch -> FreshTokens], at \in [batch -> ClaimClocks(batch)] :
        /\ \A x, y \in batch : token[x] = token[y] => x = y
        /\ Claim(batch, token, at)

ClaimBatch(names, limit) == \E busy \in SUBSET RunIds : ClaimAmong(names, limit, busy)

(* The statement runs into a lease that ends past the largest timestamptz, *)
(* or not after started_at.                                                *)
ClaimAborts(names, limit, busy) ==
    \E batch \in Batches(names, limit, busy) :
      \E r \in batch, c \in ClaimClocks(batch) : ~LeaseAccepted(runs[r], c)

-----------------------------------------------------------------------------
(* Writes of a worker, fenced by its token and by its lease. `at' is the   *)
(* clock the statement read: now, or earlier if it waited for the row.     *)

Owns(r, t, at) ==
    /\ r \in Committed
    /\ runs[r].state = "running"
    /\ runs[r].lease_token = t
    /\ runs[r].lease_expires_at > at

(* Anything but one live attempt makes the transaction fail and roll back. *)
finalize_run(r, t, outcome, at) ==
    /\ Owns(r, t, at)
    /\ HasOpenAttempt(t)
    /\ runs' = [runs EXCEPT ![r] = Finished(@, outcome,
                  IF outcome = "failed" THEN "job error" ELSE "none", at)]
    /\ attempts' = Close({t}, outcome)
    /\ UNCHANGED <<issued, spent, cancel, now>>

fail_run(r, t, retryable, at) ==
    /\ Owns(r, t, at)
    /\ HasOpenAttempt(t)
    /\ retryable /\ AttemptsLeft(runs[r]) => InRange(at + runs[r].options.retry_backoff)
    /\ runs' = [runs EXCEPT ![r] =
                  IF retryable /\ AttemptsLeft(@)
                  THEN Requeued(@, at + runs[r].options.retry_backoff)
                  ELSE Finished(@, "failed", "job error", at)]
    /\ attempts' = Close({t}, "failed")
    /\ UNCHANGED <<issued, spent, cancel, now>>

RenewedRunOnly(t, expires) == attempts
RenewedAttempt(t, expires) == [attempts EXCEPT ![t].lease_expires_at = expires]

renew_lease(r, t, at) ==
    /\ Owns(r, t, at)
    /\ HasOpenAttempt(t)
    /\ InRange(at + runs[r].options.lease_duration)
    /\ runs' = [runs EXCEPT ![r].lease_expires_at = at + runs[r].options.lease_duration]
    /\ attempts' = RenewedAttempt(t, at + runs[r].options.lease_duration)
    /\ UNCHANGED <<issued, spent, cancel, now>>

WorkerWrite(r, t, at) ==
    \/ \E outcome \in {"completed", "failed"} : finalize_run(r, t, outcome, at)
    \/ \E retryable \in BOOLEAN : fail_run(r, t, retryable, at)
    \/ renew_lease(r, t, at)

DirectWrite(r, t) == Unlocked(r) /\ WorkerWrite(r, t, now) /\ UNCHANGED tx

(***************************************************************************)
(* A write that found the row locked by a producer, waited, and went on    *)
(* when the producer rolled back: the row is as it was, so the predicate   *)
(* and the clock the statement read before it waited still stand.          *)
(***************************************************************************)
DelayedWrite(r, t) ==
    /\ tx[r].kind = "duplicate"
    /\ \E at \in tx[r].since .. now : WorkerWrite(r, t, at)
    /\ tx' = [tx EXCEPT ![r] = NoTx]

-----------------------------------------------------------------------------
(* Recovery of expired leases                                              *)

LapsedEarly(r) == runs[r].state = "running"
LapsedWithBudget(r) ==
    /\ runs[r].state = "running" /\ runs[r].lease_expires_at <= now
    /\ AttemptsLeft(runs[r])
Lapsed(r) == runs[r].state = "running" /\ runs[r].lease_expires_at <= now

ExpiryOrder ==
    LET running == {r \in Committed : runs[r].state = "running"}
    IN  {p \in running \X running :
            runs[p[1]].lease_expires_at < runs[p[2]].lease_expires_at}

Recovered(row) ==
    IF AttemptsLeft(row) THEN Requeued(row, now)
    ELSE Finished(row, "failed", "lease expired", now)

recover_expired(limit) ==
    \E busy \in SUBSET RunIds :
      LET candidates == {r \in Committed : Unlocked(r) /\ Lapsed(r)} \ busy IN
      \E batch \in SUBSET candidates \ {{}} :
        LET recorded == {r \in batch : HasOpenAttempt(runs[r].lease_token)} IN
        /\ IsFirst(batch, candidates, limit, ExpiryOrder)
        /\ runs' = [r \in DOMAIN runs |->
                      IF r \in recorded THEN Recovered(runs[r]) ELSE runs[r]]
        /\ attempts' = Close({runs[r].lease_token : r \in batch}, "expired")
        /\ UNCHANGED <<issued, spent, tx, cancel, now>>

-----------------------------------------------------------------------------
(* Cancellation                                                            *)

Cancelling(r, c) == cancel' = [cancel EXCEPT ![r] = c]

(* The statement takes its snapshot: the visible row, the visible attempts. *)
CancelStart(r) ==
    /\ cancel[r].phase \notin {"locking", "probing"}
    /\ Cancelling(r, [phase |-> "locking", visible |-> r \in Committed,
                      seen |-> {t \in DOMAIN attempts : attempts[t].run_id = r}])
    /\ UNCHANGED <<runs, attempts, issued, spent, tx, now>>

CancelWinsUnlessRunning(r) ==
    \/ runs[r].state # "running"
    \/ runs[r].lease_token \in cancel[r].seen /\ HasOpenAttempt(runs[r].lease_token)
(* SELECT ... FOR UPDATE reads the latest row; UPDATE of the attempt only *)
(* finds the attempts of the snapshot.                                    *)
CancelWins(r) ==
    \/ runs[r].state = "pending"
    \/ /\ runs[r].state = "running"
       /\ runs[r].lease_token \in cancel[r].seen
       /\ HasOpenAttempt(runs[r].lease_token)

CancelLock(r) ==
    /\ cancel[r].phase = "locking"
    /\ r \in DOMAIN runs /\ cancel[r].visible
    /\ Unlocked(r)
    /\ CancelWins(r)
    /\ runs' = [runs EXCEPT ![r] = Finished(@, "cancelled", "none", now)]
    /\ attempts' = Close({runs[r].lease_token}, "cancelled")
    /\ Cancelling(r, [cancel[r] EXCEPT !.phase = "Cancelled", !.seen = {}])
    /\ UNCHANGED <<issued, spent, tx, now>>

CancelMiss(r) ==
    /\ cancel[r].phase = "locking"
    /\ (r \in DOMAIN runs /\ cancel[r].visible) => Unlocked(r) /\ ~CancelWins(r)
    /\ Cancelling(r, [cancel[r] EXCEPT !.phase = "probing", !.seen = {}])
    /\ UNCHANGED <<runs, attempts, issued, spent, tx, now>>

CancelProbeTerminal(r) ==
    /\ cancel[r].phase = "probing"
    /\ Cancelling(r, [cancel[r] EXCEPT !.phase =
                        IF r \in Committed /\ runs[r].state \in Terminal
                        THEN "AlreadyTerminal" ELSE "NotFound"])
    /\ UNCHANGED <<runs, attempts, issued, spent, tx, now>>
(* No row changed: a second statement asks whether the task exists. *)
CancelProbe(r) ==
    /\ cancel[r].phase = "probing"
    /\ Cancelling(r, [cancel[r] EXCEPT !.phase =
                        IF r \in Committed THEN "AlreadyTerminal" ELSE "NotFound"])
    /\ UNCHANGED <<runs, attempts, issued, spent, tx, now>>

(* A database error ends the call with Err. It changes nothing; a call that *)
(* commits and whose answer is lost is CancelLock, though nobody is told.    *)
CancelError(r) ==
    /\ cancel[r].phase \in {"locking", "probing"}
    /\ Cancelling(r, NoCancel)
    /\ UNCHANGED <<runs, attempts, issued, spent, tx, now>>

-----------------------------------------------------------------------------
(* Retention                                                               *)

FinishOrder ==
    LET ended == {r \in Committed : runs[r].state \in Terminal}
    IN  {p \in ended \X ended : runs[p[1]].finished_at < runs[p[2]].finished_at}

PrunableHeld(before) ==
    {r \in Committed : runs[r].state \in Terminal /\ runs[r].finished_at < before}
Prunable(before) ==
    {r \in Committed : /\ Unlocked(r)
                       /\ runs[r].state \in Terminal
                       /\ runs[r].finished_at < before}

(* Attempts go with their run: ON DELETE CASCADE. *)
prune_terminal(before, limit) ==
    \E busy \in SUBSET RunIds :
      \E doomed \in SUBSET (Prunable(before) \ busy) \ {{}} :
        /\ IsFirst(doomed, Prunable(before) \ busy, limit, FinishOrder)
        /\ runs' = [r \in DOMAIN runs \ doomed |-> runs[r]]
        /\ attempts' = [t \in {u \in DOMAIN attempts : attempts[u].run_id \notin doomed}
                          |-> attempts[t]]
        /\ spent' = spent \cup doomed
        /\ UNCHANGED <<issued, tx, cancel, now>>

-----------------------------------------------------------------------------
Tick == now < MaxTime /\ now' = now + 1
        /\ UNCHANGED <<runs, attempts, issued, spent, tx, cancel>>

Init ==
    /\ runs = [r \in {} |-> {}]
    /\ attempts = [t \in {} |-> {}]
    /\ issued = {}
    /\ spent = {}
    /\ tx = [r \in RunIds |-> NoTx]
    /\ cancel = [r \in RunIds |-> NoCancel]
    /\ now = 0

Produce ==
    \/ \E r \in FreeIds, opt \in Options, at \in StartTimes \cup {Null} :
         EnqueueInsert(r, opt, at)
    \/ \E r \in RunIds, opt \in Options : EnqueueDuplicate(r, opt)
    \/ \E r \in RunIds : ProducerCommit(r) \/ RollbackInsert(r) \/ RollbackDuplicate(r)

Work ==
    \/ \E names \in NameSets, limit \in Limits : ClaimBatch(names, limit)
    \/ \E r \in RunIds, t \in issued : DirectWrite(r, t) \/ DelayedWrite(r, t)
    \/ \E limit \in Limits : recover_expired(limit)

Administer ==
    \/ \E r \in Cancellable :
         CancelStart(r) \/ CancelLock(r) \/ CancelMiss(r) \/ CancelProbe(r) \/ CancelError(r)
    \/ \E before \in 1 .. MaxTime + 1, limit \in Limits : prune_terminal(before, limit)

Next == Produce \/ Work \/ Administer \/ Tick

Spec == Init /\ [][Next]_vars

-----------------------------------------------------------------------------
(* What the store promises                                                 *)

(* Every table, lock and call keeps its type; available_at is never NULL,  *)
(* whether the producer asked for a start or not (COALESCE in ENQUEUE).    *)
TypeOK ==
    /\ DOMAIN runs \subseteq RunIds /\ runs \in [DOMAIN runs -> RunRow]
    /\ DOMAIN attempts \subseteq issued /\ attempts \in [DOMAIN attempts -> AttemptRow]
    /\ issued \subseteq Tokens
    /\ spent \subseteq RunIds
    /\ tx \in [RunIds -> TxState]
    /\ cancel \in [RunIds -> CancelState]
    /\ now \in Nat

(* The CHECK constraints scheduler_runs_attempts_check and                 *)
(* scheduler_runs_state_check on one row, but for the order of its lease.  *)
RowOK(row) ==
    /\ row.attempt_count <= row.options.max_attempts
    /\ row.state = "pending" => row.attempt_count < row.options.max_attempts
    /\ row.state = "running" => /\ row.attempt_count > 0
                                /\ row.lease_token # Null /\ row.lease_expires_at # Null
                                /\ row.started_at # Null
    /\ row.state # "running" => /\ row.lease_token = Null /\ row.lease_expires_at = Null
                                /\ row.started_at = Null
    /\ row.state \in Terminal <=> row.finished_at # Null
    /\ row.state = "failed" <=> row.last_error # "none"

RowStates == \A r \in DOMAIN runs : RowOK(runs[r])

(* A lease ends after the attempt under it started. *)
LeaseAfterStart ==
    \A r \in DOMAIN runs :
        runs[r].state = "running" => runs[r].lease_expires_at > runs[r].started_at

(* The rows satisfy the CHECK constraints of scheduler_runs on attempts    *)
(* and states: a pending row has attempts left, lease, finished_at and     *)
(* last_error are set exactly as the state demands, and a lease ends after *)
(* started_at. Only for the last one a claim relies on the constraint: it  *)
(* is aborted, with its whole batch, for a lease no longer than the time   *)
(* between its two readings of the clock (LeaseAccepted). No retry,        *)
(* recovery, cancellation, completion or renewal, delayed ones included,   *)
(* ever runs into one; it would abort and leave the task stuck.            *)
RowChecks == RowStates /\ LeaseAfterStart

(* The run a token is the current lease of, if any. *)
Holds(t, r) == r \in DOMAIN runs /\ runs[r].state = "running" /\ runs[r].lease_token = t

(* A running task has exactly one open attempt, the one of its lease, with *)
(* the same number and the same deadline, and every open attempt belongs   *)
(* to such a task. finalize_run, fail_run and renew_lease fail with        *)
(* Invariant("... did not have one live attempt") when this is broken, and *)
(* recovery then never frees the task.                                     *)
LiveAttempt ==
    /\ \A r \in DOMAIN runs : runs[r].state = "running" =>
         /\ HasOpenAttempt(runs[r].lease_token)
         /\ attempts[runs[r].lease_token].run_id = r
         /\ attempts[runs[r].lease_token].attempt_number = runs[r].attempt_count
         /\ attempts[runs[r].lease_token].lease_expires_at = runs[r].lease_expires_at
    /\ \A t \in DOMAIN attempts : attempts[t].outcome = "open" => Holds(t, attempts[t].run_id)

(* The n-th claim of r has an attempt on record. *)
Recorded(r, n) ==
    \E t \in DOMAIN attempts : attempts[t].run_id = r /\ attempts[t].attempt_number = n

(* Attempts reference their run and its claims, one attempt per claim. *)
LedgerKeys ==
    /\ \A t \in DOMAIN attempts :
         /\ attempts[t].run_id \in DOMAIN runs
         /\ attempts[t].attempt_number <= runs[attempts[t].run_id].attempt_count
    /\ \A t, u \in DOMAIN attempts :
         /\ attempts[t].run_id = attempts[u].run_id
         /\ attempts[t].attempt_number = attempts[u].attempt_number
         => t = u
    /\ \A r \in DOMAIN runs : \A n \in 1 .. runs[r].attempt_count : Recorded(r, n)

(* What the outcome of an attempt says about its run. *)
OutcomeFits(a, row) ==
    /\ a.attempt_number < row.attempt_count \/ row.state = "pending"
         => a.outcome \in {"failed", "expired"}
    /\ a.outcome = "completed" => row.state = "completed"
    /\ a.outcome = "cancelled" => row.state = "cancelled"

(* The last claim of r has completed. *)
CompletedOnRecord(r) ==
    \E t \in DOMAIN attempts : /\ attempts[t].run_id = r
                               /\ attempts[t].attempt_number = runs[r].attempt_count
                               /\ attempts[t].outcome = "completed"

LedgerOutcomes ==
    /\ \A t \in DOMAIN attempts : OutcomeFits(attempts[t], runs[attempts[t].run_id])
    /\ \A r \in DOMAIN runs : runs[r].state = "completed" => CompletedOnRecord(r)

(* The attempt history accounts for every claim: a task's attempts are     *)
(* numbered 1 to attempt_count without gap or repetition, all but the last *)
(* failed or expired, and the last one tells how the task ended. Claim,    *)
(* retry, expiry, cancellation and retention each write both tables.       *)
AttemptLedger == LedgerKeys /\ LedgerOutcomes

(* While a lease is unexpired nobody else owns the task: an attempt whose  *)
(* recorded deadline lies ahead and that its worker or a cancellation did  *)
(* not close is still the current lease of its run, so recovery never      *)
(* overtakes a live worker, renewed leases included.                       *)
LeaseExclusive ==
    \A t \in DOMAIN attempts :
        /\ attempts[t].lease_expires_at > now
        /\ attempts[t].outcome \notin {"completed", "failed", "cancelled"}
        => Holds(t, attempts[t].run_id)

(* A row lives as long as a producer's open transaction holds it, and      *)
(* nobody touches a task before its producer commits: the id a             *)
(* deduplicated enqueue returned still names a task at the commit          *)
(* (retention stays away), and a rollback never takes a claimed task back. *)
ProducerRows ==
    \A r \in RunIds :
        /\ tx[r].kind # "none" => r \in DOMAIN runs
        /\ tx[r].kind = "insert" => runs[r].state = "pending" /\ runs[r].attempt_count = 0

(* cancel tells the truth when it says Cancelled (the task is cancelled,   *)
(* until retention removes it) and when it says NotFound about a task that *)
(* was there when the call began (retention removed it meanwhile).         *)
CancelTruthful ==
    \A r \in RunIds :
        /\ cancel[r].phase = "Cancelled" =>
             r \in spent \/ (r \in DOMAIN runs /\ runs[r].state = "cancelled")
        /\ cancel[r].phase = "NotFound" /\ cancel[r].visible => r \in spent

(* Recovery only ever closed attempts whose deadline had passed. *)
ExpiredIsPast ==
    \A t \in DOMAIN attempts :
        attempts[t].outcome = "expired" => attempts[t].lease_expires_at <= now

(* An attempt started before now, and before any producer that holds its   *)
(* row came: a renewal that waited has read a clock after that start.      *)
StartedBefore ==
    \A r \in DOMAIN runs : runs[r].state = "running" =>
        /\ runs[r].started_at <= now
        /\ tx[r].kind = "duplicate" => runs[r].started_at <= tx[r].since

(* The inductive invariant behind the theorems of TaskStoreProofs: the     *)
(* promises above hold each other up. A claim needs RowStates to stay in   *)
(* the attempt budget, every write of a worker needs LiveAttempt to find   *)
(* the attempt it closes, and LeaseExclusive needs ExpiredIsPast.          *)
StoreInv ==
    TypeOK /\ RowStates /\ LiveAttempt /\ AttemptLedger /\ ProducerRows /\ ExpiredIsPast

(* A terminal task never changes again; it can only be pruned. Late        *)
(* completions, renewals, recoveries and cancellations all leave it alone. *)
TerminalIsFinal ==
    [][\A r \in DOMAIN runs \cap DOMAIN runs' :
         runs[r].state \in Terminal => runs'[r] = runs[r]]_vars

(* A closed attempt is history: no later claim, retry, recovery or         *)
(* cancellation of the same task rewrites it.                              *)
HistoryAppendOnly ==
    [][\A t \in DOMAIN attempts \cap DOMAIN attempts' :
         attempts[t].outcome # "open" => attempts'[t] = attempts[t]]_vars

(* Fencing is permanent: a token that is no longer the lease of a task     *)
(* never becomes the lease of any task again, so a worker that lost its    *)
(* task can never write to it.                                             *)
FencedForever ==
    [][\A t \in issued :
         (\A r \in DOMAIN runs : ~Holds(t, r)) => (\A r \in DOMAIN runs' : ~Holds(t, r)')]_vars

(* The claim made for cancel: it cancels pending or running work, so that  *)
(* AlreadyTerminal, about a task that was stored when the call began,      *)
(* means that the task has finished.                                       *)
AlreadyTerminalIsTerminal ==
    \A r \in DOMAIN runs :
        cancel[r].phase = "AlreadyTerminal" /\ cancel[r].visible
        => runs[r].state \in Terminal

(* The claim made for completion racing recovery: a task is completed only *)
(* while the lease of its worker is unexpired.                             *)
CompletedUnderLease ==
    [][\A r \in DOMAIN runs \cap DOMAIN runs' :
         runs[r].state = "running" /\ runs'[r].state = "completed"
         => runs[r].lease_expires_at > now]_vars
=============================================================================
