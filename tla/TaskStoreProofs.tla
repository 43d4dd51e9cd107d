-------------------------- MODULE TaskStoreProofs --------------------------
(***************************************************************************)
(* Theorems about TaskStore, for every value of its constants.             *)
(***************************************************************************)
EXTENDS TaskStore, TLAPS

-----------------------------------------------------------------------------
(* What the row transformers return.                                       *)

(* The options of a task carry positive lease and attempt budgets. *)
LEMMA OptionFacts ==
    ASSUME NEW opt \in Options
    PROVE  /\ opt.lease_duration \in Nat /\ opt.lease_duration > 0
           /\ opt.max_attempts \in Nat /\ opt.max_attempts > 0
           /\ opt.retry_backoff \in Nat
<1>1. opt \in OptionType
  BY OptionsAssumption
<1> QED
  BY <1>1 DEF OptionType, MaxAttempts, LeaseDuration, RetryBackoff

(* The literals that rows are finished with. *)
LEMMA Literals ==
    /\ "completed" \in RunStates /\ "failed" \in RunStates /\ "cancelled" \in RunStates
    /\ "none" \in Errors /\ "job error" \in Errors /\ "lease expired" \in Errors
BY DEF RunStates, Errors

(* The row an enqueue inserts is a well-formed pending row. *)
LEMMA NewRowType ==
    ASSUME NEW opt \in Options, NEW at \in Nat
    PROVE  NewRow(opt, at) \in RunRow
BY DEF NewRow, RunRow, RunStates, Errors

(* A claim turns a row into a running row with its token and deadline. *)
LEMMA LeasedType ==
    ASSUME NEW row \in RunRow, NEW t \in Tokens, NEW at \in Nat, now \in Nat
    PROVE  /\ Leased(row, t, at) \in RunRow
           /\ Leased(row, t, at).state = "running"
           /\ Leased(row, t, at).attempt_count = row.attempt_count + 1
           /\ Leased(row, t, at).lease_token = t
           /\ Leased(row, t, at).lease_expires_at = at + row.options.lease_duration
           /\ Leased(row, t, at).started_at = now
           /\ Leased(row, t, at).options = row.options
           /\ Leased(row, t, at).finished_at = row.finished_at
           /\ Leased(row, t, at).last_error = row.last_error
<1>1. row.options \in Options
  BY DEF RunRow
<1>2. row.options.lease_duration \in Nat
  BY <1>1, OptionFacts
<1> DEFINE expires == at + row.options.lease_duration
<1> DEFINE count == row.attempt_count + 1
<1>3. expires \in Nat
  BY <1>2
<1>4. count \in Nat
  BY DEF RunRow
<1>5. Leased(row, t, at) = [row EXCEPT !.state = "running", !.attempt_count = count,
                              !.lease_token = t, !.lease_expires_at = expires,
                              !.started_at = now]
  BY DEF Leased
<1> HIDE DEF expires, count
<1>6. Leased(row, t, at) \in RunRow
  <2>1. "running" \in RunStates
    BY DEF RunStates
  <2> HIDE DEF RunStates
  <2> QED
    BY <1>3, <1>4, <1>5, <2>1 DEF RunRow
<1>7. /\ Leased(row, t, at).state = "running"
      /\ Leased(row, t, at).attempt_count = count
      /\ Leased(row, t, at).lease_token = t
      /\ Leased(row, t, at).lease_expires_at = expires
      /\ Leased(row, t, at).started_at = now
      /\ Leased(row, t, at).options = row.options
      /\ Leased(row, t, at).finished_at = row.finished_at
      /\ Leased(row, t, at).last_error = row.last_error
  BY <1>5 DEF RunRow
<1> QED
  BY <1>6, <1>7 DEF expires, count

(* Finishing a row clears its lease and records when and why it ended. *)
LEMMA FinishedType ==
    ASSUME NEW row \in RunRow, NEW state \in RunStates, NEW error \in Errors, NEW at \in Nat
    PROVE  /\ Finished(row, state, error, at) \in RunRow
           /\ Finished(row, state, error, at).state = state
           /\ Finished(row, state, error, at).attempt_count = row.attempt_count
           /\ Finished(row, state, error, at).lease_token = Null
           /\ Finished(row, state, error, at).lease_expires_at = Null
           /\ Finished(row, state, error, at).started_at = Null
           /\ Finished(row, state, error, at).options = row.options
           /\ Finished(row, state, error, at).finished_at = at
           /\ Finished(row, state, error, at).last_error = error
BY DEF Finished, RunRow

(* Requeueing a row clears its lease and keeps everything else. *)
LEMMA RequeuedType ==
    ASSUME NEW row \in RunRow, NEW at \in Nat
    PROVE  /\ Requeued(row, at) \in RunRow
           /\ Requeued(row, at).state = "pending"
           /\ Requeued(row, at).attempt_count = row.attempt_count
           /\ Requeued(row, at).lease_token = Null
           /\ Requeued(row, at).lease_expires_at = Null
           /\ Requeued(row, at).started_at = Null
           /\ Requeued(row, at).options = row.options
           /\ Requeued(row, at).finished_at = row.finished_at
           /\ Requeued(row, at).last_error = row.last_error
BY DEF Requeued, RunRow, RunStates

(* Closing attempts changes nothing but the outcome of open ones. *)
LEMMA CloseType ==
    ASSUME NEW tokens, NEW outcome \in {"completed", "failed", "expired", "cancelled"},
           attempts \in [DOMAIN attempts -> AttemptRow]
    PROVE  /\ DOMAIN Close(tokens, outcome) = DOMAIN attempts
           /\ Close(tokens, outcome) \in [DOMAIN attempts -> AttemptRow]
           /\ \A t \in DOMAIN attempts :
                /\ Close(tokens, outcome)[t].run_id = attempts[t].run_id
                /\ Close(tokens, outcome)[t].attempt_number = attempts[t].attempt_number
                /\ Close(tokens, outcome)[t].lease_expires_at = attempts[t].lease_expires_at
                /\ t \in tokens /\ attempts[t].outcome = "open"
                     => Close(tokens, outcome)[t].outcome = outcome
                /\ t \notin tokens \/ attempts[t].outcome # "open"
                     => Close(tokens, outcome)[t] = attempts[t]
BY DEF Close, AttemptRow

-----------------------------------------------------------------------------
(* Type correctness                                                        *)

(* A step that keeps the tables only has locks, calls and clock to type. *)
LEMMA EnqueueType ==
    ASSUME TypeOK, NEW r \in FreeIds, NEW opt \in Options, NEW at \in StartTimes \cup {Null},
           EnqueueInsert(r, opt, at)
    PROVE  TypeOK'
<1>1. AvailableAt(at) \in Nat
  BY StartAssumption DEF AvailableAt, TypeOK
<1>2. NewRow(opt, AvailableAt(at)) \in RunRow
  BY <1>1, NewRowType
<1>3. r \in RunIds
  BY DEF FreeIds
<1>4. DOMAIN runs' = DOMAIN runs \cup {r} /\ runs' \in [DOMAIN runs' -> RunRow]
  BY <1>2 DEF EnqueueInsert, TypeOK
<1>5. tx' \in [RunIds -> TxState]
  BY DEF EnqueueInsert, TypeOK, TxState
<1> QED
  BY <1>3, <1>4, <1>5 DEF EnqueueInsert, TypeOK

(* Opening or ending a producer transaction on an existing row. *)
LEMMA ProducerType ==
    ASSUME TypeOK, NEW r \in RunIds,
           \/ \E opt \in Options : EnqueueDuplicate(r, opt)
           \/ ProducerCommit(r) \/ RollbackInsert(r) \/ RollbackDuplicate(r)
    PROVE  TypeOK'
<1>1. tx' \in [RunIds -> TxState]
  BY DEF EnqueueDuplicate, ProducerCommit, RollbackInsert, RollbackDuplicate, TypeOK,
         TxState, NoTx
<1>2. DOMAIN runs' \subseteq DOMAIN runs /\ runs' \in [DOMAIN runs' -> RunRow]
  BY DEF EnqueueDuplicate, ProducerCommit, RollbackInsert, RollbackDuplicate, TypeOK
<1>3. spent' \subseteq RunIds
  BY DEF EnqueueDuplicate, ProducerCommit, RollbackInsert, RollbackDuplicate, TypeOK
<1> QED
  BY <1>1, <1>2, <1>3
     DEF EnqueueDuplicate, ProducerCommit, RollbackInsert, RollbackDuplicate, TypeOK

(* A claim leases rows of the batch and adds one typed attempt for each. *)
LEMMA ClaimType ==
    ASSUME TypeOK, NEW batch \in SUBSET DOMAIN runs, NEW token \in [batch -> FreshTokens],
           NEW at \in [batch -> ClaimClocks(batch)], Claim(batch, token, at)
    PROVE  TypeOK'
<1>1. \A r \in batch : token[r] \in Tokens
  BY DEF FreshTokens
<1>2. \A r \in batch : Leased(runs[r], token[r], at[r]) \in RunRow
  BY <1>1, LeasedType DEF TypeOK, ClaimClocks
<1>3. DOMAIN runs' = DOMAIN runs /\ runs' \in [DOMAIN runs' -> RunRow]
  BY <1>2 DEF Claim, TypeOK
<1>4. \A r \in batch : NewAttempt(r, runs'[r]) \in AttemptRow
  <2> SUFFICES ASSUME NEW r \in batch PROVE NewAttempt(r, runs'[r]) \in AttemptRow
    OBVIOUS
  <2>1. runs'[r] = Leased(runs[r], token[r], at[r])
    BY DEF Claim
  <2>2. runs[r] \in RunRow /\ r \in RunIds /\ now \in Nat /\ at[r] \in Nat
    BY DEF TypeOK, ClaimClocks
  <2>3. /\ runs'[r].attempt_count = runs[r].attempt_count + 1
        /\ runs'[r].lease_expires_at = at[r] + runs[r].options.lease_duration
    BY <1>1, <2>1, <2>2, LeasedType
  <2>4. runs[r].options \in Options /\ runs[r].attempt_count \in Nat
    BY <2>2 DEF RunRow
  <2>5. runs'[r].attempt_count \in Nat \ {0} /\ runs'[r].lease_expires_at \in Nat
    BY <2>2, <2>3, <2>4, OptionFacts
  <2> QED
    BY <2>2, <2>5 DEF NewAttempt, AttemptRow
<1>5. /\ DOMAIN attempts' = DOMAIN attempts \cup {token[r] : r \in batch}
      /\ attempts' \in [DOMAIN attempts' -> AttemptRow]
  <2>1. DOMAIN attempts' = DOMAIN attempts \cup {token[r] : r \in batch}
    BY DEF Claim
  <2>2. ASSUME NEW t \in DOMAIN attempts' PROVE attempts'[t] \in AttemptRow
    <3>1. CASE t \in DOMAIN attempts
      BY <2>1, <3>1 DEF Claim, TypeOK
    <3>2. CASE t \notin DOMAIN attempts
      <4> DEFINE r == CHOOSE x \in batch : token[x] = t
      <4>1. \E x \in batch : token[x] = t
        BY <2>1, <2>2, <3>2
      <4>2. r \in batch
        BY <4>1
      <4>3. attempts'[t] = NewAttempt(r, runs'[r])
        BY <2>1, <2>2, <3>2 DEF Claim
      <4> QED
        BY <1>4, <4>2, <4>3
    <3> QED
      BY <3>1, <3>2
  <2>3. attempts' = [t \in DOMAIN attempts' |-> attempts'[t]]
    BY DEF Claim
  <2> QED
    BY <2>1, <2>2, <2>3
<1>6. issued' = issued \cup {token[r] : r \in batch} /\ issued' \subseteq Tokens
  BY <1>1 DEF Claim, TypeOK
<1> QED
  BY <1>3, <1>5, <1>6 DEF Claim, TypeOK

(* Writes of a worker, at the clock it read. *)
LEMMA WriteType ==
    ASSUME TypeOK, NEW r \in RunIds, NEW t \in issued, NEW at \in Nat, WorkerWrite(r, t, at),
           tx' \in [RunIds -> TxState]
    PROVE  TypeOK'
<1>1. r \in DOMAIN runs /\ runs[r] \in RunRow /\ runs[r].options \in Options
      /\ runs[r].attempt_count \in Nat
  BY DEF WorkerWrite, finalize_run, fail_run, renew_lease, Owns, Committed, TypeOK, RunRow
<1>2. /\ at + runs[r].options.lease_duration \in Nat
      /\ at + runs[r].options.retry_backoff \in Nat
  BY <1>1, OptionFacts
<1>3. ASSUME NEW outcome \in {"completed", "failed"}, finalize_run(r, t, outcome, at)
      PROVE  TypeOK'
  <2> DEFINE error == IF outcome = "failed" THEN "job error" ELSE "none"
  <2>0. outcome \in RunStates /\ error \in Errors
    BY <1>3, Literals
  <2>1. Finished(runs[r], outcome, error, at) \in RunRow
    BY <1>1, <2>0, FinishedType
  <2>2. DOMAIN runs' = DOMAIN runs /\ runs' \in [DOMAIN runs' -> RunRow]
    BY <1>1, <1>3, <2>1 DEF finalize_run, TypeOK
  <2>3. DOMAIN attempts' = DOMAIN attempts /\ attempts' \in [DOMAIN attempts' -> AttemptRow]
    <3>1. attempts' = Close({t}, outcome) /\ attempts \in [DOMAIN attempts -> AttemptRow]
      BY <1>3 DEF finalize_run, TypeOK
    <3>2. outcome \in {"completed", "failed", "expired", "cancelled"}
      BY <1>3
    <3> QED
      BY <3>1, <3>2, CloseType
  <2> QED
    BY <1>3, <2>2, <2>3 DEF finalize_run, TypeOK
<1>4. ASSUME NEW retryable \in BOOLEAN, fail_run(r, t, retryable, at)
      PROVE  TypeOK'
  <2>1. /\ Finished(runs[r], "failed", "job error", at) \in RunRow
        /\ Requeued(runs[r], at + runs[r].options.retry_backoff) \in RunRow
    BY <1>1, <1>2, FinishedType, RequeuedType, Literals
  <2>2. DOMAIN runs' = DOMAIN runs /\ runs' \in [DOMAIN runs' -> RunRow]
    BY <1>1, <1>4, <2>1 DEF fail_run, TypeOK
  <2>3. DOMAIN attempts' = DOMAIN attempts /\ attempts' \in [DOMAIN attempts' -> AttemptRow]
    BY <1>4, CloseType DEF fail_run, TypeOK
  <2> QED
    BY <1>4, <2>2, <2>3 DEF fail_run, TypeOK
<1>5. CASE renew_lease(r, t, at)
  <2>1. [runs[r] EXCEPT !.lease_expires_at = at + runs[r].options.lease_duration] \in RunRow
    BY <1>1, <1>2 DEF RunRow
  <2>2. DOMAIN runs' = DOMAIN runs /\ runs' \in [DOMAIN runs' -> RunRow]
    BY <1>1, <1>5, <2>1 DEF renew_lease, TypeOK
  <2>3. t \in DOMAIN attempts /\ attempts[t] \in AttemptRow
    BY <1>5 DEF renew_lease, HasOpenAttempt, TypeOK
  <2>4. [attempts[t] EXCEPT !.lease_expires_at = at + runs[r].options.lease_duration]
          \in AttemptRow
    BY <1>2, <2>3 DEF AttemptRow
  <2>5. DOMAIN attempts' = DOMAIN attempts /\ attempts' \in [DOMAIN attempts' -> AttemptRow]
    BY <1>5, <2>4 DEF renew_lease, RenewedAttempt, TypeOK
  <2> QED
    BY <1>5, <2>2, <2>5 DEF renew_lease, TypeOK
<1> QED
  BY <1>3, <1>4, <1>5 DEF WorkerWrite

(* Recovery requeues or fails rows and closes their attempts. *)
LEMMA RecoverType ==
    ASSUME TypeOK, NEW limit \in Limits, recover_expired(limit)
    PROVE  TypeOK'
<1>1. PICK batch \in SUBSET {r \in Committed : Unlocked(r) /\ Lapsed(r)} :
        /\ runs' = [r \in DOMAIN runs |->
                      IF r \in {x \in batch : HasOpenAttempt(runs[x].lease_token)}
                      THEN Recovered(runs[r]) ELSE runs[r]]
        /\ attempts' = Close({runs[r].lease_token : r \in batch}, "expired")
        /\ UNCHANGED <<issued, spent, tx, cancel, now>>
  BY DEF recover_expired
<1>2. \A r \in DOMAIN runs : Recovered(runs[r]) \in RunRow
  BY RequeuedType, FinishedType, Literals DEF Recovered, TypeOK
<1>3. DOMAIN runs' = DOMAIN runs /\ runs' \in [DOMAIN runs' -> RunRow]
  BY <1>1, <1>2 DEF TypeOK
<1>4. DOMAIN attempts' = DOMAIN attempts /\ attempts' \in [DOMAIN attempts' -> AttemptRow]
  BY <1>1, CloseType DEF TypeOK
<1> QED
  BY <1>1, <1>3, <1>4 DEF TypeOK

(* The steps of a cancellation. *)
LEMMA CancelType ==
    ASSUME TypeOK, NEW r \in RunIds,
           CancelStart(r) \/ CancelLock(r) \/ CancelMiss(r) \/ CancelProbe(r) \/ CancelError(r)
    PROVE  TypeOK'
<1>1. cancel[r] \in CancelState
  BY DEF TypeOK
<1>2. CASE CancelStart(r)
  <2>1. (r \in Committed) \in BOOLEAN
    OBVIOUS
  <2>2. {t \in DOMAIN attempts : attempts[t].run_id = r} \in SUBSET Tokens
    BY DEF TypeOK
  <2>3. [phase |-> "locking", visible |-> r \in Committed,
         seen |-> {t \in DOMAIN attempts : attempts[t].run_id = r}] \in CancelState
    BY <2>1, <2>2 DEF CancelState
  <2>4. cancel' \in [RunIds -> CancelState]
    BY <1>2, <2>3 DEF CancelStart, Cancelling, TypeOK
  <2> QED
    BY <1>2, <2>4 DEF CancelStart, TypeOK
<1>3. CASE CancelLock(r)
  <2>1. r \in DOMAIN runs /\ runs[r] \in RunRow /\ now \in Nat
    BY <1>3 DEF CancelLock, TypeOK
  <2>2. Finished(runs[r], "cancelled", "none", now) \in RunRow
    BY <2>1, FinishedType, Literals
  <2>3. DOMAIN runs' = DOMAIN runs /\ runs' \in [DOMAIN runs' -> RunRow]
    BY <1>3, <2>1, <2>2 DEF CancelLock, TypeOK
  <2>4. DOMAIN attempts' = DOMAIN attempts /\ attempts' \in [DOMAIN attempts' -> AttemptRow]
    BY <1>3, CloseType DEF CancelLock, TypeOK
  <2>5. [cancel[r] EXCEPT !.phase = "Cancelled", !.seen = {}] \in CancelState
    BY <1>1 DEF CancelState
  <2>6. cancel' \in [RunIds -> CancelState]
    BY <1>3, <2>5 DEF CancelLock, Cancelling, TypeOK
  <2> QED
    BY <1>3, <2>3, <2>4, <2>6 DEF CancelLock, TypeOK
<1>4. CASE CancelMiss(r)
  <2>1. [cancel[r] EXCEPT !.phase = "probing", !.seen = {}] \in CancelState
    BY <1>1 DEF CancelState
  <2>2. cancel' \in [RunIds -> CancelState]
    BY <1>4, <2>1 DEF CancelMiss, Cancelling, TypeOK
  <2> QED
    BY <1>4, <2>2 DEF CancelMiss, TypeOK
<1>5. CASE CancelProbe(r)
  <2>1. [cancel[r] EXCEPT !.phase = IF r \in Committed THEN "AlreadyTerminal" ELSE "NotFound"]
          \in CancelState
    BY <1>1 DEF CancelState
  <2>2. cancel' \in [RunIds -> CancelState]
    BY <1>5, <2>1 DEF CancelProbe, Cancelling, TypeOK
  <2> QED
    BY <1>5, <2>2 DEF CancelProbe, TypeOK
<1>6. CASE CancelError(r)
  <2>1. NoCancel \in CancelState
    BY DEF NoCancel, CancelState
  <2>2. cancel' \in [RunIds -> CancelState]
    BY <1>6, <2>1 DEF CancelError, Cancelling, TypeOK
  <2> QED
    BY <1>6, <2>2 DEF CancelError, TypeOK
<1> QED
  BY <1>2, <1>3, <1>4, <1>5, <1>6

(* Retention drops rows and their attempts. *)
LEMMA PruneType ==
    ASSUME TypeOK, NEW before, NEW limit \in Limits, prune_terminal(before, limit)
    PROVE  TypeOK'
<1>1. PICK doomed \in SUBSET Prunable(before) :
        /\ runs' = [r \in DOMAIN runs \ doomed |-> runs[r]]
        /\ attempts' = [t \in {u \in DOMAIN attempts : attempts[u].run_id \notin doomed}
                          |-> attempts[t]]
        /\ spent' = spent \cup doomed
        /\ UNCHANGED <<issued, tx, cancel, now>>
  BY DEF prune_terminal
<1>2. doomed \subseteq RunIds
  BY <1>1 DEF Prunable, Committed, TypeOK
<1>3. DOMAIN runs' \subseteq DOMAIN runs /\ runs' \in [DOMAIN runs' -> RunRow]
  BY <1>1 DEF TypeOK
<1>4. DOMAIN attempts' \subseteq DOMAIN attempts /\ attempts' \in [DOMAIN attempts' -> AttemptRow]
  BY <1>1 DEF TypeOK
<1> QED
  BY <1>1, <1>2, <1>3, <1>4 DEF TypeOK

(* Every step keeps the types. *)
LEMMA TypeStep ==
    TypeOK /\ [Next]_vars => TypeOK'
<1> SUFFICES ASSUME TypeOK, [Next]_vars PROVE TypeOK'
  OBVIOUS
<1>1. CASE Produce
  <2>1. ASSUME NEW r \in FreeIds, NEW opt \in Options, NEW at \in StartTimes \cup {Null},
               EnqueueInsert(r, opt, at)
        PROVE  TypeOK'
    BY <2>1, EnqueueType
  <2>2. ASSUME NEW r \in RunIds,
               \/ \E opt \in Options : EnqueueDuplicate(r, opt)
               \/ ProducerCommit(r) \/ RollbackInsert(r) \/ RollbackDuplicate(r)
        PROVE  TypeOK'
    BY <2>2, ProducerType
  <2> QED
    BY <1>1, <2>1, <2>2 DEF Produce
<1>2. CASE Work
  <2>1. ASSUME NEW names \in NameSets, NEW limit \in Limits, ClaimBatch(names, limit)
        PROVE  TypeOK'
    <3>1. PICK batch \in SUBSET Eligible(names) :
            \E token \in [batch -> FreshTokens], at \in [batch -> ClaimClocks(batch)] :
              Claim(batch, token, at)
      BY <2>1 DEF ClaimBatch, ClaimAmong, Batches
    <3>2. PICK token \in [batch -> FreshTokens], at \in [batch -> ClaimClocks(batch)] :
            Claim(batch, token, at)
      BY <3>1
    <3>3. batch \in SUBSET DOMAIN runs
      BY <3>1 DEF Eligible, Committed
    <3> QED
      BY <3>2, <3>3, ClaimType
  <2>2. ASSUME NEW r \in RunIds, NEW t \in issued, DirectWrite(r, t)
        PROVE  TypeOK'
    <3>1. WorkerWrite(r, t, now) /\ now \in Nat /\ tx' \in [RunIds -> TxState]
      BY <2>2 DEF DirectWrite, TypeOK
    <3> QED
      BY <3>1, WriteType
  <2>3. ASSUME NEW r \in RunIds, NEW t \in issued, DelayedWrite(r, t)
        PROVE  TypeOK'
    <3>1. tx[r].since \in Nat /\ now \in Nat
      BY DEF TypeOK, TxState
    <3>2. PICK at \in tx[r].since .. now : WorkerWrite(r, t, at)
      BY <2>3 DEF DelayedWrite
    <3>3. at \in Nat
      BY <3>1, <3>2
    <3>4. tx' \in [RunIds -> TxState]
      BY <2>3 DEF DelayedWrite, TypeOK, TxState, NoTx
    <3> QED
      BY <3>2, <3>3, <3>4, WriteType
  <2>4. ASSUME NEW limit \in Limits, recover_expired(limit)
        PROVE  TypeOK'
    BY <2>4, RecoverType
  <2> QED
    BY <1>2, <2>1, <2>2, <2>3, <2>4 DEF Work
<1>3. CASE Administer
  <2>1. ASSUME NEW r \in Cancellable,
               CancelStart(r) \/ CancelLock(r) \/ CancelMiss(r) \/ CancelProbe(r)
                 \/ CancelError(r)
        PROVE  TypeOK'
    BY <2>1, CancelType, CancellableAssumption
  <2>2. ASSUME NEW before \in 1 .. MaxTime + 1, NEW limit \in Limits,
               prune_terminal(before, limit)
        PROVE  TypeOK'
    BY <2>2, PruneType
  <2> QED
    BY <1>3, <2>1, <2>2 DEF Administer
<1>4. CASE Tick
  BY <1>4 DEF Tick, TypeOK
<1>5. CASE UNCHANGED vars
  BY <1>5 DEF vars, TypeOK
<1> QED
  BY <1>1, <1>2, <1>3, <1>4, <1>5 DEF Next

(* The tables, locks and calls keep their types in every reachable state   *)
(* (claim, worker writes, recovery, cancellation, retention and enqueue).  *)
THEOREM TypeCorrect == Spec => []TypeOK
<1>1. Init => TypeOK
  BY DEF Init, TypeOK, NoTx, TxState, NoCancel, CancelState
<1> QED
  BY <1>1, TypeStep, PTL DEF Spec

-----------------------------------------------------------------------------
(* The inductive invariant                                                 *)

(* A running row that is closed with this outcome. *)
ClosedRow(row, new, outcome) ==
    /\ new.state # "running"
    /\ new.attempt_count = row.attempt_count
    /\ outcome \in {"failed", "expired"} => new.state \in {"pending", "failed"}
    /\ outcome \in {"completed", "cancelled"} => new.state = outcome
    /\ outcome = "expired" => row.lease_expires_at <= now

(***************************************************************************)
(* Completion, failure, expiry and cancellation of running tasks are one   *)
(* kind of step: the rows of S leave state running for the rows `new',     *)
(* with the same claims, and the attempts of their leases are closed.      *)
(***************************************************************************)
Closing(S, new, outcome) ==
    /\ S \in SUBSET DOMAIN runs /\ new \in [S -> RunRow]
    /\ outcome \in {"completed", "failed", "expired", "cancelled"}
    /\ \A r \in S : runs[r].state = "running"
    /\ runs' = [r \in DOMAIN runs |-> IF r \in S THEN new[r] ELSE runs[r]]
    /\ attempts' = Close({runs[r].lease_token : r \in S}, outcome)
    /\ \A r \in RunIds : tx'[r] = tx[r] \/ tx'[r].kind = "none"
    /\ now' = now
    /\ \A r \in S : RowOK(new[r]) /\ ClosedRow(runs[r], new[r], outcome)

(* Such a step preserves the invariant. *)
LEMMA CloseStep ==
    ASSUME StoreInv, TypeOK', NEW S, NEW new, NEW outcome, Closing(S, new, outcome)
    PROVE  StoreInv'
<1> SUFFICES ASSUME
        S \in SUBSET DOMAIN runs, new \in [S -> RunRow],
        outcome \in {"completed", "failed", "expired", "cancelled"},
        \A r \in S : runs[r].state = "running",
        runs' = [r \in DOMAIN runs |-> IF r \in S THEN new[r] ELSE runs[r]],
        attempts' = Close({runs[r].lease_token : r \in S}, outcome),
        \A r \in RunIds : tx'[r] = tx[r] \/ tx'[r].kind = "none",
        now' = now,
        \A r \in S : /\ RowOK(new[r])
                     /\ new[r].state # "running"
                     /\ new[r].attempt_count = runs[r].attempt_count
                     /\ outcome \in {"failed", "expired"} =>
                          new[r].state \in {"pending", "failed"}
                     /\ outcome \in {"completed", "cancelled"} => new[r].state = outcome
                     /\ outcome = "expired" => runs[r].lease_expires_at <= now
      PROVE  StoreInv'
  BY DEF Closing, ClosedRow
<1> DEFINE tokens == {runs[r].lease_token : r \in S}
<1>1. /\ DOMAIN runs' = DOMAIN runs
      /\ \A r \in S : runs'[r] = new[r]
      /\ \A r \in DOMAIN runs \ S : runs'[r] = runs[r]
      /\ \A r \in DOMAIN runs : runs'[r].attempt_count = runs[r].attempt_count
  OBVIOUS
<1>2. /\ DOMAIN attempts' = DOMAIN attempts
      /\ \A t \in DOMAIN attempts :
           /\ attempts'[t].run_id = attempts[t].run_id
           /\ attempts'[t].attempt_number = attempts[t].attempt_number
           /\ attempts'[t].lease_expires_at = attempts[t].lease_expires_at
           /\ t \in tokens /\ attempts[t].outcome = "open" => attempts'[t].outcome = outcome
           /\ t \notin tokens \/ attempts[t].outcome # "open" => attempts'[t] = attempts[t]
  BY CloseType DEF StoreInv, TypeOK
<1>3. /\ \A r \in DOMAIN runs : runs[r].state = "running" =>
           /\ runs[r].lease_token \in DOMAIN attempts
           /\ attempts[runs[r].lease_token].outcome = "open"
           /\ attempts[runs[r].lease_token].run_id = r
           /\ attempts[runs[r].lease_token].attempt_number = runs[r].attempt_count
           /\ attempts[runs[r].lease_token].lease_expires_at = runs[r].lease_expires_at
      /\ \A t \in DOMAIN attempts : attempts[t].outcome = "open" =>
           /\ attempts[t].run_id \in DOMAIN runs
           /\ runs[attempts[t].run_id].state = "running"
           /\ runs[attempts[t].run_id].lease_token = t
  BY DEF StoreInv, LiveAttempt, HasOpenAttempt, Holds
<1>4. \A t \in DOMAIN attempts : attempts[t].outcome = "open" =>
         (t \in tokens <=> attempts[t].run_id \in S)
  BY <1>3
<1>5. \A t \in DOMAIN attempts :
         attempts'[t].outcome = IF attempts[t].outcome = "open" /\ attempts[t].run_id \in S
                                THEN outcome ELSE attempts[t].outcome
  BY <1>2, <1>4
<1> HIDE DEF tokens
<1>6. RowStates'
  BY <1>1 DEF StoreInv, RowStates
<1>7. LiveAttempt'
  <2>1. ASSUME NEW r \in DOMAIN runs', runs'[r].state = "running"
        PROVE  /\ runs'[r].lease_token \in DOMAIN attempts'
               /\ attempts'[runs'[r].lease_token].outcome = "open"
               /\ attempts'[runs'[r].lease_token].run_id = r
               /\ attempts'[runs'[r].lease_token].attempt_number = runs'[r].attempt_count
               /\ attempts'[runs'[r].lease_token].lease_expires_at = runs'[r].lease_expires_at
    BY <1>1, <1>2, <1>3, <1>5, <2>1
  <2>2. ASSUME NEW t \in DOMAIN attempts', attempts'[t].outcome = "open"
        PROVE  /\ attempts'[t].run_id \in DOMAIN runs'
               /\ runs'[attempts'[t].run_id].state = "running"
               /\ runs'[attempts'[t].run_id].lease_token = t
    BY <1>1, <1>2, <1>3, <1>5, <2>2
  <2> QED
    BY <2>1, <2>2 DEF LiveAttempt, HasOpenAttempt, Holds
<1>8. LedgerKeys'
  <2>1. /\ \A t \in DOMAIN attempts :
             /\ attempts[t].run_id \in DOMAIN runs
             /\ attempts[t].attempt_number <= runs[attempts[t].run_id].attempt_count
        /\ \A t, u \in DOMAIN attempts :
             /\ attempts[t].run_id = attempts[u].run_id
             /\ attempts[t].attempt_number = attempts[u].attempt_number
             => t = u
    BY DEF StoreInv, AttemptLedger, LedgerKeys
  <2>2. ASSUME NEW r \in DOMAIN runs', NEW n \in 1 .. runs'[r].attempt_count
        PROVE  Recorded(r, n)'
    <3>1. Recorded(r, n)
      BY <1>1 DEF StoreInv, AttemptLedger, LedgerKeys
    <3>2. PICK t \in DOMAIN attempts : attempts[t].run_id = r /\ attempts[t].attempt_number = n
      BY <3>1 DEF Recorded
    <3> QED
      BY <1>2, <3>2 DEF Recorded
  <2>3. \A t \in DOMAIN attempts' :
           /\ attempts'[t].run_id \in DOMAIN runs'
           /\ attempts'[t].attempt_number <= runs'[attempts'[t].run_id].attempt_count
    BY <1>1, <1>2, <2>1
  <2>4. \A t, u \in DOMAIN attempts' :
           /\ attempts'[t].run_id = attempts'[u].run_id
           /\ attempts'[t].attempt_number = attempts'[u].attempt_number
           => t = u
    BY <1>2, <2>1
  <2> QED
    BY <2>2, <2>3, <2>4 DEF LedgerKeys
<1>9. LedgerOutcomes'
  <2>1. ASSUME NEW t \in DOMAIN attempts'
        PROVE  OutcomeFits(attempts'[t], runs'[attempts'[t].run_id])
    <3> DEFINE r == attempts[t].run_id
    <3>1. t \in DOMAIN attempts /\ r \in DOMAIN runs /\ attempts'[t].run_id = r
      BY <1>2, <2>1 DEF StoreInv, AttemptLedger, LedgerKeys
    <3>2. CASE r \notin S
      BY <1>1, <1>2, <1>5, <3>1, <3>2 DEF StoreInv, AttemptLedger, LedgerOutcomes, OutcomeFits, CompletedOnRecord
    <3>3. CASE r \in S /\ attempts[t].outcome = "open"
      <4>1. attempts[t].attempt_number = runs[r].attempt_count
        BY <1>3, <3>1, <3>3
      <4>2. attempts'[t].outcome = outcome /\ runs'[r] = new[r]
        BY <1>1, <1>5, <3>1, <3>3
      <4>3. /\ attempts'[t].attempt_number = runs'[r].attempt_count
            /\ runs[r].attempt_count \in Nat
        BY <1>1, <1>2, <3>1, <4>1 DEF StoreInv, TypeOK, RunRow
      <4> QED
        BY <3>1, <3>3, <4>2, <4>3 DEF OutcomeFits
    <3>4. CASE r \in S /\ attempts[t].outcome # "open"
      <4>1. runs[r].state = "running" /\ attempts'[t] = attempts[t]
        BY <1>2, <3>1, <3>4
      <4>2. attempts[t].attempt_number # runs[r].attempt_count
        <5>1. runs[r].lease_token \in DOMAIN attempts /\ runs[r].lease_token # t
              /\ attempts[runs[r].lease_token].run_id = r
              /\ attempts[runs[r].lease_token].attempt_number = runs[r].attempt_count
          BY <1>3, <3>1, <3>4, <4>1
        <5> QED
          BY <3>1, <5>1 DEF StoreInv, AttemptLedger, LedgerKeys
      <4>3. attempts[t].attempt_number < runs[r].attempt_count
        <5>1. attempts[t] \in AttemptRow /\ runs[r] \in RunRow
          BY <3>1 DEF StoreInv, TypeOK
        <5>2. attempts[t].attempt_number \in Nat /\ runs[r].attempt_count \in Nat
          BY <5>1 DEF AttemptRow, RunRow
        <5>3. attempts[t].attempt_number <= runs[r].attempt_count
          BY <3>1 DEF StoreInv, AttemptLedger, LedgerKeys
        <5> QED
          BY <4>2, <5>2, <5>3
      <4>4. attempts[t].outcome \in {"failed", "expired"}
        BY <3>1, <4>3 DEF StoreInv, AttemptLedger, LedgerOutcomes, OutcomeFits, CompletedOnRecord
      <4> QED
        BY <3>1, <4>1, <4>4 DEF OutcomeFits
    <3> QED
      BY <3>2, <3>3, <3>4
  <2>2. ASSUME NEW r \in DOMAIN runs', runs'[r].state = "completed"
        PROVE  CompletedOnRecord(r)'
    <3>1. CASE r \notin S
      <4>1. r \in DOMAIN runs /\ runs[r].state = "completed"
        BY <1>1, <2>2, <3>1
      <4>2. PICK t \in DOMAIN attempts : /\ attempts[t].run_id = r
                                         /\ attempts[t].attempt_number = runs[r].attempt_count
                                         /\ attempts[t].outcome = "completed"
        BY <4>1 DEF StoreInv, AttemptLedger, LedgerOutcomes, OutcomeFits, CompletedOnRecord
      <4> QED
        BY <1>1, <1>2, <1>5, <4>1, <4>2 DEF CompletedOnRecord
    <3>2. CASE r \in S
      <4>1. outcome = "completed"
        BY <1>1, <2>2, <3>2
      <4>2. /\ runs[r].lease_token \in DOMAIN attempts
            /\ attempts[runs[r].lease_token].outcome = "open"
            /\ attempts[runs[r].lease_token].run_id = r
            /\ attempts[runs[r].lease_token].attempt_number = runs[r].attempt_count
        BY <1>3, <3>2
      <4>3. /\ runs[r].lease_token \in DOMAIN attempts'
            /\ attempts'[runs[r].lease_token].outcome = "completed"
            /\ attempts'[runs[r].lease_token].run_id = r
            /\ attempts'[runs[r].lease_token].attempt_number = runs[r].attempt_count
        BY <1>2, <1>5, <3>2, <4>1, <4>2
      <4> QED
        BY <1>1, <3>2, <4>3 DEF CompletedOnRecord
    <3> QED
      BY <3>1, <3>2
  <2> QED
    BY <2>1, <2>2 DEF LedgerOutcomes
<1>10. ProducerRows'
  BY <1>1 DEF StoreInv, ProducerRows
<1>11. ExpiredIsPast'
  BY <1>2, <1>3, <1>5 DEF StoreInv, ExpiredIsPast
<1> QED
  BY <1>6, <1>7, <1>8, <1>9, <1>10, <1>11 DEF StoreInv, AttemptLedger

(* A step that leaves both tables alone. *)
LEMMA FrameStep ==
    ASSUME StoreInv, TypeOK', ProducerRows', UNCHANGED <<runs, attempts>>, now' >= now
    PROVE  StoreInv'
<1>1. RowStates' /\ LiveAttempt' /\ AttemptLedger'
  BY DEF StoreInv, RowStates, LiveAttempt, HasOpenAttempt, Holds, AttemptLedger, LedgerKeys,
         LedgerOutcomes, Recorded, CompletedOnRecord, OutcomeFits
<1>2. ExpiredIsPast'
  <2> SUFFICES ASSUME NEW t \in DOMAIN attempts, attempts[t].outcome = "expired"
               PROVE  attempts[t].lease_expires_at <= now'
    BY DEF ExpiredIsPast
  <2>1. attempts[t].lease_expires_at \in Nat /\ now \in Nat /\ now' \in Nat
    BY DEF StoreInv, TypeOK, AttemptRow
  <2> QED
    BY <2>1 DEF StoreInv, ExpiredIsPast
<1> QED
  BY <1>1, <1>2 DEF StoreInv

(* Rows that are not running leave the table together with their attempts. *)
LEMMA RemoveStep ==
    ASSUME StoreInv, TypeOK', NEW D \in SUBSET DOMAIN runs,
           \A r \in D : runs[r].state # "running",
           runs' = [r \in DOMAIN runs \ D |-> runs[r]],
           attempts' = [t \in {u \in DOMAIN attempts : attempts[u].run_id \notin D}
                          |-> attempts[t]],
           \A r \in RunIds : tx'[r] = tx[r] \/ tx'[r].kind = "none",
           \A r \in D : tx'[r].kind = "none",
           now' = now
    PROVE  StoreInv'
<1>1. /\ DOMAIN runs' = DOMAIN runs \ D
      /\ \A r \in DOMAIN runs' : runs'[r] = runs[r]
  OBVIOUS
<1>2. /\ \A t : t \in DOMAIN attempts' <=> t \in DOMAIN attempts /\ attempts[t].run_id \notin D
      /\ \A t \in DOMAIN attempts' : attempts'[t] = attempts[t]
  OBVIOUS
<1>3. RowStates'
  BY <1>1 DEF StoreInv, RowStates
<1>4. LiveAttempt'
  <2>1. ASSUME NEW r \in DOMAIN runs', runs'[r].state = "running"
        PROVE  /\ runs'[r].lease_token \in DOMAIN attempts'
               /\ attempts'[runs'[r].lease_token].outcome = "open"
               /\ attempts'[runs'[r].lease_token].run_id = r
               /\ attempts'[runs'[r].lease_token].attempt_number = runs'[r].attempt_count
               /\ attempts'[runs'[r].lease_token].lease_expires_at = runs'[r].lease_expires_at
    <3>1. /\ runs[r].lease_token \in DOMAIN attempts
          /\ attempts[runs[r].lease_token].outcome = "open"
          /\ attempts[runs[r].lease_token].run_id = r
          /\ attempts[runs[r].lease_token].attempt_number = runs[r].attempt_count
          /\ attempts[runs[r].lease_token].lease_expires_at = runs[r].lease_expires_at
      BY <1>1, <2>1 DEF StoreInv, LiveAttempt, HasOpenAttempt
    <3> QED
      BY <1>1, <1>2, <2>1, <3>1
  <2>2. ASSUME NEW t \in DOMAIN attempts', attempts'[t].outcome = "open"
        PROVE  /\ attempts'[t].run_id \in DOMAIN runs'
               /\ runs'[attempts'[t].run_id].state = "running"
               /\ runs'[attempts'[t].run_id].lease_token = t
    <3>1. Holds(t, attempts[t].run_id)
      BY <1>2, <2>2 DEF StoreInv, LiveAttempt
    <3> QED
      BY <1>1, <1>2, <2>2, <3>1 DEF Holds
  <2> QED
    BY <2>1, <2>2 DEF LiveAttempt, HasOpenAttempt, Holds
<1>5. LedgerKeys'
  <2>1. \A t \in DOMAIN attempts' :
           /\ attempts'[t].run_id \in DOMAIN runs'
           /\ attempts'[t].attempt_number <= runs'[attempts'[t].run_id].attempt_count
    BY <1>1, <1>2 DEF StoreInv, AttemptLedger, LedgerKeys
  <2>2. \A t, u \in DOMAIN attempts' :
           /\ attempts'[t].run_id = attempts'[u].run_id
           /\ attempts'[t].attempt_number = attempts'[u].attempt_number
           => t = u
    BY <1>2 DEF StoreInv, AttemptLedger, LedgerKeys
  <2>3. ASSUME NEW r \in DOMAIN runs', NEW n \in 1 .. runs'[r].attempt_count
        PROVE  Recorded(r, n)'
    <3>1. Recorded(r, n)
      BY <1>1 DEF StoreInv, AttemptLedger, LedgerKeys
    <3> QED
      BY <1>1, <1>2, <3>1 DEF Recorded
  <2> QED
    BY <2>1, <2>2, <2>3 DEF LedgerKeys
<1>6. LedgerOutcomes'
  <2>1. ASSUME NEW t \in DOMAIN attempts'
        PROVE  OutcomeFits(attempts'[t], runs'[attempts'[t].run_id])
    <3>1. /\ attempts'[t] = attempts[t] /\ t \in DOMAIN attempts
          /\ runs'[attempts'[t].run_id] = runs[attempts[t].run_id]
      BY <1>1, <1>2, <2>1 DEF StoreInv, AttemptLedger, LedgerKeys
    <3> QED
      BY <3>1 DEF StoreInv, AttemptLedger, LedgerOutcomes, OutcomeFits, CompletedOnRecord
  <2>2. ASSUME NEW r \in DOMAIN runs', runs'[r].state = "completed"
        PROVE  CompletedOnRecord(r)'
    BY <1>1, <1>2, <2>2 DEF StoreInv, AttemptLedger, LedgerOutcomes, OutcomeFits, CompletedOnRecord
  <2> QED
    BY <2>1, <2>2 DEF LedgerOutcomes
<1>7. ProducerRows'
  BY <1>1 DEF StoreInv, ProducerRows, TypeOK
<1>8. ExpiredIsPast'
  BY <1>2 DEF StoreInv, ExpiredIsPast
<1> QED
  BY <1>3, <1>4, <1>5, <1>6, <1>7, <1>8 DEF StoreInv, AttemptLedger

(* A row that is not running and was never claimed may be added or replaced *)
(* by one that is not running either, with the same claims.                 *)
LEMMA ReplaceStep ==
    ASSUME StoreInv, TypeOK', NEW r \in RunIds, NEW row \in RunRow, RowOK(row),
           row.state \notin {"running", "completed"},
           \/ r \notin DOMAIN runs /\ row.attempt_count = 0
           \/ /\ r \in DOMAIN runs /\ runs[r].state = "pending" /\ row.state # "pending"
              /\ row.attempt_count = runs[r].attempt_count
              /\ tx[r].kind = "none",
           runs' = [x \in DOMAIN runs \cup {r} |-> IF x = r THEN row ELSE runs[x]],
           UNCHANGED <<attempts, now>>,
           \A x \in RunIds \ {r} : tx'[x] = tx[x],
           tx'[r].kind = "insert" => row.state = "pending" /\ row.attempt_count = 0
    PROVE  StoreInv'
<1>1. /\ DOMAIN runs' = DOMAIN runs \cup {r}
      /\ runs'[r] = row
      /\ \A x \in DOMAIN runs \ {r} : runs'[x] = runs[x]
  OBVIOUS
<1>2. RowStates'
  BY <1>1 DEF StoreInv, RowStates
<1>3. \A t \in DOMAIN attempts : attempts[t].run_id \in DOMAIN runs
  BY DEF StoreInv, AttemptLedger, LedgerKeys
<1>4. LiveAttempt'
  BY <1>1, <1>3 DEF StoreInv, LiveAttempt, HasOpenAttempt, Holds
<1>5. LedgerKeys'
  <2>1. \A t \in DOMAIN attempts :
           /\ attempts[t].run_id \in DOMAIN runs'
           /\ attempts[t].attempt_number <= runs'[attempts[t].run_id].attempt_count
    BY <1>1, <1>3 DEF StoreInv, AttemptLedger, LedgerKeys
  <2>2. ASSUME NEW x \in DOMAIN runs', NEW n \in 1 .. runs'[x].attempt_count
        PROVE  Recorded(x, n)'
    <3>1. x \in DOMAIN runs /\ runs'[x].attempt_count = runs[x].attempt_count
      BY <1>1, <2>2
    <3>2. Recorded(x, n)
      BY <3>1 DEF StoreInv, AttemptLedger, LedgerKeys
    <3> QED
      BY <3>2 DEF Recorded
  <2> QED
    BY <2>1, <2>2 DEF StoreInv, AttemptLedger, LedgerKeys
<1>6. LedgerOutcomes'
  <2>1. ASSUME NEW t \in DOMAIN attempts'
        PROVE  OutcomeFits(attempts'[t], runs'[attempts'[t].run_id])
    BY <1>1, <1>3 DEF StoreInv, AttemptLedger, LedgerOutcomes, OutcomeFits, CompletedOnRecord
  <2>2. ASSUME NEW x \in DOMAIN runs', runs'[x].state = "completed"
        PROVE  CompletedOnRecord(x)'
    BY <1>1, <2>2 DEF StoreInv, AttemptLedger, LedgerOutcomes, OutcomeFits, CompletedOnRecord
  <2> QED
    BY <2>1, <2>2 DEF LedgerOutcomes
<1>7. ProducerRows'
  BY <1>1 DEF StoreInv, ProducerRows
<1>8. ExpiredIsPast'
  BY DEF StoreInv, ExpiredIsPast
<1> QED
  BY <1>2, <1>4, <1>5, <1>6, <1>7, <1>8 DEF StoreInv, AttemptLedger

(* The row transformers respect the CHECK constraints. *)
LEMMA NewRowOK ==
    ASSUME NEW opt \in Options, NEW at \in Nat
    PROVE  RowOK(NewRow(opt, at)) /\ NewRow(opt, at).state = "pending"
           /\ NewRow(opt, at).attempt_count = 0
BY OptionFacts DEF RowOK, NewRow, Terminal

(* A claim stays inside the attempt budget of a pending row. *)
LEMMA LeasedOK ==
    ASSUME NEW row \in RunRow, NEW t \in Tokens, NEW at \in Nat, now \in Nat, RowOK(row),
           row.state = "pending"
    PROVE  RowOK(Leased(row, t, at))
<1>1. row.options \in Options /\ row.attempt_count \in Nat
  BY DEF RunRow
<1>2. row.options.max_attempts \in Nat /\ at + row.options.lease_duration \in Nat
  BY <1>1, OptionFacts
<1>3. /\ Leased(row, t, at).state = "running"
      /\ Leased(row, t, at).attempt_count = row.attempt_count + 1
      /\ Leased(row, t, at).lease_token = t
      /\ Leased(row, t, at).lease_expires_at = at + row.options.lease_duration
      /\ Leased(row, t, at).started_at = now
      /\ Leased(row, t, at).options = row.options
      /\ Leased(row, t, at).finished_at = row.finished_at
      /\ Leased(row, t, at).last_error = row.last_error
  BY LeasedType
<1>4. row.attempt_count < row.options.max_attempts /\ row.finished_at = Null
      /\ row.last_error = "none"
  BY DEF RowOK, Terminal
<1>5. t # Null /\ at + row.options.lease_duration # Null /\ now # Null
  BY <1>2, NullAssumption
<1> QED
  BY <1>1, <1>2, <1>3, <1>4, <1>5 DEF RowOK, Terminal

(* A finished row has finished_at, no lease, and an error iff it failed. *)
LEMMA FinishedOK ==
    ASSUME NEW row \in RunRow, NEW state \in Terminal, NEW error \in Errors, NEW at \in Nat,
           RowOK(row), state = "failed" <=> error # "none"
    PROVE  /\ RowOK(Finished(row, state, error, at))
           /\ Finished(row, state, error, at) \in RunRow
           /\ Finished(row, state, error, at).state = state
           /\ Finished(row, state, error, at).attempt_count = row.attempt_count
<1>1. state \in RunStates /\ at # Null
  BY NullAssumption DEF RunStates, Terminal
<1>2. /\ Finished(row, state, error, at) \in RunRow
      /\ Finished(row, state, error, at).state = state
      /\ Finished(row, state, error, at).attempt_count = row.attempt_count
      /\ Finished(row, state, error, at).lease_token = Null
      /\ Finished(row, state, error, at).lease_expires_at = Null
      /\ Finished(row, state, error, at).started_at = Null
      /\ Finished(row, state, error, at).options = row.options
      /\ Finished(row, state, error, at).finished_at = at
      /\ Finished(row, state, error, at).last_error = error
  BY <1>1, FinishedType
<1> QED
  BY <1>1, <1>2 DEF RowOK, Terminal

(* Failing a task for good, with either of the two errors. *)
LEMMA FailedOK ==
    ASSUME NEW row \in RunRow, NEW error \in Errors \ {"none"}, NEW at \in Nat, RowOK(row)
    PROVE  /\ RowOK(Finished(row, "failed", error, at))
           /\ Finished(row, "failed", error, at) \in RunRow
           /\ Finished(row, "failed", error, at).state = "failed"
           /\ Finished(row, "failed", error, at).attempt_count = row.attempt_count
<1>1. "failed" \in Terminal /\ error \in Errors /\ error # "none"
  BY DEF Terminal
<1> QED
  BY <1>1, FinishedOK

(* Cancelling a task. *)
LEMMA CancelledOK ==
    ASSUME NEW row \in RunRow, NEW at \in Nat, RowOK(row)
    PROVE  /\ RowOK(Finished(row, "cancelled", "none", at))
           /\ Finished(row, "cancelled", "none", at) \in RunRow
           /\ Finished(row, "cancelled", "none", at).state = "cancelled"
           /\ Finished(row, "cancelled", "none", at).attempt_count = row.attempt_count
<1>1. "cancelled" \in Terminal /\ "none" \in Errors
  BY DEF Terminal, Errors
<1> QED
  BY <1>1, FinishedOK

(* A requeued row has attempts left and no lease. *)
LEMMA RequeuedOK ==
    ASSUME NEW row \in RunRow, NEW at \in Nat, RowOK(row), row.state = "running",
           AttemptsLeft(row)
    PROVE  RowOK(Requeued(row, at))
<1>1. /\ Requeued(row, at).state = "pending"
      /\ Requeued(row, at).attempt_count = row.attempt_count
      /\ Requeued(row, at).lease_token = Null
      /\ Requeued(row, at).lease_expires_at = Null
      /\ Requeued(row, at).started_at = Null
      /\ Requeued(row, at).options = row.options
      /\ Requeued(row, at).finished_at = row.finished_at
      /\ Requeued(row, at).last_error = row.last_error
  BY RequeuedType
<1> QED
  BY <1>1 DEF RowOK, AttemptsLeft, Terminal

(* Producers preserve the invariant. *)
LEMMA EnqueueInv ==
    ASSUME StoreInv, TypeOK', NEW r \in FreeIds, NEW opt \in Options,
           NEW at \in StartTimes \cup {Null}, EnqueueInsert(r, opt, at)
    PROVE  StoreInv'
<1>1. AvailableAt(at) \in Nat
  BY StartAssumption DEF AvailableAt, StoreInv, TypeOK
<1> DEFINE row == NewRow(opt, AvailableAt(at))
<1>2. row \in RunRow /\ RowOK(row) /\ row.state = "pending" /\ row.attempt_count = 0
  BY <1>1, NewRowType, NewRowOK
<1>3. r \in RunIds /\ r \notin DOMAIN runs
  BY DEF FreeIds
<1>4. /\ runs' = [x \in DOMAIN runs \cup {r} |-> IF x = r THEN row ELSE runs[x]]
      /\ UNCHANGED <<attempts, now>>
      /\ \A x \in RunIds \ {r} : tx'[x] = tx[x]
  BY DEF EnqueueInsert, StoreInv, TypeOK
<1> HIDE DEF row
<1> QED
  BY <1>2, <1>3, <1>4, ReplaceStep

(* Duplicates, commits and rollbacks preserve the invariant. *)
LEMMA ProducerInv ==
    ASSUME StoreInv, TypeOK', NEW r \in RunIds,
           \/ \E opt \in Options : EnqueueDuplicate(r, opt)
           \/ ProducerCommit(r) \/ RollbackInsert(r) \/ RollbackDuplicate(r)
    PROVE  StoreInv'
<1>0. tx \in [RunIds -> TxState] /\ now \in Nat
  BY DEF StoreInv, TypeOK
<1>1. CASE \E opt \in Options : EnqueueDuplicate(r, opt)
  <2>1. UNCHANGED <<runs, attempts, now>> /\ r \in DOMAIN runs
    BY <1>1 DEF EnqueueDuplicate, Conflicts
  <2>2. tx' = [tx EXCEPT ![r] = [kind |-> "duplicate", since |-> now]]
    BY <1>1 DEF EnqueueDuplicate
  <2>3. ProducerRows'
    BY <1>0, <2>1, <2>2 DEF StoreInv, ProducerRows
  <2> QED
    BY <1>0, <2>1, <2>3, FrameStep
<1>2. CASE ProducerCommit(r) \/ RollbackDuplicate(r)
  <2>1. UNCHANGED <<runs, attempts, now>> /\ tx' = [tx EXCEPT ![r] = NoTx]
    BY <1>2 DEF ProducerCommit, RollbackDuplicate
  <2>2. ProducerRows'
    BY <1>0, <2>1 DEF StoreInv, ProducerRows, NoTx
  <2> QED
    BY <1>0, <2>1, <2>2, FrameStep
<1>3. CASE RollbackInsert(r)
  <2>1. r \in DOMAIN runs /\ runs[r].state = "pending" /\ runs[r].attempt_count = 0
    BY <1>3 DEF RollbackInsert, StoreInv, ProducerRows
  <2>2. \A t \in DOMAIN attempts : attempts[t].run_id # r
    <3> SUFFICES ASSUME NEW t \in DOMAIN attempts, attempts[t].run_id = r PROVE FALSE
      OBVIOUS
    <3>1. attempts[t].attempt_number \in Nat \ {0}
      BY DEF StoreInv, TypeOK, AttemptRow
    <3>2. attempts[t].attempt_number <= runs[r].attempt_count
      BY DEF StoreInv, AttemptLedger, LedgerKeys
    <3> QED
      BY <2>1, <3>1, <3>2
  <2>3. attempts' = [t \in {u \in DOMAIN attempts : attempts[u].run_id \notin {r}}
                       |-> attempts[t]]
    BY <1>3, <2>2 DEF RollbackInsert, StoreInv, TypeOK
  <2>4. /\ runs' = [x \in DOMAIN runs \ {r} |-> runs[x]]
        /\ tx' = [tx EXCEPT ![r] = NoTx] /\ now' = now
    BY <1>3 DEF RollbackInsert
  <2>5. \A x \in RunIds : (tx'[x] = tx[x] \/ tx'[x].kind = "none") /\ tx'[r].kind = "none"
    BY <1>0, <2>4 DEF NoTx
  <2>6. /\ {r} \in SUBSET DOMAIN runs
        /\ \A x \in {r} : runs[x].state # "running" /\ tx'[x].kind = "none"
    BY <2>1, <2>5
  <2> QED
    BY <2>3, <2>4, <2>5, <2>6, RemoveStep
<1> QED
  BY <1>1, <1>2, <1>3

(* Retention preserves the invariant: only terminal rows go. *)
LEMMA PruneInv ==
    ASSUME StoreInv, TypeOK', NEW before, NEW limit \in Limits, prune_terminal(before, limit)
    PROVE  StoreInv'
<1>1. PICK doomed \in SUBSET Prunable(before) :
        /\ runs' = [r \in DOMAIN runs \ doomed |-> runs[r]]
        /\ attempts' = [t \in {u \in DOMAIN attempts : attempts[u].run_id \notin doomed}
                          |-> attempts[t]]
        /\ UNCHANGED <<issued, tx, cancel, now>>
  BY DEF prune_terminal
<1>2. doomed \subseteq DOMAIN runs
      /\ \A r \in doomed : runs[r].state # "running" /\ tx[r].kind = "none"
  BY <1>1 DEF Prunable, Committed, Unlocked, Terminal
<1> QED
  BY <1>1, <1>2, RemoveStep

(* A claim preserves the invariant: each row of the batch gets one new      *)
(* attempt, under a token no attempt has had.                               *)
LEMMA ClaimInv ==
    ASSUME StoreInv, TypeOK', NEW batch \in SUBSET DOMAIN runs,
           NEW token \in [batch -> FreshTokens],
           \A r \in batch : runs[r].state = "pending" /\ tx[r].kind = "none",
           \A x, y \in batch : token[x] = token[y] => x = y,
           NEW at \in [batch -> ClaimClocks(batch)], Claim(batch, token, at)
    PROVE  StoreInv'
<1>1. /\ DOMAIN runs' = DOMAIN runs
      /\ \A r \in DOMAIN runs \ batch : runs'[r] = runs[r]
      /\ \A r \in batch : runs'[r] = Leased(runs[r], token[r], at[r])
      /\ UNCHANGED <<spent, tx, cancel, now>>
  BY DEF Claim
<1>2. \A r \in batch : token[r] \in Tokens /\ token[r] \notin DOMAIN attempts
                        /\ at[r] \in Nat
  BY DEF FreshTokens, ClaimClocks, StoreInv, TypeOK
<1>3. now \in Nat /\ \A r \in DOMAIN runs : runs[r] \in RunRow /\ runs[r].attempt_count \in Nat
  BY DEF StoreInv, TypeOK, RunRow
<1>4. \A r \in batch : /\ runs'[r].state = "running"
                       /\ runs'[r].attempt_count = runs[r].attempt_count + 1
                       /\ runs'[r].lease_token = token[r]
  BY <1>1, <1>2, <1>3, LeasedType
<1>5. /\ DOMAIN attempts' = DOMAIN attempts \cup {token[r] : r \in batch}
      /\ \A t \in DOMAIN attempts : attempts'[t] = attempts[t]
  BY DEF Claim
<1>6. ASSUME NEW r \in batch
      PROVE  /\ token[r] \in DOMAIN attempts'
             /\ attempts'[token[r]] = NewAttempt(r, runs'[r])
  <2>1. token[r] \in DOMAIN attempts' /\ token[r] \notin DOMAIN attempts
    BY <1>2, <1>5
  <2>2. attempts'[token[r]] = LET x == CHOOSE x \in batch : token[x] = token[r]
                              IN  NewAttempt(x, runs'[x])
    BY <2>1 DEF Claim
  <2>3. (CHOOSE x \in batch : token[x] = token[r]) = r
    <3>1. \E x \in batch : token[x] = token[r]
      OBVIOUS
    <3>2. /\ (CHOOSE x \in batch : token[x] = token[r]) \in batch
          /\ token[CHOOSE x \in batch : token[x] = token[r]] = token[r]
      BY <3>1
    <3> QED
      BY <3>2
  <2> QED
    BY <2>1, <2>2, <2>3
<1>7. \A r \in batch :
         /\ token[r] \in DOMAIN attempts'
         /\ attempts'[token[r]].run_id = r
         /\ attempts'[token[r]].attempt_number = runs'[r].attempt_count
         /\ attempts'[token[r]].lease_expires_at = runs'[r].lease_expires_at
         /\ attempts'[token[r]].outcome = "open"
  <2> SUFFICES ASSUME NEW r \in batch
               PROVE  /\ token[r] \in DOMAIN attempts'
                      /\ attempts'[token[r]].run_id = r
                      /\ attempts'[token[r]].attempt_number = runs'[r].attempt_count
                      /\ attempts'[token[r]].lease_expires_at = runs'[r].lease_expires_at
                      /\ attempts'[token[r]].outcome = "open"
    OBVIOUS
  <2>1. /\ NewAttempt(r, runs'[r]).run_id = r
        /\ NewAttempt(r, runs'[r]).attempt_number = runs'[r].attempt_count
        /\ NewAttempt(r, runs'[r]).lease_expires_at = runs'[r].lease_expires_at
        /\ NewAttempt(r, runs'[r]).outcome = "open"
    BY DEF NewAttempt
  <2> QED
    BY <1>6, <2>1
<1>8. \A t \in DOMAIN attempts' : t \in DOMAIN attempts \/ \E r \in batch : t = token[r]
  BY <1>5
<1>9. RowStates'
  <2> SUFFICES ASSUME NEW r \in DOMAIN runs PROVE RowOK(runs'[r])
    BY <1>1 DEF RowStates
  <2>1. RowOK(runs[r])
    BY DEF StoreInv, RowStates
  <2>2. CASE r \in batch
    BY <1>1, <1>2, <1>3, <2>1, <2>2, LeasedOK
  <2>3. CASE r \notin batch
    BY <1>1, <2>1, <2>3
  <2> QED
    BY <2>2, <2>3
<1>10. LiveAttempt'
  <2>1. ASSUME NEW r \in DOMAIN runs', runs'[r].state = "running"
        PROVE  /\ runs'[r].lease_token \in DOMAIN attempts'
               /\ attempts'[runs'[r].lease_token].outcome = "open"
               /\ attempts'[runs'[r].lease_token].run_id = r
               /\ attempts'[runs'[r].lease_token].attempt_number = runs'[r].attempt_count
               /\ attempts'[runs'[r].lease_token].lease_expires_at = runs'[r].lease_expires_at
    <3>1. CASE r \in batch
      BY <1>4, <1>7, <3>1
    <3>2. CASE r \notin batch
      <4>1. r \in DOMAIN runs /\ runs'[r] = runs[r]
        BY <1>1, <3>2
      <4>2. /\ runs[r].lease_token \in DOMAIN attempts
            /\ attempts[runs[r].lease_token].outcome = "open"
            /\ attempts[runs[r].lease_token].run_id = r
            /\ attempts[runs[r].lease_token].attempt_number = runs[r].attempt_count
            /\ attempts[runs[r].lease_token].lease_expires_at = runs[r].lease_expires_at
        BY <2>1, <4>1 DEF StoreInv, LiveAttempt, HasOpenAttempt
      <4> QED
        BY <1>5, <4>1, <4>2
    <3> QED
      BY <3>1, <3>2
  <2>2. ASSUME NEW t \in DOMAIN attempts', attempts'[t].outcome = "open"
        PROVE  /\ attempts'[t].run_id \in DOMAIN runs'
               /\ runs'[attempts'[t].run_id].state = "running"
               /\ runs'[attempts'[t].run_id].lease_token = t
    <3>1. CASE t \in DOMAIN attempts
      <4>1. Holds(t, attempts[t].run_id) /\ attempts'[t] = attempts[t]
        BY <1>5, <2>2, <3>1 DEF StoreInv, LiveAttempt
      <4>2. attempts[t].run_id \notin batch
        BY <4>1 DEF Holds
      <4> QED
        BY <1>1, <4>1, <4>2 DEF Holds
    <3>2. CASE t \notin DOMAIN attempts
      BY <1>1, <1>4, <1>7, <1>8, <3>2
    <3> QED
      BY <3>1, <3>2
  <2> QED
    BY <2>1, <2>2 DEF LiveAttempt, HasOpenAttempt, Holds
<1>11. \A t \in DOMAIN attempts :
          /\ attempts[t].run_id \in DOMAIN runs
          /\ attempts[t].attempt_number \in Nat
          /\ attempts[t].attempt_number <= runs[attempts[t].run_id].attempt_count
  BY DEF StoreInv, AttemptLedger, LedgerKeys, TypeOK, AttemptRow
<1>12. LedgerKeys'
  <2>1. ASSUME NEW t \in DOMAIN attempts'
        PROVE  /\ attempts'[t].run_id \in DOMAIN runs'
               /\ attempts'[t].attempt_number <= runs'[attempts'[t].run_id].attempt_count
    <3>1. CASE t \in DOMAIN attempts
      BY <1>1, <1>3, <1>4, <1>5, <1>11, <3>1
    <3>2. CASE t \notin DOMAIN attempts
      <4>1. PICK r \in batch : t = token[r]
        BY <1>8, <3>2
      <4>2. runs'[r].attempt_count \in Nat
        BY <1>3, <1>4
      <4> QED
        BY <1>1, <1>7, <4>1, <4>2
    <3> QED
      BY <3>1, <3>2
  <2>2. ASSUME NEW t \in DOMAIN attempts', NEW u \in DOMAIN attempts',
               attempts'[t].run_id = attempts'[u].run_id,
               attempts'[t].attempt_number = attempts'[u].attempt_number
        PROVE  t = u
    <3>1. CASE t \in DOMAIN attempts /\ u \in DOMAIN attempts
      BY <1>5, <2>2, <3>1 DEF StoreInv, AttemptLedger, LedgerKeys
    <3>2. ASSUME NEW v \in DOMAIN attempts, NEW r \in batch,
                 attempts'[v].run_id = attempts'[token[r]].run_id,
                 attempts'[v].attempt_number = attempts'[token[r]].attempt_number
          PROVE  FALSE
      <4>1. attempts[v].run_id = r /\ attempts[v].attempt_number = runs[r].attempt_count + 1
        BY <1>4, <1>5, <1>7, <3>2
      <4> QED
        BY <1>3, <1>11, <4>1
    <3>3. CASE t \notin DOMAIN attempts /\ u \notin DOMAIN attempts
      BY <1>7, <1>8, <2>2, <3>3
    <3> QED
      BY <1>8, <2>2, <3>1, <3>2, <3>3
  <2>3. ASSUME NEW r \in DOMAIN runs', NEW n \in 1 .. runs'[r].attempt_count
        PROVE  Recorded(r, n)'
    <3>1. CASE r \in batch /\ n = runs'[r].attempt_count
      BY <1>7, <3>1 DEF Recorded
    <3>2. CASE ~(r \in batch /\ n = runs'[r].attempt_count)
      <4>1. r \in DOMAIN runs /\ n \in 1 .. runs[r].attempt_count
        <5>1. r \in DOMAIN runs /\ runs[r].attempt_count \in Nat
          BY <1>1, <1>3
        <5>2. CASE r \in batch
          <6>1. runs'[r].attempt_count = runs[r].attempt_count + 1
            BY <1>4, <5>2
          <6> QED
            BY <2>3, <3>2, <5>1, <5>2, <6>1
        <5>3. CASE r \notin batch
          <6>1. runs'[r] = runs[r]
            BY <1>1, <5>1, <5>3
          <6> QED
            BY <2>3, <5>1, <6>1
        <5> QED
          BY <5>2, <5>3
      <4>2. Recorded(r, n)
        BY <4>1 DEF StoreInv, AttemptLedger, LedgerKeys
      <4> QED
        BY <1>5, <4>2 DEF Recorded
    <3> QED
      BY <3>1, <3>2
  <2> QED
    BY <2>1, <2>2, <2>3 DEF LedgerKeys
<1>13. LedgerOutcomes'
  <2>1. ASSUME NEW t \in DOMAIN attempts'
        PROVE  OutcomeFits(attempts'[t], runs'[attempts'[t].run_id])
    <3>1. CASE t \in DOMAIN attempts
      <4> DEFINE r == attempts[t].run_id
      <4>1. OutcomeFits(attempts[t], runs[r]) /\ attempts'[t] = attempts[t] /\ r \in DOMAIN runs
        BY <1>5, <1>11, <3>1 DEF StoreInv, AttemptLedger, LedgerOutcomes
      <4>2. CASE r \in batch
        BY <4>1, <4>2 DEF OutcomeFits
      <4>3. CASE r \notin batch
        BY <1>1, <4>1, <4>3
      <4> QED
        BY <4>2, <4>3
    <3>2. CASE t \notin DOMAIN attempts
      <4>1. PICK r \in batch : t = token[r]
        BY <1>8, <3>2
      <4>2. /\ attempts'[t].run_id = r /\ attempts'[t].outcome = "open"
            /\ attempts'[t].attempt_number = runs'[r].attempt_count
            /\ runs'[r].state = "running" /\ runs'[r].attempt_count \in Nat
        BY <1>3, <1>4, <1>7, <4>1
      <4> QED
        BY <4>2 DEF OutcomeFits
    <3> QED
      BY <3>1, <3>2
  <2>2. ASSUME NEW r \in DOMAIN runs', runs'[r].state = "completed"
        PROVE  CompletedOnRecord(r)'
    <3>1. r \in DOMAIN runs /\ runs'[r] = runs[r]
      BY <1>1, <1>4, <2>2
    <3>2. CompletedOnRecord(r)
      BY <2>2, <3>1 DEF StoreInv, AttemptLedger, LedgerOutcomes
    <3> QED
      BY <1>5, <3>1, <3>2 DEF CompletedOnRecord
  <2> QED
    BY <2>1, <2>2 DEF LedgerOutcomes
<1>14. ProducerRows'
  BY <1>1 DEF StoreInv, ProducerRows
<1>15. ExpiredIsPast'
  BY <1>1, <1>5, <1>7, <1>8 DEF StoreInv, ExpiredIsPast
<1> QED
  BY <1>9, <1>10, <1>12, <1>13, <1>14, <1>15 DEF StoreInv, AttemptLedger

(* CloseStep for one task. *)
LEMMA CloseOne ==
    ASSUME StoreInv, TypeOK', NEW r \in DOMAIN runs, NEW row \in RunRow, NEW outcome,
           outcome \in {"completed", "failed", "expired", "cancelled"},
           runs[r].state = "running",
           runs' = [runs EXCEPT ![r] = row],
           attempts' = Close({runs[r].lease_token}, outcome),
           \A x \in RunIds : tx'[x] = tx[x] \/ tx'[x].kind = "none",
           now' = now,
           RowOK(row), ClosedRow(runs[r], row, outcome)
    PROVE  StoreInv'
<1> DEFINE new == [x \in {r} |-> row]
<1>1. new \in [{r} -> RunRow] /\ {r} \in SUBSET DOMAIN runs
  OBVIOUS
<1>2. runs' = [x \in DOMAIN runs |-> IF x \in {r} THEN new[x] ELSE runs[x]]
  BY DEF StoreInv, TypeOK
<1>3. {runs[x].lease_token : x \in {r}} = {runs[r].lease_token}
  OBVIOUS
<1>4. attempts' = Close({runs[x].lease_token : x \in {r}}, outcome)
  BY <1>3
<1>5. \A x \in {r} : /\ RowOK(new[x]) /\ ClosedRow(runs[x], new[x], outcome)
                     /\ runs[x].state = "running"
  OBVIOUS
<1> HIDE DEF new
<1>6. Closing({r}, new, outcome)
  BY <1>1, <1>2, <1>4, <1>5 DEF Closing
<1> QED
  BY <1>6, CloseStep

(* A renewal moves the deadline of the row and of its attempt together. *)
LEMMA RenewInv ==
    ASSUME StoreInv, TypeOK', NEW r \in RunIds, NEW t \in issued, NEW at \in Nat,
           renew_lease(r, t, at),
           \A x \in RunIds : tx'[x] = tx[x] \/ tx'[x].kind = "none"
    PROVE  StoreInv'
<1> DEFINE expires == at + runs[r].options.lease_duration
<1>1. /\ r \in DOMAIN runs /\ runs[r].state = "running" /\ runs[r].lease_token = t
      /\ t \in DOMAIN attempts /\ attempts[t].outcome = "open"
  BY DEF renew_lease, Owns, Committed, HasOpenAttempt
<1>2. runs[r] \in RunRow /\ attempts[t] \in AttemptRow /\ runs[r].options \in Options
  BY <1>1 DEF StoreInv, TypeOK, RunRow
<1>3. expires \in Nat /\ expires # Null
  BY <1>2, OptionFacts, NullAssumption
<1>4. /\ runs' = [runs EXCEPT ![r].lease_expires_at = expires]
      /\ attempts' = [attempts EXCEPT ![t].lease_expires_at = expires]
      /\ now' = now
  BY DEF renew_lease, RenewedAttempt
<1> HIDE DEF expires
<1>5. /\ DOMAIN runs' = DOMAIN runs
      /\ \A x \in DOMAIN runs \ {r} : runs'[x] = runs[x]
      /\ runs'[r].options = runs[r].options /\ runs'[r].state = "running"
      /\ runs'[r].attempt_count = runs[r].attempt_count /\ runs'[r].lease_token = t
      /\ runs'[r].lease_expires_at = expires /\ runs'[r].finished_at = runs[r].finished_at
      /\ runs'[r].started_at = runs[r].started_at
      /\ runs'[r].last_error = runs[r].last_error
  BY <1>1, <1>2, <1>4 DEF StoreInv, TypeOK, RunRow
<1>6. /\ DOMAIN attempts' = DOMAIN attempts
      /\ \A u \in DOMAIN attempts \ {t} : attempts'[u] = attempts[u]
      /\ attempts'[t].run_id = attempts[t].run_id
      /\ attempts'[t].attempt_number = attempts[t].attempt_number
      /\ attempts'[t].outcome = "open" /\ attempts'[t].lease_expires_at = expires
  BY <1>1, <1>2, <1>4 DEF StoreInv, TypeOK, AttemptRow
<1>7. /\ \A x \in DOMAIN runs : /\ runs'[x].state = runs[x].state
                                /\ runs'[x].attempt_count = runs[x].attempt_count
                                /\ runs'[x].lease_token = runs[x].lease_token
      /\ \A u \in DOMAIN attempts :
            /\ attempts'[u].run_id = attempts[u].run_id
            /\ attempts'[u].attempt_number = attempts[u].attempt_number
            /\ attempts'[u].outcome = attempts[u].outcome
  BY <1>1, <1>5, <1>6
<1>8. RowStates'
  <2>1. RowOK(runs[r])
    BY <1>1 DEF StoreInv, RowStates
  <2>2. RowOK(runs'[r])
    BY <1>1, <1>3, <1>5, <2>1 DEF RowOK, Terminal
  <2> QED
    BY <1>5, <2>2 DEF StoreInv, RowStates
<1>9. LiveAttempt'
  <2>1. ASSUME NEW x \in DOMAIN runs', runs'[x].state = "running"
        PROVE  /\ runs'[x].lease_token \in DOMAIN attempts'
               /\ attempts'[runs'[x].lease_token].outcome = "open"
               /\ attempts'[runs'[x].lease_token].run_id = x
               /\ attempts'[runs'[x].lease_token].attempt_number = runs'[x].attempt_count
               /\ attempts'[runs'[x].lease_token].lease_expires_at = runs'[x].lease_expires_at
    <3>1. /\ runs[x].lease_token \in DOMAIN attempts
          /\ attempts[runs[x].lease_token].outcome = "open"
          /\ attempts[runs[x].lease_token].run_id = x
          /\ attempts[runs[x].lease_token].attempt_number = runs[x].attempt_count
          /\ attempts[runs[x].lease_token].lease_expires_at = runs[x].lease_expires_at
      BY <1>5, <1>7, <2>1 DEF StoreInv, LiveAttempt, HasOpenAttempt
    <3>2. CASE x = r
      BY <1>1, <1>5, <1>6, <3>1, <3>2
    <3>3. CASE x # r
      <4>1. runs[x].lease_token # t
        BY <1>1, <3>1, <3>3 DEF StoreInv, LiveAttempt
      <4> QED
        BY <1>5, <1>6, <3>1, <3>3, <4>1
    <3> QED
      BY <3>2, <3>3
  <2>2. ASSUME NEW u \in DOMAIN attempts', attempts'[u].outcome = "open"
        PROVE  /\ attempts'[u].run_id \in DOMAIN runs'
               /\ runs'[attempts'[u].run_id].state = "running"
               /\ runs'[attempts'[u].run_id].lease_token = u
    BY <1>5, <1>6, <1>7, <2>2 DEF StoreInv, LiveAttempt, Holds
  <2> QED
    BY <2>1, <2>2 DEF LiveAttempt, HasOpenAttempt, Holds
<1>10. LedgerKeys'
  <2>1. ASSUME NEW x \in DOMAIN runs', NEW n \in 1 .. runs'[x].attempt_count
        PROVE  Recorded(x, n)'
    <3>1. Recorded(x, n)
      BY <1>5, <1>7 DEF StoreInv, AttemptLedger, LedgerKeys
    <3> QED
      BY <1>6, <1>7, <3>1 DEF Recorded
  <2>2. \A u \in DOMAIN attempts' :
           /\ attempts'[u].run_id \in DOMAIN runs'
           /\ attempts'[u].attempt_number <= runs'[attempts'[u].run_id].attempt_count
    BY <1>5, <1>6, <1>7 DEF StoreInv, AttemptLedger, LedgerKeys
  <2>3. \A u, v \in DOMAIN attempts' :
           /\ attempts'[u].run_id = attempts'[v].run_id
           /\ attempts'[u].attempt_number = attempts'[v].attempt_number
           => u = v
    BY <1>6, <1>7 DEF StoreInv, AttemptLedger, LedgerKeys
  <2> QED
    BY <2>1, <2>2, <2>3 DEF LedgerKeys
<1>11. LedgerOutcomes'
  <2>1. ASSUME NEW u \in DOMAIN attempts'
        PROVE  OutcomeFits(attempts'[u], runs'[attempts'[u].run_id])
    <3>1. u \in DOMAIN attempts /\ attempts[u].run_id \in DOMAIN runs
      BY <1>6 DEF StoreInv, AttemptLedger, LedgerKeys
    <3>2. OutcomeFits(attempts[u], runs[attempts[u].run_id])
      BY <3>1 DEF StoreInv, AttemptLedger, LedgerOutcomes
    <3> QED
      BY <1>7, <3>1, <3>2 DEF OutcomeFits
  <2>2. ASSUME NEW x \in DOMAIN runs', runs'[x].state = "completed"
        PROVE  CompletedOnRecord(x)'
    <3>1. CompletedOnRecord(x)
      BY <1>5, <1>7, <2>2 DEF StoreInv, AttemptLedger, LedgerOutcomes
    <3> QED
      BY <1>5, <1>6, <1>7, <3>1 DEF CompletedOnRecord
  <2> QED
    BY <2>1, <2>2 DEF LedgerOutcomes
<1>12. ProducerRows'
  BY <1>5, <1>7 DEF StoreInv, ProducerRows
<1>13. ExpiredIsPast'
  BY <1>4, <1>6 DEF StoreInv, ExpiredIsPast
<1> QED
  BY <1>8, <1>9, <1>10, <1>11, <1>12, <1>13 DEF StoreInv, AttemptLedger

(* The fenced writes of a worker preserve the invariant. *)
LEMMA WriteInv ==
    ASSUME StoreInv, TypeOK', NEW r \in RunIds, NEW t \in issued, NEW at \in Nat,
           WorkerWrite(r, t, at),
           \A x \in RunIds : tx'[x] = tx[x] \/ tx'[x].kind = "none"
    PROVE  StoreInv'
<1>1. r \in DOMAIN runs /\ runs[r].state = "running" /\ runs[r].lease_token = t
  BY DEF WorkerWrite, finalize_run, fail_run, renew_lease, Owns, Committed
<1>2. runs[r] \in RunRow /\ RowOK(runs[r]) /\ runs[r].options \in Options
  BY <1>1 DEF StoreInv, TypeOK, RowStates, RunRow
<1>3. at + runs[r].options.retry_backoff \in Nat
  BY <1>2, OptionFacts
<1>4. ASSUME NEW outcome \in {"completed", "failed"}, finalize_run(r, t, outcome, at)
      PROVE  StoreInv'
  <2> DEFINE error == IF outcome = "failed" THEN "job error" ELSE "none"
  <2> DEFINE row == Finished(runs[r], outcome, error, at)
  <2>1. /\ outcome \in Terminal /\ error \in Errors
        /\ outcome = "failed" <=> error # "none"
    BY <1>4, Literals DEF Terminal
  <2>2. /\ runs' = [runs EXCEPT ![r] = row] /\ now' = now
        /\ attempts' = Close({runs[r].lease_token}, outcome)
    BY <1>1, <1>4 DEF finalize_run
  <2> HIDE DEF error
  <2>3. /\ RowOK(row) /\ row \in RunRow /\ row.state = outcome
        /\ row.attempt_count = runs[r].attempt_count
    BY <1>2, <2>1, FinishedOK
  <2> HIDE DEF row
  <2>4. /\ outcome \in {"completed", "failed", "expired", "cancelled"}
        /\ ClosedRow(runs[r], row, outcome)
    BY <1>4, <2>3 DEF ClosedRow
  <2> QED
    BY <1>1, <2>2, <2>3, <2>4, CloseOne
<1>5. ASSUME NEW retryable \in BOOLEAN, fail_run(r, t, retryable, at)
      PROVE  StoreInv'
  <2> DEFINE row == IF retryable /\ AttemptsLeft(runs[r])
                    THEN Requeued(runs[r], at + runs[r].options.retry_backoff)
                    ELSE Finished(runs[r], "failed", "job error", at)
  <2>1. ASSUME retryable, AttemptsLeft(runs[r])
        PROVE  row \in RunRow /\ RowOK(row) /\ ClosedRow(runs[r], row, "failed")
    <3>1. row = Requeued(runs[r], at + runs[r].options.retry_backoff)
      BY <2>1
    <3>2. /\ row \in RunRow /\ row.state = "pending"
          /\ row.attempt_count = runs[r].attempt_count /\ RowOK(row)
      BY <1>1, <1>2, <1>3, <2>1, <3>1, RequeuedType, RequeuedOK
    <3> QED
      BY <3>2 DEF ClosedRow
  <2>2. ASSUME ~(retryable /\ AttemptsLeft(runs[r]))
        PROVE  row \in RunRow /\ RowOK(row) /\ ClosedRow(runs[r], row, "failed")
    <3> DEFINE error == "job error"
    <3>1. row = Finished(runs[r], "failed", error, at)
      BY <2>2
    <3>2. error \in Errors \ {"none"}
      BY DEF Errors
    <3> HIDE DEF error, row
    <3>3. row \in RunRow /\ row.state = "failed"
          /\ row.attempt_count = runs[r].attempt_count /\ RowOK(row)
      BY <1>2, <3>1, <3>2, FailedOK
    <3> QED
      BY <3>3 DEF ClosedRow
  <2>3. /\ runs' = [runs EXCEPT ![r] = row] /\ now' = now
        /\ attempts' = Close({runs[r].lease_token}, "failed")
    BY <1>1, <1>5 DEF fail_run
  <2> HIDE DEF row
  <2> QED
    BY <1>1, <2>1, <2>2, <2>3, CloseOne
<1>6. CASE renew_lease(r, t, at)
  BY <1>6, RenewInv
<1> QED
  BY <1>4, <1>5, <1>6 DEF WorkerWrite

(* Recovery preserves the invariant: it only touches lapsed leases, and by  *)
(* LiveAttempt every one of them has the attempt the statement joins with.  *)
LEMMA RecoverInv ==
    ASSUME StoreInv, TypeOK', NEW limit \in Limits, recover_expired(limit)
    PROVE  StoreInv'
<1>1. PICK batch \in SUBSET {r \in Committed : Unlocked(r) /\ Lapsed(r)} :
        /\ runs' = [r \in DOMAIN runs |->
                      IF r \in {x \in batch : HasOpenAttempt(runs[x].lease_token)}
                      THEN Recovered(runs[r]) ELSE runs[r]]
        /\ attempts' = Close({runs[r].lease_token : r \in batch}, "expired")
        /\ UNCHANGED <<issued, spent, tx, cancel, now>>
  BY DEF recover_expired
<1>2. batch \in SUBSET DOMAIN runs
      /\ \A r \in batch : runs[r].state = "running" /\ runs[r].lease_expires_at <= now
  BY <1>1 DEF Committed, Lapsed
<1>3. {x \in batch : HasOpenAttempt(runs[x].lease_token)} = batch
  BY <1>2 DEF StoreInv, LiveAttempt
<1> DEFINE new == [r \in batch |-> Recovered(runs[r])]
<1>4. runs' = [r \in DOMAIN runs |-> IF r \in batch THEN new[r] ELSE runs[r]]
  BY <1>1, <1>3
<1>5. ASSUME NEW r \in batch
      PROVE  /\ Recovered(runs[r]) \in RunRow /\ RowOK(Recovered(runs[r]))
             /\ Recovered(runs[r]).state \in {"pending", "failed"}
             /\ Recovered(runs[r]).attempt_count = runs[r].attempt_count
  <2>1. runs[r] \in RunRow /\ RowOK(runs[r]) /\ now \in Nat /\ runs[r].state = "running"
    BY <1>2 DEF StoreInv, TypeOK, RowStates
  <2>2. CASE AttemptsLeft(runs[r])
    <3>1. Recovered(runs[r]) = Requeued(runs[r], now)
      BY <2>2 DEF Recovered
    <3> QED
      BY <2>1, <2>2, <3>1, RequeuedType, RequeuedOK
  <2>3. CASE ~AttemptsLeft(runs[r])
    <3> DEFINE error == "lease expired"
    <3>1. Recovered(runs[r]) = Finished(runs[r], "failed", error, now)
      BY <2>3 DEF Recovered
    <3>2. error \in Errors \ {"none"}
      BY DEF Errors
    <3> HIDE DEF error
    <3> QED
      BY <2>1, <3>1, <3>2, FailedOK
  <2> QED
    BY <2>2, <2>3
<1>6. new \in [batch -> RunRow]
  BY <1>5
<1>7. \A r \in batch : RowOK(new[r]) /\ ClosedRow(runs[r], new[r], "expired")
  BY <1>2, <1>5 DEF ClosedRow
<1> HIDE DEF new
<1>8. \A r \in RunIds : tx'[r] = tx[r] \/ tx'[r].kind = "none"
  BY <1>1
<1>9. Closing(batch, new, "expired")
  BY <1>1, <1>2, <1>4, <1>6, <1>7, <1>8 DEF Closing
<1> QED
  BY <1>9, CloseStep

(* The steps of a cancellation preserve the invariant. *)
LEMMA CancelInv ==
    ASSUME StoreInv, TypeOK', NEW r \in RunIds,
           CancelStart(r) \/ CancelLock(r) \/ CancelMiss(r) \/ CancelProbe(r) \/ CancelError(r)
    PROVE  StoreInv'
<1>1. CASE CancelStart(r) \/ CancelMiss(r) \/ CancelProbe(r) \/ CancelError(r)
  <2>1. UNCHANGED <<runs, attempts, tx, now>>
    BY <1>1 DEF CancelStart, CancelMiss, CancelProbe, CancelError
  <2>2. ProducerRows' /\ now' >= now
    BY <2>1 DEF StoreInv, ProducerRows, TypeOK
  <2> QED
    BY <2>1, <2>2, FrameStep
<1>2. CASE CancelLock(r)
  <2> DEFINE row == Finished(runs[r], "cancelled", "none", now)
  <2>1. /\ r \in DOMAIN runs /\ tx[r].kind = "none"
        /\ runs' = [runs EXCEPT ![r] = row]
        /\ attempts' = Close({runs[r].lease_token}, "cancelled")
        /\ UNCHANGED <<issued, spent, tx, now>>
        /\ runs[r].state \in {"pending", "running"}
    BY <1>2 DEF CancelLock, CancelWins, Unlocked
  <2>2. runs[r] \in RunRow /\ RowOK(runs[r]) /\ now \in Nat
    BY <2>1 DEF StoreInv, TypeOK, RowStates
  <2>4. /\ row \in RunRow /\ row.state = "cancelled"
        /\ row.attempt_count = runs[r].attempt_count /\ RowOK(row)
    BY <2>2, CancelledOK
  <2> HIDE DEF row
  <2>5. CASE runs[r].state = "running"
    <3>1. ClosedRow(runs[r], row, "cancelled")
      BY <2>4 DEF ClosedRow
    <3>2. \A x \in RunIds : tx'[x] = tx[x] \/ tx'[x].kind = "none"
      BY <2>1
    <3> QED
      BY <2>1, <2>4, <2>5, <3>1, <3>2, CloseOne
  <2>6. CASE runs[r].state = "pending"
    <3>1. runs[r].lease_token = Null
      BY <2>2, <2>6 DEF RowOK
    <3>2. Null \notin DOMAIN attempts
      BY NullAssumption DEF StoreInv, TypeOK
    <3>3. attempts' = attempts
      BY <2>1, <3>1, <3>2 DEF Close, StoreInv, TypeOK
    <3>4. runs' = [x \in DOMAIN runs \cup {r} |-> IF x = r THEN row ELSE runs[x]]
      BY <2>1 DEF StoreInv, TypeOK
    <3>5. row.state \notin {"running", "completed"} /\ row.state # "pending"
      BY <2>4
    <3>6. /\ \A x \in RunIds \ {r} : tx'[x] = tx[x]
          /\ tx'[r].kind # "insert" /\ UNCHANGED <<attempts, now>>
      BY <2>1, <3>3
    <3> QED
      BY <2>1, <2>4, <2>6, <3>4, <3>5, <3>6, ReplaceStep
  <2> QED
    BY <2>1, <2>5, <2>6
<1> QED
  BY <1>1, <1>2

(* Every step preserves the invariant. *)
LEMMA StoreStep ==
    StoreInv /\ [Next]_vars => StoreInv'
<1> SUFFICES ASSUME StoreInv, [Next]_vars PROVE StoreInv'
  OBVIOUS
<1>0. TypeOK'
  BY TypeStep DEF StoreInv
<1>1. CASE Produce
  <2>1. ASSUME NEW r \in FreeIds, NEW opt \in Options, NEW at \in StartTimes \cup {Null},
               EnqueueInsert(r, opt, at)
        PROVE  StoreInv'
    BY <1>0, <2>1, EnqueueInv
  <2>2. ASSUME NEW r \in RunIds,
               \/ \E opt \in Options : EnqueueDuplicate(r, opt)
               \/ ProducerCommit(r) \/ RollbackInsert(r) \/ RollbackDuplicate(r)
        PROVE  StoreInv'
    BY <1>0, <2>2, ProducerInv
  <2> QED
    BY <1>1, <2>1, <2>2 DEF Produce
<1>2. CASE Work
  <2>1. ASSUME NEW names \in NameSets, NEW limit \in Limits, ClaimBatch(names, limit)
        PROVE  StoreInv'
    <3>1. PICK batch \in SUBSET Eligible(names) :
            \E token \in [batch -> FreshTokens], at \in [batch -> ClaimClocks(batch)] :
              /\ \A x, y \in batch : token[x] = token[y] => x = y
              /\ Claim(batch, token, at)
      BY <2>1 DEF ClaimBatch, ClaimAmong, Batches
    <3>2. PICK token \in [batch -> FreshTokens], at \in [batch -> ClaimClocks(batch)] :
              /\ \A x, y \in batch : token[x] = token[y] => x = y
              /\ Claim(batch, token, at)
      BY <3>1
    <3>3. batch \in SUBSET DOMAIN runs
          /\ \A r \in batch : runs[r].state = "pending" /\ tx[r].kind = "none"
      BY <3>1 DEF Eligible, Committed, Unlocked
    <3> QED
      BY <1>0, <3>2, <3>3, ClaimInv
  <2>2. ASSUME NEW r \in RunIds, NEW t \in issued, DirectWrite(r, t)
        PROVE  StoreInv'
    <3>1. /\ WorkerWrite(r, t, now) /\ now \in Nat
          /\ \A x \in RunIds : tx'[x] = tx[x] \/ tx'[x].kind = "none"
      BY <2>2 DEF DirectWrite, StoreInv, TypeOK
    <3> QED
      BY <1>0, <3>1, WriteInv
  <2>3. ASSUME NEW r \in RunIds, NEW t \in issued, DelayedWrite(r, t)
        PROVE  StoreInv'
    <3>1. tx \in [RunIds -> TxState] /\ tx[r].since \in Nat /\ now \in Nat
      BY DEF StoreInv, TypeOK, TxState
    <3>2. PICK at \in tx[r].since .. now : WorkerWrite(r, t, at)
      BY <2>3 DEF DelayedWrite
    <3>3. at \in Nat
      BY <3>1, <3>2
    <3>4. tx' = [tx EXCEPT ![r] = NoTx]
      BY <2>3 DEF DelayedWrite
    <3>5. \A x \in RunIds : tx'[x] = tx[x] \/ tx'[x].kind = "none"
      BY <3>1, <3>4 DEF NoTx
    <3> QED
      BY <1>0, <3>2, <3>3, <3>5, WriteInv
  <2>4. ASSUME NEW limit \in Limits, recover_expired(limit)
        PROVE  StoreInv'
    BY <1>0, <2>4, RecoverInv
  <2> QED
    BY <1>2, <2>1, <2>2, <2>3, <2>4 DEF Work
<1>3. CASE Administer
  <2>1. ASSUME NEW r \in Cancellable,
               CancelStart(r) \/ CancelLock(r) \/ CancelMiss(r) \/ CancelProbe(r)
                 \/ CancelError(r)
        PROVE  StoreInv'
    BY <1>0, <2>1, CancelInv, CancellableAssumption
  <2>2. ASSUME NEW before \in 1 .. MaxTime + 1, NEW limit \in Limits,
               prune_terminal(before, limit)
        PROVE  StoreInv'
    BY <1>0, <2>2, PruneInv
  <2> QED
    BY <1>3, <2>1, <2>2 DEF Administer
<1>4. CASE Tick \/ UNCHANGED vars
  <2>1. UNCHANGED <<runs, attempts, tx>> /\ now' \in {now, now + 1} /\ now \in Nat
    BY <1>4 DEF Tick, vars, StoreInv, TypeOK
  <2>2. ProducerRows' /\ now' >= now
    BY <2>1 DEF StoreInv, ProducerRows
  <2> QED
    BY <1>0, <2>1, <2>2, FrameStep
<1> QED
  BY <1>1, <1>2, <1>3, <1>4 DEF Next

-----------------------------------------------------------------------------
(* The theorems                                                            *)

(* It holds of the empty tables. *)
LEMMA StoreInitInv == Init => StoreInv
<1> SUFFICES ASSUME Init PROVE StoreInv
  OBVIOUS
<1>1. TypeOK
  BY DEF Init, TypeOK, NoTx, TxState, NoCancel, CancelState
<1>2. DOMAIN runs = {} /\ DOMAIN attempts = {} /\ \A r \in RunIds : tx[r].kind = "none"
  BY DEF Init, NoTx
<1> QED
  BY <1>1, <1>2 DEF StoreInv, RowStates, LiveAttempt, AttemptLedger, LedgerKeys,
                    LedgerOutcomes, ProducerRows, ExpiredIsPast

(* The inductive invariant holds of every reachable state: the promises of *)
(* claim, completion, failure, renewal, recovery, cancellation, retention  *)
(* and enqueue support each other.                                         *)
THEOREM StoreInvariant == Spec => []StoreInv
BY StoreInitInv, StoreStep, PTL DEF Spec

(* A running task and its open attempt always agree, so the "did not have  *)
(* one live attempt" errors of finalize.rs cannot occur.                   *)
THEOREM RunningHasLiveAttempt == Spec => []LiveAttempt
<1>1. StoreInv => LiveAttempt
  BY DEF StoreInv
<1> QED
  BY <1>1, StoreInvariant, PTL

(* The attempt history accounts for every claim of every stored task.      *)
THEOREM HistoryIsComplete == Spec => []AttemptLedger
<1>1. StoreInv => AttemptLedger
  BY DEF StoreInv
<1> QED
  BY <1>1, StoreInvariant, PTL

(* A row is there as long as a producer's open transaction holds it, and   *)
(* an uncommitted task is untouched.                                       *)
THEOREM ProducersKeepTheirRows == Spec => []ProducerRows
<1>1. StoreInv => ProducerRows
  BY DEF StoreInv
<1> QED
  BY <1>1, StoreInvariant, PTL

(* While a lease is unexpired its task is not handed to anybody else.      *)
THEOREM LeaseIsExclusive == Spec => []LeaseExclusive
<1>1. StoreInv => LeaseExclusive
  <2> SUFFICES ASSUME StoreInv, NEW t \in DOMAIN attempts,
                      attempts[t].lease_expires_at > now,
                      attempts[t].outcome \notin {"completed", "failed", "cancelled"}
               PROVE  Holds(t, attempts[t].run_id)
    BY DEF LeaseExclusive
  <2>1. attempts[t] \in AttemptRow /\ now \in Nat
    BY DEF StoreInv, TypeOK
  <2>2. attempts[t].lease_expires_at \in Nat
        /\ attempts[t].outcome \in {"open", "completed", "failed", "expired", "cancelled"}
    BY <2>1 DEF AttemptRow
  <2>3. attempts[t].outcome # "expired"
    BY <2>1, <2>2 DEF StoreInv, ExpiredIsPast
  <2> QED
    BY <2>2, <2>3 DEF StoreInv, LiveAttempt
<1> QED
  BY <1>1, StoreInvariant, PTL

-----------------------------------------------------------------------------
(* What no step may do                                                     *)

(***************************************************************************)
(* The shape of every step on the stored rows: a row that stays is the     *)
(* same, or was pending or running; a running row that is written to       *)
(* leaves that state or keeps its token; a pending row that starts running *)
(* does so under a fresh token.                                            *)
(***************************************************************************)
RowStep(r) ==
    \/ runs'[r] = runs[r]
    \/ /\ runs[r].state \in {"pending", "running"}
       /\ runs'[r].state = "running" =>
            \/ runs[r].state = "running" /\ runs'[r].lease_token = runs[r].lease_token
            \/ runs'[r].lease_token \notin issued

(* A write of a worker is such a step. *)
LEMMA WriteRows ==
    ASSUME TypeOK, NEW r \in RunIds, NEW t \in issued, NEW at \in Nat,
           WorkerWrite(r, t, at)
    PROVE  /\ DOMAIN runs' = DOMAIN runs
           /\ \A x \in DOMAIN runs : RowStep(x)
<1>1. r \in DOMAIN runs /\ runs[r].state = "running" /\ runs[r] \in RunRow
  BY DEF WorkerWrite, finalize_run, fail_run, renew_lease, Owns, Committed, TypeOK
<1>2. \E row : runs' = [runs EXCEPT ![r] = row]
  BY DEF WorkerWrite, finalize_run, fail_run, renew_lease
<1>3. DOMAIN runs' = DOMAIN runs /\ \A x \in DOMAIN runs \ {r} : runs'[x] = runs[x]
  BY <1>2
<1>4. ASSUME NEW outcome \in {"completed", "failed"}, finalize_run(r, t, outcome, at)
      PROVE  runs'[r].state # "running"
  <2>1. runs'[r] = Finished(runs[r], outcome,
                     IF outcome = "failed" THEN "job error" ELSE "none", at)
    BY <1>1, <1>4 DEF finalize_run
  <2> QED
    BY <1>1, <2>1 DEF Finished, RunRow
<1>5. ASSUME NEW retryable \in BOOLEAN, fail_run(r, t, retryable, at)
      PROVE  runs'[r].state # "running"
  <2>1. \/ runs'[r] = Requeued(runs[r], at + runs[r].options.retry_backoff)
        \/ runs'[r] = Finished(runs[r], "failed", "job error", at)
    BY <1>1, <1>5 DEF fail_run
  <2> QED
    BY <1>1, <2>1 DEF Finished, Requeued, RunRow
<1>6. ASSUME renew_lease(r, t, at)
      PROVE  runs'[r].lease_token = runs[r].lease_token
  BY <1>1, <1>6 DEF renew_lease, RunRow
<1>7. RowStep(r)
  BY <1>1, <1>4, <1>5, <1>6 DEF WorkerWrite, RowStep
<1> QED
  BY <1>3, <1>7 DEF RowStep

(* Every step is one on the rows that stay; a row that appears is pending. *)
LEMMA RowsStep ==
    ASSUME StoreInv, [Next]_vars
    PROVE  /\ \A r \in DOMAIN runs \cap DOMAIN runs' : RowStep(r)
           /\ \A r \in DOMAIN runs' \ DOMAIN runs : runs'[r].state = "pending"
           /\ issued \subseteq issued'
<1> DEFINE Goal == /\ \A r \in DOMAIN runs \cap DOMAIN runs' : RowStep(r)
                   /\ \A r \in DOMAIN runs' \ DOMAIN runs : runs'[r].state = "pending"
                   /\ issued \subseteq issued'
<1>0. TypeOK
  BY DEF StoreInv
<1>1. CASE Produce
  <2>1. ASSUME NEW r \in FreeIds, NEW opt \in Options, NEW at \in StartTimes \cup {Null},
               EnqueueInsert(r, opt, at)
        PROVE  Goal
    BY <2>1 DEF EnqueueInsert, FreeIds, NewRow, RowStep
  <2>2. ASSUME NEW r \in RunIds,
               \/ \E opt \in Options : EnqueueDuplicate(r, opt)
               \/ ProducerCommit(r) \/ RollbackInsert(r) \/ RollbackDuplicate(r)
        PROVE  Goal
    BY <2>2 DEF EnqueueDuplicate, ProducerCommit, RollbackInsert, RollbackDuplicate, RowStep
  <2> QED
    BY <1>1, <2>1, <2>2 DEF Produce
<1>2. CASE Work
  <2>1. ASSUME NEW names \in NameSets, NEW limit \in Limits, ClaimBatch(names, limit)
        PROVE  Goal
    <3>1. PICK batch \in SUBSET Eligible(names) :
            \E token \in [batch -> FreshTokens], at \in [batch -> ClaimClocks(batch)] :
              Claim(batch, token, at)
      BY <2>1 DEF ClaimBatch, ClaimAmong, Batches
    <3>2. PICK token \in [batch -> FreshTokens], at \in [batch -> ClaimClocks(batch)] :
            Claim(batch, token, at)
      BY <3>1
    <3>3. /\ DOMAIN runs' = DOMAIN runs
          /\ \A r \in DOMAIN runs \ batch : runs'[r] = runs[r]
          /\ \A r \in DOMAIN runs \cap batch : runs'[r] = Leased(runs[r], token[r], at[r])
          /\ issued \subseteq issued'
      BY <3>2 DEF Claim
    <3>4. ASSUME NEW r \in DOMAIN runs, r \in batch
          PROVE  RowStep(r)
      <4>1. /\ runs[r] \in RunRow /\ token[r] \in Tokens /\ token[r] \notin issued
            /\ now \in Nat /\ at[r] \in Nat
        BY <1>0, <3>2, <3>4 DEF FreshTokens, ClaimClocks, TypeOK
      <4>2. runs'[r].lease_token = token[r] /\ runs[r].state = "pending"
        BY <3>1, <3>3, <3>4, <4>1, LeasedType DEF Eligible
      <4> QED
        BY <4>1, <4>2 DEF RowStep
    <3> QED
      BY <3>3, <3>4 DEF RowStep
  <2>2. ASSUME NEW r \in RunIds, NEW t \in issued, DirectWrite(r, t) \/ DelayedWrite(r, t)
        PROVE  Goal
    <3>1. tx[r].since \in Nat /\ now \in Nat
      BY <1>0 DEF TypeOK, TxState
    <3>2. \E at \in Nat : WorkerWrite(r, t, at)
      BY <2>2, <3>1 DEF DirectWrite, DelayedWrite
    <3>3. issued' = issued
      BY <3>2 DEF WorkerWrite, finalize_run, fail_run, renew_lease
    <3> QED
      BY <1>0, <3>2, <3>3, WriteRows
  <2>3. ASSUME NEW limit \in Limits, recover_expired(limit)
        PROVE  Goal
    <3>1. PICK batch \in SUBSET {r \in Committed : Unlocked(r) /\ Lapsed(r)} :
            /\ runs' = [r \in DOMAIN runs |->
                          IF r \in {x \in batch : HasOpenAttempt(runs[x].lease_token)}
                          THEN Recovered(runs[r]) ELSE runs[r]]
            /\ issued' = issued
      BY <2>3 DEF recover_expired
    <3>2. ASSUME NEW r \in DOMAIN runs, runs'[r] # runs[r]
          PROVE  RowStep(r)
      <4>1. runs'[r] = Recovered(runs[r]) /\ runs[r].state = "running" /\ runs[r] \in RunRow
        BY <1>0, <3>1, <3>2 DEF Lapsed, TypeOK
      <4>2. runs'[r].state # "running"
        BY <4>1 DEF Recovered, Requeued, Finished, RunRow
      <4> QED
        BY <4>1, <4>2 DEF RowStep
    <3> QED
      BY <3>1, <3>2 DEF RowStep
  <2> QED
    BY <1>2, <2>1, <2>2, <2>3 DEF Work
<1>3. CASE Administer
  <2>1. ASSUME NEW r \in Cancellable, CancelLock(r)
        PROVE  Goal
    <3>1. /\ r \in DOMAIN runs /\ runs[r].state \in {"pending", "running"}
          /\ runs' = [runs EXCEPT ![r] = Finished(runs[r], "cancelled", "none", now)]
          /\ issued' = issued /\ runs[r] \in RunRow
      BY <1>0, <2>1 DEF CancelLock, CancelWins, TypeOK
    <3>2. runs'[r].state # "running"
      BY <3>1 DEF Finished, RunRow
    <3> QED
      BY <3>1, <3>2 DEF RowStep
  <2>2. ASSUME NEW r \in Cancellable,
               CancelStart(r) \/ CancelMiss(r) \/ CancelProbe(r) \/ CancelError(r)
        PROVE  Goal
    BY <2>2 DEF CancelStart, CancelMiss, CancelProbe, CancelError, RowStep
  <2>3. ASSUME NEW before \in 1 .. MaxTime + 1, NEW limit \in Limits,
               prune_terminal(before, limit)
        PROVE  Goal
    BY <2>3 DEF prune_terminal, RowStep
  <2> QED
    BY <1>3, <2>1, <2>2, <2>3 DEF Administer
<1>4. CASE Tick \/ UNCHANGED vars
  BY <1>4 DEF Tick, vars, RowStep
<1> QED
  BY <1>1, <1>2, <1>3, <1>4 DEF Next

(* Whatever races with the end of a task, a terminal task never changes    *)
(* again.                                                                  *)
THEOREM TerminalStaysFinal == Spec => TerminalIsFinal
<1>1. StoreInv /\ [Next]_vars =>
        [\A r \in DOMAIN runs \cap DOMAIN runs' :
           runs[r].state \in Terminal => runs'[r] = runs[r]]_vars
  BY RowsStep DEF RowStep, Terminal
<1> QED
  BY <1>1, StoreInvariant, PTL DEF Spec, TerminalIsFinal

(* A token that was lost, to completion, failure, expiry or cancellation,  *)
(* opens no task ever again: every claim writes a fresh one.               *)
THEOREM LostTokensStayLost == Spec => FencedForever
<1>1. ASSUME StoreInv, [Next]_vars, NEW t \in issued, \A r \in DOMAIN runs : ~Holds(t, r),
             NEW r \in DOMAIN runs', Holds(t, r)'
      PROVE  FALSE
  <2>1. runs'[r].state = "running" /\ runs'[r].lease_token = t
    BY <1>1 DEF Holds
  <2>2. r \in DOMAIN runs /\ RowStep(r)
    BY <1>1, <2>1, RowsStep
  <2> QED
    BY <1>1, <2>1, <2>2 DEF RowStep, Holds
<1>2. StoreInv /\ [Next]_vars =>
        [\A t \in issued : (\A r \in DOMAIN runs : ~Holds(t, r))
                            => (\A r \in DOMAIN runs' : ~Holds(t, r)')]_vars
  BY <1>1
<1> QED
  BY <1>2, StoreInvariant, PTL DEF Spec, FencedForever

(* No step writes to a closed attempt. *)
LEMMA AttemptsStep ==
    ASSUME StoreInv, [Next]_vars, NEW t \in DOMAIN attempts \cap DOMAIN attempts',
           attempts[t].outcome # "open"
    PROVE  attempts'[t] = attempts[t]
<1>1. ASSUME NEW tokens, NEW outcome, attempts' = Close(tokens, outcome)
      PROVE  attempts'[t] = attempts[t]
  BY <1>1 DEF Close
<1>2. CASE Produce
  BY <1>2 DEF Produce, EnqueueInsert, EnqueueDuplicate, ProducerCommit, RollbackInsert,
              RollbackDuplicate
<1>3. CASE Work
  <2>1. CASE \E names \in NameSets, limit \in Limits : ClaimBatch(names, limit)
    BY <2>1 DEF ClaimBatch, ClaimAmong, Batches, Claim
  <2>2. ASSUME NEW r \in RunIds, NEW u \in issued, DirectWrite(r, u) \/ DelayedWrite(r, u)
        PROVE  attempts'[t] = attempts[t]
    <3>1. PICK at : WorkerWrite(r, u, at)
      BY <2>2 DEF DirectWrite, DelayedWrite
    <3>2. CASE \E outcome : finalize_run(r, u, outcome, at)
      BY <1>1, <3>2 DEF finalize_run
    <3>3. CASE \E retryable : fail_run(r, u, retryable, at)
      BY <1>1, <3>3 DEF fail_run
    <3>4. CASE renew_lease(r, u, at)
      BY <3>4 DEF renew_lease, HasOpenAttempt, RenewedAttempt
    <3> QED
      BY <3>1, <3>2, <3>3, <3>4 DEF WorkerWrite
  <2>3. CASE \E limit \in Limits : recover_expired(limit)
    <3>1. \E tokens : attempts' = Close(tokens, "expired")
      BY <2>3 DEF recover_expired
    <3> QED
      BY <1>1, <3>1
  <2> QED
    BY <1>3, <2>1, <2>2, <2>3 DEF Work
<1>4. CASE Administer
  <2>1. CASE \E r \in Cancellable : CancelLock(r)
    BY <1>1, <2>1 DEF CancelLock
  <2>2. CASE \E r \in Cancellable :
                CancelStart(r) \/ CancelMiss(r) \/ CancelProbe(r) \/ CancelError(r)
    BY <2>2 DEF CancelStart, CancelMiss, CancelProbe, CancelError
  <2>3. CASE \E before \in 1 .. MaxTime + 1, limit \in Limits : prune_terminal(before, limit)
    BY <2>3 DEF prune_terminal
  <2> QED
    BY <1>4, <2>1, <2>2, <2>3 DEF Administer
<1>5. CASE Tick \/ UNCHANGED vars
  BY <1>5 DEF Tick, vars
<1> QED
  BY <1>2, <1>3, <1>4, <1>5 DEF Next

(* The history of attempts is append-only: whatever happens to a task      *)
(* later, an attempt that was closed keeps the outcome it was closed with. *)
THEOREM HistoryStays == Spec => HistoryAppendOnly
<1>1. StoreInv /\ [Next]_vars =>
        [\A t \in DOMAIN attempts \cap DOMAIN attempts' :
           attempts[t].outcome # "open" => attempts'[t] = attempts[t]]_vars
  BY AttemptsStep
<1> QED
  BY <1>1, StoreInvariant, PTL DEF Spec, HistoryAppendOnly

-----------------------------------------------------------------------------
(* What a step of the store does to locks, clock and leases                 *)

(* Time does not run backwards, and a row is locked, if it is locked by    *)
(* this step, from now on.                                                 *)
LEMMA ClockStep ==
    ASSUME TypeOK, [Next]_vars
    PROVE  /\ now' \in Nat /\ now' >= now
           /\ \A r \in RunIds : \/ tx'[r] = tx[r] \/ tx'[r] = NoTx
                                \/ tx'[r] = [kind |-> "insert", since |-> now]
                                \/ tx'[r] = [kind |-> "duplicate", since |-> now]
<1>0. now \in Nat /\ tx \in [RunIds -> TxState]
  BY DEF TypeOK
<1>1. CASE Produce
  <2>1. \E x \in RunIds : \/ tx' = [tx EXCEPT ![x] = NoTx]
                          \/ tx' = [tx EXCEPT ![x] = [kind |-> "insert", since |-> now]]
                          \/ tx' = [tx EXCEPT ![x] = [kind |-> "duplicate", since |-> now]]
    BY <1>1, Zenon DEF Produce, EnqueueInsert, EnqueueDuplicate, ProducerCommit,
                       RollbackInsert, RollbackDuplicate, FreeIds
  <2>2. now' = now
    BY <1>1, Zenon DEF Produce, EnqueueInsert, EnqueueDuplicate, ProducerCommit,
                       RollbackInsert, RollbackDuplicate
  <2>3. now' \in Nat /\ now' >= now
    BY <1>0, <2>2
  <2>4. \A r \in RunIds : \/ tx'[r] = tx[r] \/ tx'[r] = NoTx
                          \/ tx'[r] = [kind |-> "insert", since |-> now]
                          \/ tx'[r] = [kind |-> "duplicate", since |-> now]
    BY <1>0, <2>1, Zenon
  <2> QED
    BY <2>3, <2>4
<1>2. CASE Work
  <2>1. CASE \/ \E names \in NameSets, limit \in Limits : ClaimBatch(names, limit)
             \/ \E limit \in Limits : recover_expired(limit)
    <3>1. tx' = tx /\ now' = now
      BY <2>1 DEF ClaimBatch, ClaimAmong, Batches, Claim, recover_expired
    <3> QED
      BY <1>0, <3>1
  <2>2. ASSUME NEW r \in RunIds, NEW t \in issued, DirectWrite(r, t) \/ DelayedWrite(r, t)
        PROVE  /\ now' = now
               /\ \A x \in RunIds : tx'[x] = tx[x] \/ tx'[x] = NoTx
    <3>1. now' = now
      BY <2>2 DEF DirectWrite, DelayedWrite, WorkerWrite, finalize_run, fail_run, renew_lease
    <3> QED
      BY <1>0, <2>2, <3>1 DEF DirectWrite, DelayedWrite
  <2> QED
    BY <1>0, <1>2, <2>1, <2>2 DEF Work
<1>3. CASE Administer
  <2>1. tx' = tx /\ now' = now
    BY <1>3 DEF Administer, CancelStart, CancelLock, CancelMiss, CancelProbe, CancelError,
                prune_terminal
  <2> QED
    BY <1>0, <2>1
<1>4. CASE Tick \/ UNCHANGED vars
  BY <1>0, <1>4 DEF Tick, vars
<1> QED
  BY <1>1, <1>2, <1>3, <1>4 DEF Next

(* A running row is renewed from a clock that was read after any producer  *)
(* that holds it came.                                                     *)
RenewedFrom(r, at) ==
    /\ r \in DOMAIN runs /\ runs[r].state = "running"
    /\ runs'[r].started_at = runs[r].started_at
    /\ IF tx[r].kind = "duplicate" THEN tx[r].since <= at ELSE at = now

(* A step leaves a lease as it is, or writes it from a clock that was read *)
(* no later than now, and then no producer holds the row.                  *)
LeaseStep(r) ==
    \/ r \in DOMAIN runs /\ runs'[r] = runs[r]
    \/ /\ tx'[r].kind # "duplicate" /\ now' = now
       /\ \E at \in 0 .. now :
            /\ runs'[r].lease_expires_at = at + runs'[r].options.lease_duration
            /\ \/ runs'[r].started_at = now /\ runs'[r].lease_expires_at > now
               \/ RenewedFrom(r, at)

LEMMA WriteLeases ==
    ASSUME TypeOK, NEW r \in RunIds, NEW t \in issued, NEW at \in 0 .. now,
           WorkerWrite(r, t, at), tx'[r].kind # "duplicate",
           IF tx[r].kind = "duplicate" THEN tx[r].since <= at ELSE at = now,
           NEW x \in DOMAIN runs', runs'[x].state = "running"
    PROVE  LeaseStep(x)
<1>0. at \in Nat /\ now \in Nat
  BY DEF TypeOK
<1>1. r \in DOMAIN runs /\ runs[r] \in RunRow /\ runs[r].state = "running" /\ now' = now
  BY DEF WorkerWrite, finalize_run, fail_run, renew_lease, Owns, Committed, TypeOK
<1>2. \E row : runs' = [runs EXCEPT ![r] = row]
  BY DEF WorkerWrite, finalize_run, fail_run, renew_lease
<1>3. DOMAIN runs' = DOMAIN runs /\ (x # r => runs'[x] = runs[x])
  BY <1>2
<1>4. CASE renew_lease(r, t, at)
  <2>1. /\ runs'[r].lease_expires_at = at + runs[r].options.lease_duration
        /\ runs'[r].options = runs[r].options
        /\ runs'[r].started_at = runs[r].started_at
    BY <1>1, <1>4 DEF renew_lease, RunRow
  <2>2. RenewedFrom(r, at)
    BY <1>1, <2>1 DEF RenewedFrom
  <2> QED
    BY <1>0, <1>1, <1>3, <2>1, <2>2 DEF LeaseStep
<1>5. ASSUME NEW outcome \in {"completed", "failed"}, finalize_run(r, t, outcome, at)
      PROVE  runs'[r].state # "running"
  <2>1. runs'[r] = Finished(runs[r], outcome,
                     IF outcome = "failed" THEN "job error" ELSE "none", at)
    BY <1>1, <1>5 DEF finalize_run
  <2> QED
    BY <1>1, <2>1 DEF Finished, RunRow
<1>6. ASSUME NEW retryable \in BOOLEAN, fail_run(r, t, retryable, at)
      PROVE  runs'[r].state # "running"
  <2>1. \/ runs'[r] = Requeued(runs[r], at + runs[r].options.retry_backoff)
        \/ runs'[r] = Finished(runs[r], "failed", "job error", at)
    BY <1>1, <1>6 DEF fail_run
  <2> QED
    BY <1>1, <2>1 DEF Finished, Requeued, RunRow
<1> QED
  BY <1>3, <1>4, <1>5, <1>6 DEF WorkerWrite, LeaseStep

LEMMA LeasesStep ==
    ASSUME StoreInv, [Next]_vars, NEW x \in DOMAIN runs', runs'[x].state = "running"
    PROVE  LeaseStep(x)
<1>0. TypeOK /\ now \in Nat /\ runs \in [DOMAIN runs -> RunRow] /\ tx \in [RunIds -> TxState]
  BY DEF StoreInv, TypeOK
<1>1. CASE Produce
  <2>1. ASSUME NEW r \in FreeIds, NEW opt \in Options, NEW at \in StartTimes \cup {Null},
               EnqueueInsert(r, opt, at)
        PROVE  LeaseStep(x)
    BY <2>1 DEF EnqueueInsert, NewRow, LeaseStep
  <2>2. ASSUME NEW r \in RunIds,
               \/ \E opt \in Options : EnqueueDuplicate(r, opt)
               \/ ProducerCommit(r) \/ RollbackInsert(r) \/ RollbackDuplicate(r)
        PROVE  LeaseStep(x)
    BY <2>2 DEF EnqueueDuplicate, ProducerCommit, RollbackInsert, RollbackDuplicate, LeaseStep
  <2> QED
    BY <1>1, <2>1, <2>2 DEF Produce
<1>2. CASE Work
  <2>1. ASSUME NEW names \in NameSets, NEW limit \in Limits, ClaimBatch(names, limit)
        PROVE  LeaseStep(x)
    <3>1. PICK batch \in SUBSET Eligible(names) :
            \E token \in [batch -> FreshTokens], at \in [batch -> ClaimClocks(batch)] :
              Claim(batch, token, at)
      BY <2>1 DEF ClaimBatch, ClaimAmong, Batches
    <3>2. PICK token \in [batch -> FreshTokens], at \in [batch -> ClaimClocks(batch)] :
            Claim(batch, token, at)
      BY <3>1
    <3>3. /\ DOMAIN runs' = DOMAIN runs /\ tx' = tx /\ now' = now
          /\ \A r \in DOMAIN runs \ batch : runs'[r] = runs[r]
          /\ \A r \in DOMAIN runs \cap batch : runs'[r] = Leased(runs[r], token[r], at[r])
      BY <3>2 DEF Claim
    <3>4. CASE x \in batch
      <4>1. runs[x] \in RunRow /\ token[x] \in Tokens /\ tx[x].kind = "none"
        BY <1>0, <3>1, <3>2, <3>3, <3>4 DEF FreshTokens, Eligible, Unlocked
      <4>2. at[x] \in 0 .. now /\ at[x] \in Nat
        BY <1>0, <3>2, <3>4 DEF ClaimClocks
      <4>3. /\ runs'[x].lease_expires_at = at[x] + runs[x].options.lease_duration
            /\ runs'[x].options = runs[x].options /\ runs'[x].started_at = now
        BY <1>0, <3>3, <3>4, <4>1, <4>2, LeasedType
      <4>4. runs'[x].lease_expires_at > now
        BY <3>2, <3>4, <4>3 DEF Claim, LeaseAccepted
      <4> QED
        BY <1>0, <3>3, <4>1, <4>2, <4>3, <4>4 DEF LeaseStep
    <3> QED
      BY <3>3, <3>4 DEF LeaseStep
  <2>2. ASSUME NEW r \in RunIds, NEW t \in issued, DirectWrite(r, t) \/ DelayedWrite(r, t)
        PROVE  LeaseStep(x)
    <3>1. tx[r].since \in Nat
      BY <1>0 DEF TxState
    <3>2. \E at \in 0 .. now :
            /\ WorkerWrite(r, t, at)
            /\ IF tx[r].kind = "duplicate" THEN tx[r].since <= at ELSE at = now
      BY <1>0, <2>2, <3>1 DEF DirectWrite, DelayedWrite, Unlocked
    <3>3. tx'[r].kind # "duplicate"
      BY <1>0, <2>2 DEF DirectWrite, DelayedWrite, Unlocked, NoTx
    <3> QED
      BY <1>0, <3>2, <3>3, WriteLeases
  <2>3. ASSUME NEW limit \in Limits, recover_expired(limit)
        PROVE  LeaseStep(x)
    <3>1. PICK batch \in SUBSET {r \in Committed : Unlocked(r) /\ Lapsed(r)} :
            runs' = [r \in DOMAIN runs |->
                       IF r \in {y \in batch : HasOpenAttempt(runs[y].lease_token)}
                       THEN Recovered(runs[r]) ELSE runs[r]]
      BY <2>3 DEF recover_expired
    <3>2. x \in DOMAIN runs /\ (runs'[x] = runs[x] \/ runs'[x] = Recovered(runs[x]))
      BY <3>1
    <3>3. Recovered(runs[x]).state # "running"
      BY <1>0, <3>2 DEF Recovered, Requeued, Finished, RunRow
    <3> QED
      BY <3>2, <3>3 DEF LeaseStep
  <2> QED
    BY <1>2, <2>1, <2>2, <2>3 DEF Work
<1>3. CASE Administer
  <2>1. ASSUME NEW r \in Cancellable, CancelLock(r)
        PROVE  LeaseStep(x)
    <3>1. /\ r \in DOMAIN runs /\ DOMAIN runs' = DOMAIN runs
          /\ runs'[r] = Finished(runs[r], "cancelled", "none", now)
          /\ x # r => runs'[x] = runs[x]
      BY <2>1 DEF CancelLock
    <3>2. runs'[r].state # "running"
      BY <1>0, <3>1 DEF Finished, RunRow
    <3> QED
      BY <3>1, <3>2 DEF LeaseStep
  <2> QED
    BY <1>3, <2>1 DEF Administer, CancelStart, CancelMiss, CancelProbe, CancelError,
                      prune_terminal, LeaseStep
<1>4. CASE Tick \/ UNCHANGED vars
  BY <1>4 DEF Tick, vars, LeaseStep
<1> QED
  BY <1>1, <1>2, <1>3, <1>4 DEF Next

(* StartedBefore and LeaseAfterStart are inductive together: a claim is    *)
(* accepted only with a deadline after its start, and a renewal counts the *)
(* new one from a clock that StartedBefore puts after that start.          *)
LEMMA StartStep ==
    StoreInv /\ StartedBefore /\ LeaseAfterStart /\ [Next]_vars
        => StartedBefore' /\ LeaseAfterStart'
<1> SUFFICES ASSUME StoreInv, StartedBefore, LeaseAfterStart, [Next]_vars,
                    NEW r \in DOMAIN runs', runs'[r].state = "running"
             PROVE  /\ runs'[r].started_at <= now'
                    /\ tx'[r].kind = "duplicate" => runs'[r].started_at <= tx'[r].since
                    /\ runs'[r].lease_expires_at > runs'[r].started_at
  BY DEF StartedBefore, LeaseAfterStart
<1>0. TypeOK /\ TypeOK'
  BY StoreStep DEF StoreInv
<1>1. /\ r \in RunIds /\ now \in Nat /\ now' \in Nat /\ now <= now'
      /\ tx[r] \in TxState /\ tx[r].since \in Nat
  BY <1>0, ClockStep DEF TypeOK, TxState
<1>2. runs'[r] \in RunRow /\ runs'[r].options \in Options
  BY <1>0 DEF TypeOK, RunRow
<1>3. runs'[r].options.lease_duration \in Nat /\ runs'[r].options.lease_duration > 0
  BY <1>2, OptionFacts
<1>4. ASSUME r \in DOMAIN runs, runs[r].state = "running"
      PROVE  /\ runs[r].started_at \in Nat /\ runs[r].started_at <= now
             /\ tx[r].kind = "duplicate" => runs[r].started_at <= tx[r].since
             /\ runs[r].lease_expires_at > runs[r].started_at
  <2>1. runs[r] \in RunRow /\ RowOK(runs[r])
    BY <1>0, <1>4 DEF StoreInv, RowStates, TypeOK
  <2>2. runs[r].started_at \in Nat
    BY <1>4, <2>1 DEF RowOK, RunRow
  <2> QED
    BY <1>4, <2>2 DEF StartedBefore, LeaseAfterStart
<1>5. LeaseStep(r)
  BY LeasesStep
<1>6. CASE r \in DOMAIN runs /\ runs'[r] = runs[r]
  <2>1. \/ tx'[r] = tx[r] \/ tx'[r].kind # "duplicate"
        \/ tx'[r].since = now
    BY <1>0, <1>1, ClockStep DEF NoTx
  <2> QED
    BY <1>1, <1>4, <1>6, <2>1
<1>7. CASE ~(r \in DOMAIN runs /\ runs'[r] = runs[r])
  <2>1. PICK at \in 0 .. now :
          /\ runs'[r].lease_expires_at = at + runs'[r].options.lease_duration
          /\ \/ runs'[r].started_at = now /\ runs'[r].lease_expires_at > now
             \/ RenewedFrom(r, at)
    BY <1>5, <1>7 DEF LeaseStep
  <2>2. tx'[r].kind # "duplicate" /\ now' = now
    BY <1>5, <1>7 DEF LeaseStep
  <2>3. CASE runs'[r].started_at = now /\ runs'[r].lease_expires_at > now
    BY <1>1, <2>2, <2>3
  <2>4. CASE RenewedFrom(r, at)
    <3>1. runs'[r].started_at \in Nat /\ runs'[r].started_at <= now
          /\ runs'[r].started_at <= at
      BY <1>1, <1>4, <2>1, <2>4 DEF RenewedFrom
    <3> QED
      BY <1>1, <1>3, <2>1, <2>2, <3>1
  <2> QED
    BY <2>1, <2>3, <2>4
<1> QED
  BY <1>6, <1>7

(* The rows of scheduler_runs satisfy its CHECK constraints, for every     *)
(* task, worker and clock: a task is never claimed more often than its     *)
(* max_attempts, lease and result columns fit the state, and a lease ends  *)
(* after its start, the renewals that waited for the row included.         *)
THEOREM RowsKeepTheirChecks == Spec => []RowChecks
<1>1. Init => StartedBefore /\ LeaseAfterStart
  BY DEF Init, StartedBefore, LeaseAfterStart
<1>2. StoreInv /\ LeaseAfterStart => RowChecks
  BY DEF StoreInv, RowChecks
<1> QED
  BY <1>1, <1>2, StartStep, StoreInvariant, PTL DEF Spec

-----------------------------------------------------------------------------
(* Which ids have rows                                                     *)

(* An id that was pruned or rolled back has no row. *)
SpentIds == spent \cap DOMAIN runs = {}

(* Only an insert under a free id adds a row, and a row that goes is spent. *)
LEMMA SpentStep ==
    ASSUME StoreInv, SpentIds, [Next]_vars
    PROVE  SpentIds'
<1>1. ASSUME DOMAIN runs' = DOMAIN runs, spent' = spent
      PROVE  SpentIds'
  BY <1>1 DEF SpentIds
<1>2. CASE Produce
  <2>1. ASSUME NEW r \in FreeIds, NEW opt \in Options, NEW at \in StartTimes \cup {Null},
               EnqueueInsert(r, opt, at)
        PROVE  SpentIds'
    BY <2>1 DEF EnqueueInsert, FreeIds, SpentIds
  <2>2. ASSUME NEW r \in RunIds,
               (\E opt \in Options : EnqueueDuplicate(r, opt)) \/ ProducerCommit(r)
                 \/ RollbackDuplicate(r)
        PROVE  SpentIds'
    BY <1>1, <2>2 DEF EnqueueDuplicate, ProducerCommit, RollbackDuplicate
  <2>3. ASSUME NEW r \in RunIds, RollbackInsert(r)
        PROVE  SpentIds'
    BY <2>3 DEF RollbackInsert, SpentIds
  <2> QED
    BY <1>2, <2>1, <2>2, <2>3 DEF Produce
<1>3. CASE Work
  <2>1. CASE \/ \E names \in NameSets, limit \in Limits : ClaimBatch(names, limit)
             \/ \E limit \in Limits : recover_expired(limit)
    BY <1>1, <2>1 DEF ClaimBatch, ClaimAmong, Batches, Claim, recover_expired
  <2>2. ASSUME NEW r \in RunIds, NEW t \in issued, DirectWrite(r, t) \/ DelayedWrite(r, t)
        PROVE  SpentIds'
    <3>1. DOMAIN runs' = DOMAIN runs /\ spent' = spent
      BY <2>2 DEF DirectWrite, DelayedWrite, WorkerWrite, finalize_run, fail_run, renew_lease
    <3> QED
      BY <1>1, <3>1
  <2> QED
    BY <1>3, <2>1, <2>2 DEF Work
<1>4. CASE Administer
  <2>1. CASE \E r \in Cancellable :
               CancelStart(r) \/ CancelLock(r) \/ CancelMiss(r) \/ CancelProbe(r)
                 \/ CancelError(r)
    <3>1. DOMAIN runs' = DOMAIN runs /\ spent' = spent
      BY <2>1 DEF CancelStart, CancelLock, CancelMiss, CancelProbe, CancelError
    <3> QED
      BY <1>1, <3>1
  <2>2. CASE \E before \in 1 .. MaxTime + 1, limit \in Limits : prune_terminal(before, limit)
    BY <2>2 DEF prune_terminal, SpentIds
  <2> QED
    BY <1>4, <2>1, <2>2 DEF Administer
<1>5. CASE Tick \/ UNCHANGED vars
  BY <1>1, <1>5 DEF Tick, vars
<1> QED
  BY <1>2, <1>3, <1>4, <1>5 DEF Next

-----------------------------------------------------------------------------
(* What cancel answers                                                     *)

(***************************************************************************)
(* CancelTruthful is inductive together with what the snapshot of a call   *)
(* promises: the row it saw is still committed, or was pruned.             *)
(***************************************************************************)
SnapshotKept ==
    \A r \in RunIds : cancel[r].visible => r \in Committed \/ r \in spent

CancelInductive == CancelTruthful /\ SnapshotKept

(* A committed row stays committed until it is spent; ids stay spent. *)
LEMMA CommittedStays ==
    ASSUME StoreInv, [Next]_vars
    PROVE  /\ spent \subseteq spent'
           /\ \A r \in DOMAIN runs : r \in DOMAIN runs' \/ r \in spent'
           /\ \A r \in Committed : r \in Committed' \/ r \in spent'
<1> DEFINE Goal == /\ spent \subseteq spent'
                   /\ \A r \in DOMAIN runs : r \in DOMAIN runs' \/ r \in spent'
                   /\ \A r \in Committed : r \in Committed' \/ r \in spent'
<1>0. TypeOK
  BY DEF StoreInv
<1>1. ASSUME DOMAIN runs' = DOMAIN runs, spent' = spent,
             \A r \in RunIds : tx'[r] = tx[r] \/ tx'[r].kind # "insert"
      PROVE  Goal
  BY <1>0, <1>1 DEF Committed, TypeOK
<1>2. CASE Produce
  <2>1. ASSUME NEW r \in FreeIds, NEW opt \in Options, NEW at \in StartTimes \cup {Null},
               EnqueueInsert(r, opt, at)
        PROVE  Goal
    BY <1>0, <2>1 DEF EnqueueInsert, FreeIds, Committed, TypeOK
  <2>2. ASSUME NEW r \in RunIds,
               (\E opt \in Options : EnqueueDuplicate(r, opt)) \/ ProducerCommit(r)
                 \/ RollbackDuplicate(r)
        PROVE  Goal
    <3>1. /\ runs' = runs /\ spent' = spent
          /\ \A x \in RunIds : tx'[x] = tx[x] \/ tx'[x].kind # "insert"
      BY <1>0, <2>2 DEF EnqueueDuplicate, ProducerCommit, RollbackDuplicate, NoTx, TypeOK
    <3> QED
      BY <1>1, <3>1
  <2>3. ASSUME NEW r \in RunIds, RollbackInsert(r)
        PROVE  Goal
    BY <1>0, <2>3 DEF RollbackInsert, Committed, TypeOK
  <2> QED
    BY <1>2, <2>1, <2>2, <2>3 DEF Produce
<1>3. CASE Work
  <2>1. CASE \/ \E names \in NameSets, limit \in Limits : ClaimBatch(names, limit)
             \/ \E limit \in Limits : recover_expired(limit)
    <3>1. DOMAIN runs' = DOMAIN runs /\ spent' = spent /\ tx' = tx
      BY <2>1 DEF ClaimBatch, ClaimAmong, Batches, Claim, recover_expired
    <3> QED
      BY <1>1, <3>1
  <2>2. ASSUME NEW r \in RunIds, NEW t \in issued, DirectWrite(r, t) \/ DelayedWrite(r, t)
        PROVE  Goal
    <3>1. \A x \in RunIds : tx'[x] = tx[x] \/ tx'[x].kind # "insert"
      BY <1>0, <2>2 DEF DirectWrite, DelayedWrite, NoTx, TypeOK
    <3>2. DOMAIN runs' = DOMAIN runs /\ spent' = spent
      BY <2>2 DEF DirectWrite, DelayedWrite, WorkerWrite, finalize_run, fail_run, renew_lease
    <3> QED
      BY <1>1, <3>1, <3>2
  <2> QED
    BY <1>3, <2>1, <2>2 DEF Work
<1>4. CASE Administer
  <2>1. CASE \E r \in Cancellable :
               CancelStart(r) \/ CancelLock(r) \/ CancelMiss(r) \/ CancelProbe(r)
                 \/ CancelError(r)
    <3>1. DOMAIN runs' = DOMAIN runs /\ spent' = spent /\ tx' = tx
      BY <2>1 DEF CancelStart, CancelLock, CancelMiss, CancelProbe, CancelError
    <3> QED
      BY <1>1, <3>1
  <2>2. CASE \E before \in 1 .. MaxTime + 1, limit \in Limits : prune_terminal(before, limit)
    BY <2>2 DEF prune_terminal, Committed
  <2> QED
    BY <1>4, <2>1, <2>2 DEF Administer
<1>5. CASE Tick \/ UNCHANGED vars
  <2>1. runs' = runs /\ spent' = spent /\ tx' = tx
    BY <1>5 DEF Tick, vars
  <2> QED
    BY <1>1, <2>1
<1> QED
  BY <1>2, <1>3, <1>4, <1>5 DEF Next

(* What a call of cancel knew and answered stays true under every step     *)
(* that is not a step of that call.                                        *)
LEMMA AnswerStays ==
    ASSUME StoreInv, CancelInductive, [Next]_vars, NEW r \in RunIds, cancel'[r] = cancel[r]
    PROVE  /\ cancel'[r].visible => r \in Committed' \/ r \in spent'
           /\ cancel'[r].phase = "Cancelled" =>
                r \in spent' \/ (r \in DOMAIN runs' /\ runs'[r].state = "cancelled")
           /\ cancel'[r].phase = "NotFound" /\ cancel'[r].visible => r \in spent'
<1>1. cancel'[r].visible => r \in Committed' \/ r \in spent'
  BY CommittedStays DEF CancelInductive, SnapshotKept
<1>2. ASSUME r \in DOMAIN runs, runs[r].state = "cancelled", r \in DOMAIN runs'
      PROVE  runs'[r].state = "cancelled"
  BY <1>2, RowsStep DEF RowStep
<1>3. cancel'[r].phase = "Cancelled" =>
        r \in spent' \/ (r \in DOMAIN runs' /\ runs'[r].state = "cancelled")
  BY <1>2, CommittedStays DEF CancelInductive, CancelTruthful
<1> QED
  BY <1>1, <1>3, CommittedStays DEF CancelInductive, CancelTruthful

(* Every step preserves it. *)
LEMMA CancelStep ==
    StoreInv /\ CancelInductive /\ [Next]_vars => CancelInductive'
<1> SUFFICES ASSUME StoreInv, CancelInductive, [Next]_vars, NEW r \in RunIds
             PROVE  /\ cancel'[r].visible => r \in Committed' \/ r \in spent'
                    /\ cancel'[r].phase = "Cancelled" =>
                         r \in spent' \/ (r \in DOMAIN runs' /\ runs'[r].state = "cancelled")
                    /\ cancel'[r].phase = "NotFound" /\ cancel'[r].visible => r \in spent'
  BY DEF CancelInductive, CancelTruthful, SnapshotKept
<1>0. TypeOK
  BY DEF StoreInv
<1>1. \/ cancel'[r] = cancel[r]
      \/ /\ r \in Cancellable
         /\ CancelStart(r) \/ CancelLock(r) \/ CancelMiss(r) \/ CancelProbe(r) \/ CancelError(r)
  <2>1. CASE UNCHANGED cancel
    BY <2>1
  <2>2. ASSUME NEW x \in Cancellable,
               CancelStart(x) \/ CancelLock(x) \/ CancelMiss(x) \/ CancelProbe(x)
                 \/ CancelError(x),
               x # r
        PROVE  cancel'[r] = cancel[r]
    BY <1>0, <2>2 DEF CancelStart, CancelLock, CancelMiss, CancelProbe, CancelError,
                      Cancelling, TypeOK
  <2>3. CASE Produce \/ Work \/ Tick \/ UNCHANGED vars
    <3>1. CASE Produce
      BY <3>1 DEF Produce, EnqueueInsert, EnqueueDuplicate, ProducerCommit, RollbackInsert,
                  RollbackDuplicate
    <3>2. CASE \E names \in NameSets, limit \in Limits : ClaimBatch(names, limit)
      BY <3>2 DEF ClaimBatch, ClaimAmong, Batches, Claim
    <3>3. ASSUME NEW x \in RunIds, NEW t \in issued, DirectWrite(x, t) \/ DelayedWrite(x, t)
          PROVE  cancel'[r] = cancel[r]
      <4>1. PICK at : WorkerWrite(x, t, at)
        BY <3>3 DEF DirectWrite, DelayedWrite
      <4> QED
        BY <4>1 DEF WorkerWrite, finalize_run, fail_run, renew_lease
    <3>4. CASE \E limit \in Limits : recover_expired(limit)
      BY <3>4 DEF recover_expired
    <3>5. CASE Tick \/ UNCHANGED vars
      BY <3>5 DEF Tick, vars
    <3> QED
      BY <2>3, <3>1, <3>2, <3>3, <3>4, <3>5 DEF Work
  <2>4. CASE Administer
    BY <2>1, <2>2, <2>4 DEF Administer, prune_terminal
  <2> QED
    BY <2>3, <2>4 DEF Next
<1>2. CASE cancel'[r] = cancel[r]
  BY <1>2, AnswerStays
<1>3. /\ r \in Committed => r \in Committed' \/ r \in spent'
      /\ spent \subseteq spent'
      /\ cancel[r].visible => r \in Committed \/ r \in spent
  BY CommittedStays DEF CancelInductive, SnapshotKept
<1>4. cancel \in [RunIds -> CancelState] /\ runs \in [DOMAIN runs -> RunRow]
  BY <1>0 DEF TypeOK
<1>5. CASE CancelStart(r)
  BY <1>3, <1>4, <1>5 DEF CancelStart, Cancelling
<1>6. CASE CancelLock(r)
  <2>1. /\ r \in DOMAIN runs /\ DOMAIN runs' = DOMAIN runs
        /\ runs'[r] = Finished(runs[r], "cancelled", "none", now)
        /\ cancel'[r].phase = "Cancelled" /\ cancel'[r].visible = cancel[r].visible
    BY <1>4, <1>6 DEF CancelLock, Cancelling, CancelState
  <2>2. runs'[r].state = "cancelled"
    BY <1>4, <2>1 DEF Finished, RunRow
  <2> QED
    BY <1>3, <2>1, <2>2
<1>7. CASE CancelMiss(r)
  <2>1. cancel'[r].phase = "probing" /\ cancel'[r].visible = cancel[r].visible
    BY <1>4, <1>7 DEF CancelMiss, Cancelling, CancelState
  <2> QED
    BY <1>3, <2>1
<1>8. CASE CancelProbe(r)
  <2>1. /\ cancel'[r].phase = (IF r \in Committed THEN "AlreadyTerminal" ELSE "NotFound")
        /\ cancel'[r].visible = cancel[r].visible
        /\ spent' = spent
    BY <1>4, <1>8 DEF CancelProbe, Cancelling, CancelState
  <2> QED
    BY <1>3, <2>1
<1>9. CASE CancelError(r)
  BY <1>3, <1>4, <1>9 DEF CancelError, Cancelling, NoCancel
<1> QED
  BY <1>1, <1>2, <1>5, <1>6, <1>7, <1>8, <1>9

(* The answers Cancelled and NotFound of cancel are true whatever claims,  *)
(* completions, recoveries and retention run between its two statements.   *)
THEOREM CancelAnswersTruly == Spec => []CancelTruthful
<1>1. Init => CancelInductive
  BY DEF Init, CancelInductive, CancelTruthful, SnapshotKept, NoCancel
<1>2. CancelInductive => CancelTruthful
  BY DEF CancelInductive
<1> QED
  BY <1>1, <1>2, CancelStep, StoreInvariant, PTL DEF Spec
=============================================================================
