------------------------ MODULE WorkerRuntimeProofs ------------------------
(***************************************************************************)
(* Theorems about WorkerRuntime, for every value of its constants: the     *)
(* runtime uses the store only through its operations, and keeps its       *)
(* promises about permits, deadlines, results and shutdown.                *)
(***************************************************************************)
EXTENDS WorkerRuntime, TaskStoreProofs, FiniteSetTheorems

-----------------------------------------------------------------------------
(* What a step of the store does to the clocks of locks, leases, attempts  *)

LEMMA TxClockStep == TypeOK /\ TxClock /\ [Next]_vars => TxClock'
<1> SUFFICES ASSUME TypeOK, TxClock, [Next]_vars, NEW r \in RunIds
             PROVE  tx'[r].since <= now' /\ (tx'[r].kind = "none" => tx'[r] = NoTx)
  BY DEF TxClock
<1>1. tx[r] \in TxState /\ now \in Nat
  BY DEF TypeOK
<1>2. tx[r].since \in Nat /\ tx[r].since <= now /\ (tx[r].kind = "none" => tx[r] = NoTx)
  BY <1>1 DEF TxClock, TxState
<1> QED
  BY <1>1, <1>2, ClockStep DEF NoTx

LEMMA LeaseClockStep == StoreInv /\ TxClock /\ LeaseClock /\ [Next]_vars => LeaseClock'
<1> DEFINE Bound(r) == IF tx[r].kind = "duplicate" THEN tx[r].since ELSE now
<1> SUFFICES ASSUME StoreInv, TxClock, LeaseClock, [Next]_vars,
                    NEW r \in DOMAIN runs', runs'[r].state = "running"
             PROVE  runs'[r].lease_expires_at <= runs'[r].options.lease_duration + Bound(r)'
  BY DEF LeaseClock
<1>0. TypeOK /\ TypeOK'
  BY StoreStep DEF StoreInv
<1>1. /\ r \in RunIds /\ now \in Nat /\ now' \in Nat /\ now <= now'
      /\ tx[r].since \in Nat /\ tx[r].since <= now
  BY <1>0, ClockStep DEF TypeOK, TxState, TxClock
<1>2. Bound(r) \in Nat /\ Bound(r)' \in Nat /\ Bound(r) <= Bound(r)'
  BY <1>0, <1>1, ClockStep DEF NoTx, TypeOK, TxState
<1>3. runs'[r] \in RunRow /\ runs'[r].options \in Options
  BY <1>0 DEF TypeOK, RunRow
<1>4. runs'[r].options.lease_duration \in Nat
  BY <1>3, OptionFacts
<1>5. LeaseStep(r)
  BY LeasesStep
<1>6. CASE r \in DOMAIN runs /\ runs'[r] = runs[r]
  <2>1. /\ runs[r].lease_expires_at # Null /\ runs[r] \in RunRow
        /\ runs[r].lease_expires_at <= runs[r].options.lease_duration + Bound(r)
    BY <1>0, <1>6 DEF StoreInv, RowStates, RowOK, LeaseClock, TypeOK
  <2>2. runs[r].lease_expires_at \in Nat
    BY <2>1 DEF RunRow
  <2> HIDE DEF Bound
  <2> QED
    BY <1>2, <1>4, <1>6, <2>1, <2>2
<1>7. CASE ~(r \in DOMAIN runs /\ runs'[r] = runs[r])
  <2>1. Bound(r)' = now'
    BY <1>5, <1>7 DEF LeaseStep
  <2> QED
    BY <1>1, <1>4, <1>5, <1>7, <2>1 DEF LeaseStep
<1> QED
  BY <1>6, <1>7

(* An attempt keeps its run and its number, and its deadline only grows. *)
AttemptKept(t) ==
    /\ attempts'[t].run_id = attempts[t].run_id
    /\ attempts'[t].attempt_number = attempts[t].attempt_number
    /\ attempts'[t].lease_expires_at >= attempts[t].lease_expires_at

LEMMA CloseKeeps ==
    ASSUME TypeOK, NEW tokens, NEW outcome, attempts' = Close(tokens, outcome),
           NEW t \in DOMAIN attempts
    PROVE  t \in DOMAIN attempts' /\ AttemptKept(t)
<1>1. attempts[t] \in AttemptRow
  BY DEF TypeOK
<1>2. attempts[t].lease_expires_at \in Nat
  BY <1>1 DEF AttemptRow
<1>3. attempts'[t] = attempts[t] \/ attempts'[t] = [attempts[t] EXCEPT !.outcome = outcome]
  BY DEF Close
<1>4. DOMAIN attempts' = DOMAIN attempts
  BY DEF Close
<1> QED
  BY <1>1, <1>2, <1>3, <1>4 DEF AttemptKept, AttemptRow

(* A write of a worker, with a clock it could have read. *)
LEMMA WriteLedger ==
    ASSUME StoreInv, LeaseClock, NEW r \in RunIds, NEW t \in issued, NEW at \in Nat,
           at >= (IF tx[r].kind = "duplicate" THEN tx[r].since ELSE now),
           WorkerWrite(r, t, at), NEW u \in DOMAIN attempts
    PROVE  u \in DOMAIN attempts' /\ AttemptKept(u)
<1>0. TypeOK /\ tx[r].since \in Nat /\ now \in Nat
  BY DEF StoreInv, TypeOK, TxState
<1>1. CASE \E outcome \in {"completed", "failed"} : finalize_run(r, t, outcome, at)
  BY <1>0, <1>1, CloseKeeps DEF finalize_run
<1>2. CASE \E retryable \in BOOLEAN : fail_run(r, t, retryable, at)
  BY <1>0, <1>2, CloseKeeps DEF fail_run
<1>3. CASE renew_lease(r, t, at)
  <2>1. /\ r \in DOMAIN runs /\ runs[r].state = "running" /\ runs[r].lease_token = t
        /\ t \in DOMAIN attempts
        /\ attempts' = [attempts EXCEPT ![t].lease_expires_at =
                                            at + runs[r].options.lease_duration]
    BY <1>3 DEF renew_lease, Owns, Committed, HasOpenAttempt, RenewedAttempt
  <2>2. runs[r] \in RunRow /\ runs[r].options \in Options /\ attempts[t] \in AttemptRow
        /\ attempts[u] \in AttemptRow
    BY <1>0, <2>1 DEF TypeOK, RunRow
  <2>3. runs[r].options.lease_duration \in Nat
    BY <2>2, OptionFacts
  <2>4. attempts[t].lease_expires_at = runs[r].lease_expires_at
    BY <2>1 DEF StoreInv, LiveAttempt
  <2>5. attempts[t].lease_expires_at \in Nat /\ attempts[u].lease_expires_at \in Nat
    BY <2>2 DEF AttemptRow
  <2>6. at + runs[r].options.lease_duration >= attempts[t].lease_expires_at
    <3>1. runs[r].lease_expires_at <= runs[r].options.lease_duration +
            (IF tx[r].kind = "duplicate" THEN tx[r].since ELSE now)
      BY <2>1 DEF LeaseClock
    <3> QED
      BY <1>0, <2>3, <2>4, <2>5, <3>1
  <2>7. CASE u = t
    <3>1. attempts'[t] = [attempts[t] EXCEPT !.lease_expires_at =
                                            at + runs[r].options.lease_duration]
      BY <2>1
    <3>2. /\ attempts'[t].lease_expires_at = at + runs[r].options.lease_duration
          /\ attempts'[t].run_id = attempts[t].run_id
          /\ attempts'[t].attempt_number = attempts[t].attempt_number
      BY <2>2, <3>1 DEF AttemptRow
    <3> QED
      BY <2>1, <2>6, <2>7, <3>2 DEF AttemptKept
  <2>8. CASE u # t
    BY <2>1, <2>5, <2>8 DEF AttemptKept
  <2> QED
    BY <2>7, <2>8
<1> QED
  BY <1>1, <1>2, <1>3 DEF WorkerWrite

(* A claim adds attempts under fresh tokens. *)
LEMMA ClaimLedger ==
    ASSUME TypeOK, NEW names, NEW limit, ClaimBatch(names, limit)
    PROVE  /\ DOMAIN attempts \subseteq DOMAIN attempts'
           /\ \A t \in DOMAIN attempts : attempts'[t] = attempts[t]
           /\ DOMAIN attempts' \ DOMAIN attempts = issued' \ issued
           /\ \A t \in issued' \ issued :
                attempts'[t].run_id \in DOMAIN runs /\ attempts'[t].outcome = "open"
<1>1. PICK batch \in SUBSET Eligible(names) :
        \E token \in [batch -> FreshTokens], at \in [batch -> ClaimClocks(batch)] :
          Claim(batch, token, at)
  BY DEF ClaimBatch, ClaimAmong, Batches
<1>2. PICK token \in [batch -> FreshTokens], at \in [batch -> ClaimClocks(batch)] :
          Claim(batch, token, at)
  BY <1>1
<1>3. /\ DOMAIN attempts' = DOMAIN attempts \cup {token[r] : r \in batch}
      /\ issued' = issued \cup {token[r] : r \in batch}
      /\ \A t \in DOMAIN attempts : attempts'[t] = attempts[t]
  BY <1>2 DEF Claim
<1>4. \A r \in batch : token[r] \notin issued
  BY <1>2 DEF FreshTokens
<1>5. DOMAIN attempts \subseteq issued /\ batch \subseteq DOMAIN runs
  BY <1>1 DEF TypeOK, Eligible, Committed
<1>6. ASSUME NEW t \in issued' \ issued
      PROVE  attempts'[t].run_id \in DOMAIN runs /\ attempts'[t].outcome = "open"
  <2> DEFINE r == CHOOSE x \in batch : token[x] = t
  <2>1. \E x \in batch : token[x] = t
    BY <1>3, <1>6
  <2>2. r \in batch
    BY <2>1
  <2>3. t \in DOMAIN attempts' /\ t \notin DOMAIN attempts
    BY <1>3, <1>5, <1>6
  <2>4. attempts'[t] = NewAttempt(r, runs'[r])
    BY <1>2, <2>3 DEF Claim
  <2> QED
    BY <1>5, <2>2, <2>4 DEF NewAttempt
<1> QED
  BY <1>3, <1>4, <1>5, <1>6

LEMMA LedgerStep ==
    ASSUME StoreInv, TxClock, LeaseClock, [Next]_vars
    PROVE  /\ \A t \in DOMAIN attempts \cap DOMAIN attempts' : AttemptKept(t)
           /\ DOMAIN attempts' \ DOMAIN attempts \subseteq issued' \ issued
           /\ \A t \in DOMAIN attempts' \ DOMAIN attempts : attempts'[t].outcome = "open"
           /\ issued \subseteq issued'
<1> DEFINE Goal == /\ \A t \in DOMAIN attempts \cap DOMAIN attempts' : AttemptKept(t)
                   /\ DOMAIN attempts' \ DOMAIN attempts \subseteq issued' \ issued
                   /\ \A t \in DOMAIN attempts' \ DOMAIN attempts :
                        attempts'[t].outcome = "open"
                   /\ issued \subseteq issued'
<1>0. TypeOK /\ now \in Nat
  BY DEF StoreInv, TypeOK
<1>1. \A t \in DOMAIN attempts : attempts[t].lease_expires_at \in Nat
  BY <1>0 DEF TypeOK, AttemptRow
<1>2. issued \subseteq issued'
  BY RowsStep
<1>3. ASSUME \A t \in DOMAIN attempts \cap DOMAIN attempts' : attempts'[t] = attempts[t],
             DOMAIN attempts' \subseteq DOMAIN attempts
      PROVE  Goal
  BY <1>1, <1>2, <1>3 DEF AttemptKept
<1>4. CASE Produce
  <2>1. attempts' = attempts
    BY <1>4 DEF Produce, EnqueueInsert, EnqueueDuplicate, ProducerCommit, RollbackInsert,
                RollbackDuplicate
  <2> QED
    BY <1>3, <2>1
<1>5. CASE Work
  <2>1. ASSUME NEW names \in NameSets, NEW limit \in Limits, ClaimBatch(names, limit)
        PROVE  Goal
    BY <1>0, <1>1, <1>2, <2>1, ClaimLedger DEF AttemptKept
  <2>2. ASSUME NEW r \in RunIds, NEW t \in issued, DirectWrite(r, t) \/ DelayedWrite(r, t)
        PROVE  Goal
    <3>1. tx[r].since \in Nat
      BY <1>0 DEF TypeOK, TxState
    <3>2. PICK at \in Nat : /\ at >= (IF tx[r].kind = "duplicate" THEN tx[r].since ELSE now)
                            /\ WorkerWrite(r, t, at)
      BY <1>0, <2>2, <3>1 DEF DirectWrite, DelayedWrite, Unlocked
    <3>3. DOMAIN attempts' = DOMAIN attempts
      BY <3>2 DEF WorkerWrite, finalize_run, fail_run, renew_lease, Close, RenewedAttempt
    <3> QED
      BY <1>2, <3>2, <3>3, WriteLedger
  <2>3. ASSUME NEW limit \in Limits, recover_expired(limit)
        PROVE  Goal
    <3>1. \E tokens : attempts' = Close(tokens, "expired")
      BY <2>3 DEF recover_expired
    <3>2. DOMAIN attempts' = DOMAIN attempts
      BY <3>1 DEF Close
    <3> QED
      BY <1>0, <1>2, <3>1, <3>2, CloseKeeps
  <2> QED
    BY <1>5, <2>1, <2>2, <2>3 DEF Work
<1>6. CASE Administer
  <2>1. CASE \E r \in Cancellable : CancelLock(r)
    <3>1. \E tokens : attempts' = Close(tokens, "cancelled")
      BY <2>1 DEF CancelLock
    <3>2. DOMAIN attempts' = DOMAIN attempts
      BY <3>1 DEF Close
    <3> QED
      BY <1>0, <1>2, <3>1, <3>2, CloseKeeps
  <2>2. CASE \E r \in Cancellable :
                CancelStart(r) \/ CancelMiss(r) \/ CancelProbe(r) \/ CancelError(r)
    <3>1. attempts' = attempts
      BY <2>2 DEF CancelStart, CancelMiss, CancelProbe, CancelError
    <3> QED
      BY <1>3, <3>1
  <2>3. CASE \E before \in 1 .. MaxTime + 1, limit \in Limits : prune_terminal(before, limit)
    <3>1. \E doomed : attempts' = [t \in {u \in DOMAIN attempts :
                                            attempts[u].run_id \notin doomed} |-> attempts[t]]
      BY <2>3 DEF prune_terminal
    <3> QED
      BY <1>3, <3>1
  <2> QED
    BY <1>6, <2>1, <2>2, <2>3 DEF Administer
<1>7. CASE Tick \/ UNCHANGED vars
  <2>1. attempts' = attempts
    BY <1>7 DEF Tick, vars
  <2> QED
    BY <1>3, <2>1
<1> QED
  BY <1>4, <1>5, <1>6, <1>7 DEF Next

(* Only completion and failure, which worker handlers ask for, close an    *)
(* attempt as completed or failed.                                         *)
Silent ==
    \A t \in DOMAIN attempts \cap DOMAIN attempts' :
        \/ attempts'[t].outcome = attempts[t].outcome
        \/ attempts'[t].outcome \notin {"completed", "failed"}

LEMMA CloseSilent ==
    ASSUME TypeOK, NEW tokens, NEW outcome \in {"expired", "cancelled"},
           attempts' = Close(tokens, outcome)
    PROVE  Silent
<1>1. outcome \in {"completed", "failed", "expired", "cancelled"}
  OBVIOUS
<1>2. attempts \in [DOMAIN attempts -> AttemptRow]
  BY DEF TypeOK
<1>3. \A t \in DOMAIN attempts : attempts'[t] = attempts[t] \/ attempts'[t].outcome = outcome
  BY <1>1, <1>2, CloseType
<1> QED
  BY <1>3 DEF Silent

LEMMA OtherStepsSilent ==
    ASSUME TypeOK,
           \/ Produce \/ Administer \/ Tick \/ UNCHANGED vars
           \/ \E names, limit : ClaimBatch(names, limit)
           \/ \E limit : recover_expired(limit)
           \/ \E r, t, at : renew_lease(r, t, at)
    PROVE  Silent
<1>1. ASSUME \A t \in DOMAIN attempts \cap DOMAIN attempts' : attempts'[t] = attempts[t]
      PROVE  Silent
  BY <1>1 DEF Silent
<1>2. CASE Produce \/ Tick \/ UNCHANGED vars
  <2>1. attempts' = attempts
    BY <1>2 DEF Produce, EnqueueInsert, EnqueueDuplicate, ProducerCommit, RollbackInsert,
                RollbackDuplicate, Tick, vars
  <2> QED
    BY <1>1, <2>1
<1>3. CASE \E names, limit : ClaimBatch(names, limit)
  BY <1>1, <1>3, ClaimLedger
<1>4. CASE \E limit : recover_expired(limit)
  <2>1. \E tokens : attempts' = Close(tokens, "expired")
    BY <1>4 DEF recover_expired
  <2> QED
    BY <2>1, CloseSilent
<1>5. CASE \E r, t, at : renew_lease(r, t, at)
  <2>1. PICK t, expires : t \in DOMAIN attempts
                          /\ attempts' = [attempts EXCEPT ![t].lease_expires_at = expires]
    BY <1>5 DEF renew_lease, HasOpenAttempt, RenewedAttempt
  <2>2. ASSUME NEW u \in DOMAIN attempts
        PROVE  attempts'[u].outcome = attempts[u].outcome
    <3>1. attempts[u] \in AttemptRow
      BY DEF TypeOK
    <3>2. \/ attempts'[u] = attempts[u]
          \/ attempts'[u] = [attempts[u] EXCEPT !.lease_expires_at = expires]
      BY <2>1
    <3> QED
      BY <3>1, <3>2 DEF AttemptRow
  <2> QED
    BY <2>1, <2>2 DEF Silent
<1>6. CASE Administer
  <2>1. CASE \E r \in Cancellable : CancelLock(r)
    <3>1. \E tokens : attempts' = Close(tokens, "cancelled")
      BY <2>1 DEF CancelLock
    <3> QED
      BY <3>1, CloseSilent
  <2>2. CASE \E r \in Cancellable :
                CancelStart(r) \/ CancelMiss(r) \/ CancelProbe(r) \/ CancelError(r)
    <3>1. attempts' = attempts
      BY <2>2 DEF CancelStart, CancelMiss, CancelProbe, CancelError
    <3> QED
      BY <1>1, <3>1
  <2>3. CASE \E before \in 1 .. MaxTime + 1, limit \in Limits : prune_terminal(before, limit)
    <3>1. \E doomed : attempts' = [t \in {u \in DOMAIN attempts :
                                            attempts[u].run_id \notin doomed} |-> attempts[t]]
      BY <2>3 DEF prune_terminal
    <3> QED
      BY <1>1, <3>1
  <2> QED
    BY <1>6, <2>1, <2>2, <2>3 DEF Administer
<1> QED
  BY <1>2, <1>3, <1>4, <1>5, <1>6

-----------------------------------------------------------------------------
(* Every step of the runtime is a step of the store                        *)

(* A renewal or a result that is written is a write of a worker with the   *)
(* clock that it could have read: now, or, after it waited for a producer, *)
(* an instant since the producer locked the row.                           *)
LEMMA WrittenIsDirectOrDelayed ==
    ASSUME TypeOK, TxClock, NEW r \in RunIds, NEW t \in issued, NEW at \in ReadClock(r),
           WorkerWrite(r, t, at), Locking(r)
    PROVE  Next
<1>0. tx \in [RunIds -> TxState] /\ r \in Committed
  BY DEF TypeOK, WorkerWrite, finalize_run, fail_run, renew_lease, Owns
<1>1. CASE tx[r].kind = "duplicate"
  <2>1. at \in tx[r].since .. now /\ tx' = [tx EXCEPT ![r] = NoTx]
    BY <1>1 DEF ReadClock, Locking
  <2>2. DelayedWrite(r, t)
    BY <1>1, <2>1 DEF DelayedWrite
  <2> QED
    BY <2>2 DEF Next, Work
<1>2. CASE tx[r].kind # "duplicate"
  <2>1. at = now
    BY <1>2 DEF ReadClock
  <2>2. tx[r].kind = "none" /\ tx[r] = NoTx
    BY <1>0, <1>2 DEF Committed, TxState, TxClock
  <2>3. tx' = tx
    BY <1>0, <2>2 DEF Locking
  <2>4. DirectWrite(r, t)
    BY <2>1, <2>2, <2>3 DEF DirectWrite, Unlocked
  <2> QED
    BY <2>4 DEF Next, Work
<1> QED
  BY <1>1, <1>2

LEMMA RenewComposes ==
    ASSUME CompositionInv, NEW t \in DOMAIN handlers, Renew(t)
    PROVE  Next
<1>1. handlers[t].run \in RunIds /\ t \in issued /\ TypeOK /\ TxClock
  BY DEF CompositionInv, RuntimeTypeOK, HandlerState
<1>2. \E at \in ReadClock(handlers[t].run) : WorkerWrite(handlers[t].run, t, at)
  BY DEF Renew, WorkerWrite
<1>3. Locking(handlers[t].run)
  BY DEF Renew
<1> QED
  BY <1>1, <1>2, <1>3, WrittenIsDirectOrDelayed

LEMMA RecordComposes ==
    ASSUME CompositionInv, NEW t \in DOMAIN handlers, Record(t)
    PROVE  Next
<1>1. handlers[t].run \in RunIds /\ t \in issued /\ TypeOK /\ TxClock
  BY DEF CompositionInv, RuntimeTypeOK, HandlerState
<1>2. PICK at \in ReadClock(handlers[t].run) :
        IF handlers[t].write = "ok" THEN finalize_run(handlers[t].run, t, "completed", at)
        ELSE fail_run(handlers[t].run, t, handlers[t].write = "retry", at)
  BY DEF Record
<1>3. (handlers[t].write = "retry") \in BOOLEAN
  OBVIOUS
<1>4. WorkerWrite(handlers[t].run, t, at)
  BY <1>2, <1>3 DEF WorkerWrite
<1>5. Locking(handlers[t].run)
  BY DEF Record
<1> QED
  BY <1>1, <1>4, <1>5, WrittenIsDirectOrDelayed

LEMMA ClaimComposes ==
    ASSUME CompositionInv, NEW w \in Workers, loop[w].phase = "claiming",
           ClaimBatch(Registered[w], loop[w].limit)
    PROVE  Next
<1>1. loop[w] \in LoopState /\ loop[w].limit > 0
  BY DEF CompositionInv, RuntimeTypeOK, LoopPhases
<1>2. loop[w].limit \in 1 .. MaxConcurrency
  BY <1>1, RuntimeAssumption DEF LoopState
<1>3. loop[w].limit \in Limits /\ Registered[w] \in NameSets
  BY <1>2, RuntimeAssumption
<1> QED
  BY <1>3 DEF Next, Work

LEMMA StepComposes == CompositionInv /\ [RuntimeNext]_runtimeVars => [Next]_vars
<1> SUFFICES ASSUME CompositionInv, [RuntimeNext]_runtimeVars PROVE [Next]_vars
  OBVIOUS
<1>1. ASSUME NEW w \in Workers, LoopStep(w) \/ Shutdown(w) \/ Crash(w)
      PROVE  [Next]_vars
  <2>1. CASE Recover(w)
    BY <2>1 DEF Recover, Next, Work
  <2>2. CASE ClaimAndDispatch(w) \/ ClaimLost(w)
    BY <2>2, ClaimComposes DEF ClaimAndDispatch, ClaimLost
  <2>3. CASE \/ Poll(w) \/ Joined(w) \/ RecoverNothing(w) \/ AfterRecovery(w) \/ TickFails(w)
             \/ ClaimNothing(w) \/ ClaimFails(w) \/ Stop(w) \/ Shutdown(w) \/ Crash(w)
    BY <2>3 DEF Poll, Joined, RecoverNothing, AfterRecovery, TickFails, ClaimNothing,
                ClaimFails, Stop, Shutdown, Crash
  <2> QED
    BY <1>1, <2>1, <2>2, <2>3 DEF LoopStep
<1>2. ASSUME NEW t \in DOMAIN handlers,
             DispatchStep(t) \/ HandlerStep(t) \/ SentExecuted(t) \/ SentLost(t)
      PROVE  [Next]_vars
  <2>1. CASE Renewed(t) \/ RenewalLost(t)
    BY <2>1, RenewComposes DEF Renewed, RenewalLost
  <2>2. CASE Finalize(t)
    BY <2>2, RecordComposes DEF Finalize
  <2>3. CASE SentExecuted(t)
    BY <2>3, RenewComposes, RecordComposes DEF SentExecuted
  <2>4. CASE \/ Heartbeat(t) \/ RenewalFenced(t) \/ RenewalFails(t) \/ FinalizeFenced(t)
             \/ FinalizeFails(t) \/ HandlerStep(t) \/ SentLost(t)
    BY <2>4 DEF Heartbeat, RenewalFenced, RenewalFails, FinalizeFenced, FinalizeFails,
                HandlerStep, HandlerReturns, HandlerPanics, SentLost
  <2> QED
    BY <1>2, <2>1, <2>2, <2>3, <2>4 DEF DispatchStep
<1>3. CASE Others \/ RuntimeTick
  BY <1>3 DEF Others, RuntimeTick, Next
<1>4. CASE UNCHANGED runtimeVars
  BY <1>4 DEF runtimeVars
<1> QED
  BY <1>1, <1>2, <1>3, <1>4 DEF RuntimeNext

-----------------------------------------------------------------------------
(* What a step does to the loops                                           *)

(* A loop that starts to claim does so with the permits it has, and one    *)
(* that becomes Stopped has no handler left.                               *)
LoopFits ==
    /\ loop' \in [Workers -> LoopState]
    /\ LoopPhases'
    /\ \A w \in Workers :
         /\ loop'[w].last_error # "capacity"
         /\ loop'[w].phase = "claiming" => \/ loop'[w] = loop[w]
                                           \/ loop'[w].limit = available_permits(w)
         /\ loop'[w].status = "Stopped" => \/ loop[w].status = "Stopped"
                                           \/ HandlersOf(w)' = {}

(* Handlers that hold permits are finitely many. *)
LEMMA PermitCount ==
    ASSUME RuntimeInv, NEW w \in Workers
    PROVE  /\ IsFiniteSet(HandlersOf(w))
           /\ Cardinality(HandlersOf(w)) \in Nat
           /\ available_permits(w) \in 0 .. MaxConcurrency
<1>1. HandlersOf(w) \in SUBSET DOMAIN handlers
  BY DEF HandlersOf
<1>2. IsFiniteSet(HandlersOf(w))
  BY <1>1, FS_Subset DEF RuntimeInv, FiniteWork
<1>3. Cardinality(HandlersOf(w)) \in Nat
  BY <1>2, FS_CardinalityType
<1>4. Cardinality(HandlersOf(w)) <= MaxConcurrency /\ MaxConcurrency \in Nat
  BY RuntimeAssumption DEF RuntimeInv, Capacity
<1> QED
  BY <1>2, <1>3, <1>4 DEF available_permits

LEMMA LoopKept ==
    ASSUME RuntimeInv, UNCHANGED loop
    PROVE  LoopFits
BY DEF RuntimeInv, CompositionInv, RuntimeTypeOK, LoopPhases, Capacity, LoopFits

LEMMA LoopRow ==
    ASSUME RuntimeInv, NEW w \in Workers, NEW row \in LoopState,
           loop' = [loop EXCEPT ![w] = row],
           row.last_error # "capacity",
           row.phase = "claiming" => row.limit > 0 /\ row.limit = available_permits(w),
           row.status = "Stopped" => row.phase = "stopped" /\ HandlersOf(w)' = {}
    PROVE  LoopFits
<1>0. loop \in [Workers -> LoopState]
  BY DEF RuntimeInv, CompositionInv, RuntimeTypeOK
<1>1. loop' \in [Workers -> LoopState] /\ loop'[w] = row
      /\ \A x \in Workers \ {w} : loop'[x] = loop[x]
  BY <1>0
<1>2. LoopPhases'
  BY <1>1 DEF RuntimeInv, CompositionInv, LoopPhases
<1>3. \A x \in Workers : loop[x].last_error # "capacity"
  BY DEF RuntimeInv, Capacity
<1> QED
  BY <1>1, <1>2, <1>3 DEF LoopFits

LEMMA HealthyFits ==
    ASSUME RuntimeInv, NEW w \in Workers, Healthy(w)
    PROVE  LoopFits
<1> DEFINE row == [phase |-> "select", limit |-> 0, status |-> "Healthy", failures |-> 0,
                   last_error |-> "none"]
<1>1. loop' = [loop EXCEPT ![w] = row]
  BY DEF Healthy
<1>2. 0 \in 0 .. MaxConcurrency /\ 0 \in 0 .. MaxFailures
  BY RuntimeAssumption
<1>3. row \in LoopState
  BY <1>2 DEF LoopState
<1> QED
  BY <1>1, <1>3, LoopRow

LEMMA DegradedFits ==
    ASSUME RuntimeInv, NEW w \in Workers, Degraded(w, "database")
    PROVE  LoopFits
<1> DEFINE count == saturating_add(loop[w].failures)
<1> DEFINE row == [phase |-> "select", limit |-> 0, status |-> "Degraded", failures |-> count,
                   last_error |-> "database"]
<1>0. loop \in [Workers -> LoopState] /\ MaxConcurrency \in Nat /\ MaxFailures \in Nat
  BY RuntimeAssumption DEF RuntimeInv, CompositionInv, RuntimeTypeOK
<1>1. loop' = [loop EXCEPT ![w] = row]
  BY DEF Degraded
<1>2. loop[w].failures \in 0 .. MaxFailures
  BY <1>0 DEF LoopState
<1>3. count \in 0 .. MaxFailures /\ 0 \in 0 .. MaxConcurrency
  BY <1>0, <1>2 DEF saturating_add
<1>4. row \in LoopState
  BY <1>3 DEF LoopState
<1> HIDE DEF count
<1> QED
  BY <1>1, <1>4, LoopRow

(* A loop that is not stopped goes to another phase than claiming. *)
LEMMA PhaseFits ==
    ASSUME RuntimeInv, NEW w \in Workers, NEW phase \in {"recovered", "draining", "dead"},
           loop[w].phase # "stopped",
           loop' = [loop EXCEPT ![w].phase = phase]
    PROVE  LoopFits
<1> DEFINE row == [loop[w] EXCEPT !.phase = phase]
<1>0. loop \in [Workers -> LoopState] /\ loop[w].status # "Stopped"
      /\ loop[w].last_error # "capacity"
  BY DEF RuntimeInv, CompositionInv, RuntimeTypeOK, LoopPhases, Capacity
<1>1. loop' = [loop EXCEPT ![w] = row]
  OBVIOUS
<1>2. row \in LoopState /\ row.phase = phase /\ row.status = loop[w].status
      /\ row.last_error = loop[w].last_error
  BY <1>0 DEF LoopState
<1> HIDE DEF row
<1> QED
  BY <1>0, <1>1, <1>2, LoopRow

LEMMA ReadPermitsFits ==
    ASSUME RuntimeInv, NEW w \in Workers, loop[w].phase \in {"select", "recovered"},
           ReadPermits(w)
    PROVE  LoopFits
<1> DEFINE limit == available_permits(w)
<1> DEFINE row == [loop[w] EXCEPT !.phase = "claiming", !.limit = limit]
<1>1. CASE limit = 0
  BY <1>1, HealthyFits DEF ReadPermits
<1>2. CASE limit # 0
  <2>0. loop \in [Workers -> LoopState] /\ loop[w].status # "Stopped"
        /\ loop[w].last_error # "capacity"
    BY DEF RuntimeInv, CompositionInv, RuntimeTypeOK, LoopPhases, Capacity
  <2>1. limit \in 0 .. MaxConcurrency /\ MaxConcurrency \in Nat
    BY PermitCount, RuntimeAssumption
  <2>2. loop' = [loop EXCEPT ![w].phase = "claiming", ![w].limit = limit]
    BY <1>2 DEF ReadPermits
  <2>3. limit > 0
    BY <1>2, <2>1
  <2> HIDE DEF limit
  <2>4. loop' = [loop EXCEPT ![w] = row]
    BY <2>0, <2>2
  <2>5. row \in LoopState /\ row.limit = limit /\ row.status = loop[w].status
        /\ row.last_error = loop[w].last_error
    BY <2>0, <2>1 DEF LoopState
  <2> HIDE DEF row
  <2> QED
    BY <2>0, <2>3, <2>4, <2>5, LoopRow DEF limit
<1> QED
  BY <1>1, <1>2

LEMMA StoppedFits ==
    ASSUME RuntimeInv, NEW w \in Workers, HandlersOf(w)' = {},
           loop' = [loop EXCEPT ![w].phase = "stopped", ![w].status = "Stopped",
                                ![w].last_error = "none"]
    PROVE  LoopFits
<1> DEFINE row == [loop[w] EXCEPT !.phase = "stopped", !.status = "Stopped",
                                  !.last_error = "none"]
<1>0. loop \in [Workers -> LoopState]
  BY DEF RuntimeInv, CompositionInv, RuntimeTypeOK
<1>1. loop' = [loop EXCEPT ![w] = row]
  BY <1>0
<1>2. row \in LoopState /\ row.phase = "stopped" /\ row.status = "Stopped"
      /\ row.last_error = "none"
  BY <1>0 DEF LoopState
<1> HIDE DEF row
<1> QED
  BY <1>1, <1>2, LoopRow

-----------------------------------------------------------------------------
(* What a step does to the handlers and to the results                     *)

(* The clauses of RuntimeTypeOK and WritesEarned about one handler. *)
Phased(h) ==
    /\ h.phase = "running" <=> h.write = "none"
    /\ h.phase = "renewing" => h.write = "renew"
    /\ h.phase = "finishing" => h.write \in Results
Earned(h) == IF h.write \in Results THEN h.write ELSE "none"

(* An attempt is closed as completed or failed with what its handler has   *)
(* returned, and then the handler is gone.                                 *)
OutcomesFit ==
    \A t \in DOMAIN attempts \cap DOMAIN attempts' :
        \/ attempts'[t].outcome = attempts[t].outcome
        \/ attempts'[t].outcome \notin {"completed", "failed"}
        \/ /\ t \notin DOMAIN handlers'
           /\ \/ attempts'[t].outcome = "completed" /\ returned'[t] = "ok"
              \/ attempts'[t].outcome = "failed" /\ returned'[t] \in {"retry", "permanent"}

(* What is left of a handler: the same work, and a deadline that is on     *)
(* record.                                                                 *)
HandlerFits(t) ==
    /\ handlers'[t] \in HandlerState
    /\ handlers'[t].worker = handlers[t].worker
    /\ handlers'[t].run = handlers[t].run
    /\ handlers[t].phase = "sent" => handlers'[t].phase = "sent"
    /\ Phased(handlers'[t])
    /\ returned'[t] = Earned(handlers'[t])
    /\ \/ handlers'[t].deadline = handlers[t].deadline
       \/ t \in DOMAIN attempts' /\ handlers'[t].deadline <= attempts'[t].lease_expires_at

(* Every step but a claim that dispatches only takes handlers away or lets *)
(* them go on.                                                             *)
Shrinking ==
    /\ handlers' = [t \in DOMAIN handlers' |-> handlers'[t]]
    /\ DOMAIN handlers' \subseteq DOMAIN handlers
    /\ \A t \in DOMAIN handlers' : HandlerFits(t)
    /\ returned' \in [Tokens -> Results \cup {"none"}]
    /\ \A t \in Tokens : \/ returned'[t] = returned[t]
                         \/ t \in DOMAIN handlers /\ returned[t] = "none"
    /\ OutcomesFit

LEMMA HandlerFacts ==
    ASSUME RuntimeInv
    PROVE  /\ handlers \in [DOMAIN handlers -> HandlerState]
           /\ DOMAIN handlers \subseteq issued /\ issued \subseteq Tokens
           /\ returned \in [Tokens -> Results \cup {"none"}]
           /\ \A t \in DOMAIN handlers :
                Phased(handlers[t]) /\ returned[t] = Earned(handlers[t])
BY DEF RuntimeInv, CompositionInv, RuntimeTypeOK, TypeOK, WritesEarned, Phased, Earned

LEMMA HandlerKept ==
    ASSUME RuntimeInv, NEW t \in DOMAIN handlers, handlers'[t] = handlers[t],
           returned'[t] = returned[t]
    PROVE  HandlerFits(t)
BY HandlerFacts DEF HandlerFits

LEMMA SilentFits ==
    ASSUME Silent
    PROVE  OutcomesFit
BY DEF Silent, OutcomesFit

(* Handlers are left alone, or dropped as a whole. *)
LEMMA ShrinkKept ==
    ASSUME RuntimeInv, UNCHANGED <<handlers, returned>>, Silent
    PROVE  Shrinking
<1>1. \A t \in DOMAIN handlers' : HandlerFits(t)
  BY HandlerKept
<1> QED
  BY <1>1, HandlerFacts, SilentFits DEF Shrinking

LEMMA ShrinkWithout ==
    ASSUME RuntimeInv, NEW t \in DOMAIN handlers, handlers' = Without({t}),
           UNCHANGED returned, OutcomesFit
    PROVE  Shrinking
<1>1. handlers' = [u \in DOMAIN handlers' |-> handlers'[u]]
      /\ DOMAIN handlers' \subseteq DOMAIN handlers
  BY DEF Without
<1>2. \A u \in DOMAIN handlers' : handlers'[u] = handlers[u]
  BY DEF Without
<1>3. \A u \in DOMAIN handlers' : HandlerFits(u)
  BY <1>1, <1>2, HandlerKept
<1>4. returned' \in [Tokens -> Results \cup {"none"}] /\ returned' = returned
  BY HandlerFacts
<1> QED
  BY <1>1, <1>3, <1>4 DEF Shrinking

(* One handler goes on. *)
LEMMA ShrinkOne ==
    ASSUME RuntimeInv, NEW t \in DOMAIN handlers, NEW h,
           handlers' = [handlers EXCEPT ![t] = h], HandlerFits(t),
           returned' \in [Tokens -> Results \cup {"none"}],
           \A u \in Tokens \ {t} : returned'[u] = returned[u],
           returned'[t] = returned[t] \/ returned[t] = "none",
           OutcomesFit
    PROVE  Shrinking
<1>1. /\ DOMAIN handlers' = DOMAIN handlers
      /\ \A u \in DOMAIN handlers' \ {t} : handlers'[u] = handlers[u]
      /\ handlers' = [u \in DOMAIN handlers' |-> handlers'[u]]
  BY HandlerFacts
<1>2. \A u \in DOMAIN handlers' \ {t} : HandlerFits(u)
  BY <1>1, HandlerKept, HandlerFacts
<1> QED
  BY <1>1, <1>2, HandlerFacts DEF Shrinking

(* Handlers are dropped where they stand. *)
LEMMA ShrinkDropped ==
    ASSUME RuntimeInv, NEW S \in SUBSET DOMAIN handlers, handlers' = Dropped(S),
           UNCHANGED <<vars, returned>>
    PROVE  Shrinking /\ \A t \in S \cap DOMAIN handlers' : handlers'[t].phase = "sent"
<1>1. /\ handlers' = [t \in DOMAIN handlers' |-> handlers'[t]]
      /\ DOMAIN handlers' = DOMAIN handlers \ {t \in S : handlers[t].phase = "running"}
      /\ \A t \in DOMAIN handlers' \ S : handlers'[t] = handlers[t]
      /\ \A t \in DOMAIN handlers' \cap S : handlers'[t] = [handlers[t] EXCEPT !.phase = "sent"]
  BY DEF Dropped
<1>2. ASSUME NEW t \in DOMAIN handlers' \cap S
      PROVE  HandlerFits(t) /\ handlers'[t].phase = "sent"
  <2>1. /\ handlers[t] \in HandlerState /\ handlers[t].phase # "running"
        /\ Phased(handlers[t]) /\ returned[t] = Earned(handlers[t])
    BY <1>1, <1>2, HandlerFacts
  <2>2. /\ handlers'[t] \in HandlerState /\ handlers'[t].phase = "sent"
        /\ handlers'[t].worker = handlers[t].worker /\ handlers'[t].run = handlers[t].run
        /\ handlers'[t].write = handlers[t].write
        /\ handlers'[t].deadline = handlers[t].deadline
    BY <1>1, <1>2, <2>1 DEF HandlerState
  <2> QED
    BY <2>1, <2>2 DEF HandlerFits, Phased, Earned
<1>3. \A t \in DOMAIN handlers' : HandlerFits(t)
  BY <1>1, <1>2, HandlerKept
<1>4. Silent
  BY DEF Silent, vars
<1> QED
  BY <1>1, <1>2, <1>3, <1>4, HandlerFacts, SilentFits DEF Shrinking

-----------------------------------------------------------------------------
(* The steps of the runtime, one by one                                    *)

Fits ==
    LoopFits /\ Shrinking /\ ended' \subseteq Workers /\ faults' \in 0 .. MaxFaults

LEMMA CountFacts ==
    ASSUME RuntimeInv
    PROVE  /\ faults \in 0 .. MaxFaults /\ (Fault => faults' \in 0 .. MaxFaults)
           /\ ended \subseteq Workers
           /\ \A w : JoinEnded(w) => ended' \subseteq Workers
           /\ \A t \in DOMAIN handlers :
                handlers[t].worker \in Workers /\ (Ends(t) => ended' \subseteq Workers)
<1>1. faults \in 0 .. MaxFaults /\ ended \subseteq Workers /\ MaxFaults \in Nat
  BY RuntimeAssumption DEF RuntimeInv, CompositionInv, RuntimeTypeOK
<1>2. Fault => faults' \in 0 .. MaxFaults
  BY <1>1 DEF Fault
<1>3. \A t \in DOMAIN handlers : handlers[t].worker \in Workers
  BY HandlerFacts DEF HandlerState
<1> QED
  BY <1>1, <1>2, <1>3 DEF JoinEnded, Ends

(* Steps that leave the handlers alone. *)
LEMMA LoopStepFits ==
    ASSUME RuntimeInv, NEW w \in Workers,
           \/ Poll(w) \/ Joined(w) \/ Recover(w) \/ RecoverNothing(w) \/ AfterRecovery(w)
           \/ TickFails(w) \/ ClaimNothing(w) \/ ClaimFails(w) \/ ClaimLost(w) \/ Shutdown(w)
    PROVE  Fits
<1>0. TypeOK
  BY DEF RuntimeInv, CompositionInv, StoreInv
<1>1. Silent
  <2>1. CASE Recover(w)
    BY <1>0, <2>1, OtherStepsSilent DEF Recover
  <2>2. CASE ClaimLost(w)
    BY <1>0, <2>2, OtherStepsSilent DEF ClaimLost
  <2>3. CASE ~(Recover(w) \/ ClaimLost(w))
    <3>1. UNCHANGED vars
      BY <2>3 DEF Poll, Joined, RecoverNothing, AfterRecovery, TickFails, ClaimNothing,
                  ClaimFails, Shutdown
    <3> QED
      BY <1>0, <3>1, OtherStepsSilent
  <2> QED
    BY <2>1, <2>2, <2>3
<1>2. UNCHANGED <<handlers, returned>>
  BY DEF Poll, Joined, Recover, RecoverNothing, AfterRecovery, TickFails, ClaimNothing,
         ClaimFails, ClaimLost, Shutdown
<1>3. ended' \subseteq Workers
  BY CountFacts DEF Poll, Joined, Recover, RecoverNothing, AfterRecovery, TickFails,
         ClaimNothing, ClaimFails, ClaimLost, Shutdown
<1>4. faults' \in 0 .. MaxFaults
  BY CountFacts DEF Poll, Joined, Recover, RecoverNothing, AfterRecovery, TickFails,
         ClaimNothing, ClaimFails, ClaimLost, Shutdown
<1>5. LoopFits
  <2>1. CASE Poll(w) \/ Joined(w) \/ AfterRecovery(w)
    BY <2>1, ReadPermitsFits, DegradedFits DEF Poll, Joined, AfterRecovery
  <2>2. CASE Recover(w) \/ RecoverNothing(w) \/ Shutdown(w)
    BY <2>2, PhaseFits DEF Recover, RecoverNothing, Shutdown
  <2>3. CASE TickFails(w) \/ ClaimFails(w) \/ ClaimLost(w)
    BY <2>3, DegradedFits DEF TickFails, ClaimFails, ClaimLost
  <2>4. CASE ClaimNothing(w)
    BY <2>4, HealthyFits DEF ClaimNothing
  <2> QED
    BY <2>1, <2>2, <2>3, <2>4
<1> QED
  BY <1>1, <1>2, <1>3, <1>4, <1>5, ShrinkKept DEF Fits

(* The end of an instance drops its handlers and nobody else's. *)
LEMMA EndFits ==
    ASSUME RuntimeInv, NEW w \in Workers, Stop(w) \/ Crash(w)
    PROVE  Fits
<1>0. HandlersOf(w) \in SUBSET DOMAIN handlers
  BY DEF HandlersOf
<1>1. handlers' = Dropped(HandlersOf(w)) /\ UNCHANGED <<vars, returned>>
  BY DEF Stop, Crash
<1>2. Shrinking /\ \A t \in HandlersOf(w) \cap DOMAIN handlers' : handlers'[t].phase = "sent"
  BY <1>0, <1>1, ShrinkDropped
<1>3. HandlersOf(w)' = {}
  <2> SUFFICES ASSUME NEW t \in DOMAIN handlers', handlers'[t].worker = w,
                      handlers'[t].phase # "sent"
               PROVE  FALSE
    BY DEF HandlersOf
  <2>1. t \in DOMAIN handlers /\ HandlerFits(t)
    BY <1>2 DEF Shrinking
  <2>2. t \in HandlersOf(w)
    BY <2>1 DEF HandlerFits, HandlersOf
  <2> QED
    BY <1>2, <2>2
<1>4. LoopFits
  <2>1. CASE Stop(w)
    BY <1>3, <2>1, StoppedFits DEF Stop
  <2>2. CASE Crash(w)
    BY <2>2, PhaseFits DEF Crash
  <2> QED
    BY <2>1, <2>2
<1>5. ended' \subseteq Workers /\ faults' \in 0 .. MaxFaults
  BY CountFacts DEF Stop, Crash
<1> QED
  BY <1>2, <1>4, <1>5 DEF Fits

(* What a renewal leaves: the stored deadline is that of the attempt. *)
LEMMA RenewFacts ==
    ASSUME RuntimeInv, NEW t \in DOMAIN handlers, Renew(t)
    PROVE  /\ Silent
           /\ t \in DOMAIN attempts'
           /\ RenewedDeadline(t) \in Nat
           /\ RenewedDeadline(t) = attempts'[t].lease_expires_at
<1>0. TypeOK /\ now \in Nat /\ tx \in [RunIds -> TxState] /\ handlers[t].run \in RunIds
  BY HandlerFacts DEF RuntimeInv, CompositionInv, StoreInv, TypeOK, HandlerState
<1> DEFINE r == handlers[t].run
<1>1. PICK at \in ReadClock(r) : renew_lease(r, t, at)
  BY DEF Renew
<1>2. Silent
  BY <1>0, <1>1, OtherStepsSilent
<1>3. tx[r].since \in Nat
  BY <1>0 DEF TxState
<1>4. at \in Nat
  BY <1>0, <1>1, <1>3 DEF ReadClock
<1>5. /\ r \in DOMAIN runs /\ t \in DOMAIN attempts
      /\ runs' = [runs EXCEPT ![r].lease_expires_at = at + runs[r].options.lease_duration]
      /\ attempts' = [attempts EXCEPT ![t].lease_expires_at =
                                          at + runs[r].options.lease_duration]
  BY <1>1 DEF renew_lease, Owns, Committed, HasOpenAttempt, RenewedAttempt
<1>6. runs[r] \in RunRow /\ runs[r].options \in Options /\ attempts[t] \in AttemptRow
  BY <1>0, <1>5 DEF TypeOK, RunRow
<1>7. at + runs[r].options.lease_duration \in Nat
  BY <1>4, <1>6, OptionFacts
<1>8. /\ runs'[r].lease_expires_at = at + runs[r].options.lease_duration
      /\ attempts'[t].lease_expires_at = at + runs[r].options.lease_duration
      /\ t \in DOMAIN attempts'
  BY <1>5, <1>6 DEF RunRow, AttemptRow
<1> QED
  BY <1>2, <1>7, <1>8 DEF RenewedDeadline

(* After the heartbeat the handler gives up, or is polled on with a        *)
(* deadline that is on record.                                             *)
LEMMA GoOnFits ==
    ASSUME RuntimeInv, NEW t \in DOMAIN handlers, handlers[t].phase = "renewing",
           NEW d \in Nat,
           \/ d = handlers[t].deadline
           \/ t \in DOMAIN attempts' /\ d <= attempts'[t].lease_expires_at,
           GoOn(t, d), UNCHANGED returned, Silent
    PROVE  Shrinking /\ ended' \subseteq Workers
<1>1. CASE Leave(t)
  BY <1>1, ShrinkWithout, SilentFits, CountFacts DEF Leave
<1>2. CASE ~Leave(t)
  <2> DEFINE h == [handlers[t] EXCEPT !.phase = "running", !.write = "none", !.deadline = d]
  <2>1. handlers' = [handlers EXCEPT ![t] = h] /\ ended' = ended
    BY <1>2 DEF GoOn
  <2>2. /\ handlers[t] \in HandlerState /\ Phased(handlers[t])
        /\ returned[t] = Earned(handlers[t])
    BY HandlerFacts
  <2>3. /\ h \in HandlerState /\ h.phase = "running" /\ h.write = "none" /\ h.deadline = d
        /\ h.worker = handlers[t].worker /\ h.run = handlers[t].run
    BY <2>2 DEF HandlerState
  <2>4. handlers'[t] = h
    BY <2>1
  <2> HIDE DEF h
  <2>5. returned'[t] = "none"
    BY <2>2 DEF Phased, Earned, Results
  <2>6. HandlerFits(t)
    BY <2>3, <2>4, <2>5 DEF HandlerFits, Phased, Earned, Results
  <2>7. Shrinking
    BY <2>1, <2>6, ShrinkOne, SilentFits, HandlerFacts
  <2> QED
    BY <2>1, <2>7, CountFacts
<1> QED
  BY <1>1, <1>2

(* A result that is written closes the attempt with what was returned. *)
LEMMA RecordFits ==
    ASSUME RuntimeInv, NEW t \in DOMAIN handlers, handlers[t].write \in Results,
           Record(t), handlers' = Without({t}), UNCHANGED returned
    PROVE  Shrinking
<1>0. attempts \in [DOMAIN attempts -> AttemptRow]
  BY DEF RuntimeInv, CompositionInv, StoreInv, TypeOK
<1>1. returned'[t] = handlers[t].write /\ t \notin DOMAIN handlers'
  BY HandlerFacts DEF Earned, Without
<1>2. \/ handlers[t].write = "ok" /\ attempts' = Close({t}, "completed")
      \/ handlers[t].write \in {"retry", "permanent"} /\ attempts' = Close({t}, "failed")
  BY DEF Record, finalize_run, fail_run, Results
<1>3. OutcomesFit
  <2>1. ASSUME NEW outcome \in {"completed", "failed"}, attempts' = Close({t}, outcome),
               NEW u \in DOMAIN attempts
        PROVE  attempts'[u] = attempts[u] \/ (u = t /\ attempts'[u].outcome = outcome)
    <3>1. outcome \in {"completed", "failed", "expired", "cancelled"}
      BY <2>1
    <3> QED
      BY <1>0, <2>1, <3>1, CloseType
  <2> QED
    BY <1>1, <1>2, <2>1 DEF OutcomesFit
<1> QED
  BY <1>3, ShrinkWithout

LEMMA DispatchStepFits ==
    ASSUME RuntimeInv, NEW t \in DOMAIN handlers,
           DispatchStep(t) \/ HandlerStep(t) \/ SentExecuted(t) \/ SentLost(t)
    PROVE  Fits
<1>0. TypeOK
  BY DEF RuntimeInv, CompositionInv, StoreInv
<1>1. /\ handlers[t] \in HandlerState /\ Phased(handlers[t])
      /\ returned[t] = Earned(handlers[t]) /\ t \in Tokens
  BY HandlerFacts
<1>2. handlers[t].deadline \in Nat
  BY <1>1 DEF HandlerState
<1>3. LoopFits
  <2>1. UNCHANGED loop
    BY DEF DispatchStep, Heartbeat, Renewed, RenewalFenced, RenewalFails, RenewalLost,
           Finalize, FinalizeFenced, FinalizeFails, HandlerStep, HandlerReturns,
           HandlerPanics, SentExecuted, SentLost
  <2> QED
    BY <2>1, LoopKept
<1>4. faults' \in 0 .. MaxFaults
  BY CountFacts DEF DispatchStep, Heartbeat, Renewed, RenewalFenced, RenewalFails, RenewalLost,
           Finalize, FinalizeFenced, FinalizeFails, HandlerStep, HandlerReturns,
           HandlerPanics, SentExecuted, SentLost
<1>5. UNCHANGED vars => Silent
  BY <1>0, OtherStepsSilent
<1>6. Shrinking /\ ended' \subseteq Workers
  <2>1. CASE Heartbeat(t)
    <3> DEFINE h == [handlers[t] EXCEPT !.phase = "renewing", !.write = "renew"]
    <3>1. handlers[t].phase = "running" /\ handlers' = [handlers EXCEPT ![t] = h]
          /\ UNCHANGED <<vars, ended, returned>>
      BY <1>1, <2>1 DEF Heartbeat
    <3>2. /\ h \in HandlerState /\ h.phase = "renewing" /\ h.write = "renew"
          /\ h.worker = handlers[t].worker /\ h.run = handlers[t].run
          /\ h.deadline = handlers[t].deadline
      BY <1>1 DEF HandlerState
    <3>3. handlers'[t] = h
      BY <3>1
    <3> HIDE DEF h
    <3>4. HandlerFits(t)
      BY <1>1, <3>1, <3>2, <3>3 DEF HandlerFits, Phased, Earned, Results
    <3>5. Shrinking
      BY <1>5, <3>1, <3>4, ShrinkOne, SilentFits, HandlerFacts
    <3> QED
      BY <3>1, <3>5, CountFacts
  <2>2. CASE Renewed(t)
    <3>1. /\ Silent /\ RenewedDeadline(t) \in Nat /\ t \in DOMAIN attempts'
          /\ RenewedDeadline(t) <= attempts'[t].lease_expires_at
      BY <2>2, RenewFacts DEF Renewed
    <3> QED
      BY <2>2, <3>1, GoOnFits DEF Renewed
  <2>3. CASE RenewalFails(t)
    BY <1>2, <1>5, <2>3, GoOnFits DEF RenewalFails
  <2>4. CASE RenewalLost(t)
    BY <1>2, <2>4, RenewFacts, GoOnFits DEF RenewalLost
  <2>5. CASE RenewalFenced(t) \/ FinalizeFenced(t) \/ HandlerPanics(t)
    BY <1>5, <2>5, ShrinkWithout, SilentFits, CountFacts
       DEF RenewalFenced, FinalizeFenced, HandlerPanics, Leave
  <2>6. CASE SentLost(t)
    BY <1>5, <2>6, ShrinkWithout, SilentFits, CountFacts DEF SentLost
  <2>7. CASE Finalize(t)
    BY <1>1, <2>7, RecordFits, CountFacts DEF Finalize, Leave, Phased
  <2>8. CASE FinalizeFails(t)
    BY <2>8, ShrinkDropped, CountFacts DEF FinalizeFails
  <2>9. CASE SentExecuted(t)
    <3>1. handlers' = Without({t}) /\ UNCHANGED <<ended, returned>>
      BY <2>9 DEF SentExecuted
    <3>2. CASE handlers[t].write = "renew"
      BY <2>9, <3>1, <3>2, RenewFacts, ShrinkWithout, SilentFits, CountFacts DEF SentExecuted
    <3>3. CASE handlers[t].write # "renew"
      <4>1. handlers[t].write \in Results
        BY <1>1, <2>9, <3>3 DEF SentExecuted, HandlerState, Phased
      <4> QED
        BY <2>9, <3>1, <3>3, <4>1, RecordFits, CountFacts DEF SentExecuted
    <3> QED
      BY <3>2, <3>3
  <2>10. ASSUME NEW result \in Results, HandlerReturns(t, result)
         PROVE  Shrinking /\ ended' \subseteq Workers
    <3> DEFINE h == [handlers[t] EXCEPT !.phase = "finishing", !.write = result]
    <3>1. /\ handlers[t].phase = "running" /\ handlers' = [handlers EXCEPT ![t] = h]
          /\ returned' = [returned EXCEPT ![t] = result]
          /\ UNCHANGED <<vars, ended>>
      BY <1>1, <2>10 DEF HandlerReturns
    <3>2. /\ h \in HandlerState /\ h.phase = "finishing" /\ h.write = result
          /\ h.worker = handlers[t].worker /\ h.run = handlers[t].run
          /\ h.deadline = handlers[t].deadline
      BY <1>1 DEF HandlerState
    <3>3. handlers'[t] = h
      BY <3>1
    <3>4. /\ returned' \in [Tokens -> Results \cup {"none"}] /\ returned'[t] = result
          /\ \A u \in Tokens \ {t} : returned'[u] = returned[u]
      BY <1>1, <3>1, HandlerFacts
    <3>5. returned[t] = "none"
      BY <1>1, <3>1 DEF Phased, Earned
    <3> HIDE DEF h
    <3>6. HandlerFits(t)
      BY <3>1, <3>2, <3>3, <3>4 DEF HandlerFits, Phased, Earned, Results
    <3>7. Shrinking
      BY <1>5, <3>1, <3>4, <3>5, <3>6, ShrinkOne, SilentFits
    <3> QED
      BY <3>1, <3>7, CountFacts
  <2> QED
    BY <2>1, <2>2, <2>3, <2>4, <2>5, <2>6, <2>7, <2>8, <2>9, <2>10
       DEF DispatchStep, HandlerStep
<1> QED
  BY <1>3, <1>4, <1>6 DEF Fits

LEMMA EnvironmentFits ==
    ASSUME RuntimeInv, Others \/ RuntimeTick \/ UNCHANGED runtimeVars
    PROVE  Fits
<1>0. TypeOK
  BY DEF RuntimeInv, CompositionInv, StoreInv
<1>1. UNCHANGED <<loop, handlers, ended, returned, faults>>
  BY DEF Others, RuntimeTick, runtimeVars
<1>2. Silent
  BY <1>0, OtherStepsSilent DEF Others, RuntimeTick, runtimeVars
<1> QED
  BY <1>1, <1>2, LoopKept, ShrinkKept, CountFacts DEF Fits

-----------------------------------------------------------------------------
(* The invariant                                                           *)

(* There are finitely many tasks: enqueues add them one by one. *)
LEMMA FiniteRuns ==
    ASSUME TypeOK, [Next]_vars, IsFiniteSet(DOMAIN runs)
    PROVE  IsFiniteSet(DOMAIN runs')
<1>1. (\E r : DOMAIN runs' = DOMAIN runs \cup {r}) \/ DOMAIN runs' \in SUBSET DOMAIN runs
  <2>1. CASE Produce
    BY <2>1 DEF Produce, EnqueueInsert, EnqueueDuplicate, ProducerCommit, RollbackInsert,
                RollbackDuplicate
  <2>2. CASE Work
    <3>1. CASE \/ \E names \in NameSets, limit \in Limits : ClaimBatch(names, limit)
               \/ \E limit \in Limits : recover_expired(limit)
      BY <3>1 DEF ClaimBatch, ClaimAmong, Batches, Claim, recover_expired
    <3>2. CASE \E r \in RunIds, t \in issued : DirectWrite(r, t) \/ DelayedWrite(r, t)
      <4>1. PICK r, t, at : WorkerWrite(r, t, at)
        BY <3>2 DEF DirectWrite, DelayedWrite
      <4>2. DOMAIN runs' = DOMAIN runs
        BY <4>1 DEF WorkerWrite, finalize_run, fail_run, renew_lease
      <4> QED
        BY <4>2
    <3> QED
      BY <2>2, <3>1, <3>2 DEF Work
  <2>3. CASE Administer
    BY <2>3 DEF Administer, CancelStart, CancelLock, CancelMiss, CancelProbe, CancelError,
                prune_terminal
  <2>4. CASE Tick \/ UNCHANGED vars
    BY <2>4 DEF Tick, vars
  <2> QED
    BY <2>1, <2>2, <2>3, <2>4 DEF Next
<1> QED
  BY <1>1, FS_AddElement, FS_Subset

(* Under every step but a dispatching claim the permits in use shrink. *)
LEMMA PermitsFreed ==
    ASSUME RuntimeInv, Shrinking, NEW w \in Workers
    PROVE  /\ HandlersOf(w)' \subseteq HandlersOf(w)
           /\ Cardinality(HandlersOf(w)') \in Nat
           /\ Cardinality(HandlersOf(w)') <= Cardinality(HandlersOf(w))
<1>1. HandlersOf(w)' \subseteq HandlersOf(w)
  <2> SUFFICES ASSUME NEW t \in DOMAIN handlers', handlers'[t].worker = w,
                      handlers'[t].phase # "sent"
               PROVE  t \in HandlersOf(w)
    BY DEF HandlersOf
  <2>1. t \in DOMAIN handlers /\ HandlerFits(t)
    BY DEF Shrinking
  <2> QED
    BY <2>1 DEF HandlerFits, HandlersOf
<1>2. IsFiniteSet(HandlersOf(w))
  BY PermitCount
<1> QED
  BY <1>1, <1>2, FS_Subset, FS_CardinalityType

LEMMA FitsInv ==
    ASSUME RuntimeInv, [Next]_vars, Fits
    PROVE  RuntimeInv'
<1>0. StoreInv /\ TxClock /\ LeaseClock /\ TypeOK
  BY DEF RuntimeInv, CompositionInv, StoreInv
<1>1. StoreInv' /\ TxClock' /\ LeaseClock' /\ TypeOK'
  BY <1>0, StoreStep, TxClockStep, LeaseClockStep DEF StoreInv
<1>2. LoopFits /\ Shrinking
  BY DEF Fits
<1>3. DOMAIN handlers' \subseteq DOMAIN handlers /\ DOMAIN handlers \subseteq issued
      /\ issued \subseteq issued'
  BY <1>0, <1>2, HandlerFacts, RowsStep DEF Shrinking
<1>4. RuntimeTypeOK'
  <2>1. handlers' \in [DOMAIN handlers' -> HandlerState]
    BY <1>2 DEF Shrinking, HandlerFits
  <2>2. \A t \in DOMAIN handlers' : Phased(handlers'[t])
    BY <1>2 DEF Shrinking, HandlerFits
  <2>3. returned' \in [Tokens -> Results \cup {"none"}]
    BY <1>2 DEF Shrinking
  <2> QED
    BY <1>1, <1>2, <1>3, <2>1, <2>2, <2>3 DEF RuntimeTypeOK, LoopFits, Phased, Fits
<1>5. LoopPhases'
  BY <1>2 DEF LoopFits
<1>6. FiniteWork'
  BY <1>0, <1>3, FiniteRuns, FS_Subset DEF RuntimeInv, FiniteWork
<1>7. Capacity'
  <2> SUFFICES ASSUME NEW w \in Workers
               PROVE  /\ Cardinality(HandlersOf(w)') <= MaxConcurrency
                      /\ loop'[w].last_error # "capacity"
                      /\ loop'[w].phase = "claiming" =>
                           Cardinality(HandlersOf(w)') + loop'[w].limit <= MaxConcurrency
    BY DEF Capacity
  <2>1. /\ Cardinality(HandlersOf(w)') \in Nat /\ Cardinality(HandlersOf(w)) \in Nat
        /\ Cardinality(HandlersOf(w)') <= Cardinality(HandlersOf(w))
        /\ MaxConcurrency \in Nat
    BY <1>2, PermitsFreed, PermitCount, RuntimeAssumption
  <2>2. Cardinality(HandlersOf(w)) <= MaxConcurrency
        /\ (loop[w].phase = "claiming" =>
              Cardinality(HandlersOf(w)) + loop[w].limit <= MaxConcurrency)
    BY DEF RuntimeInv, Capacity
  <2>3. loop'[w].limit \in Nat
    BY <1>2, <2>1 DEF LoopFits, LoopState
  <2>4. loop'[w].phase = "claiming" =>
          Cardinality(HandlersOf(w)) + loop'[w].limit <= MaxConcurrency
    BY <1>2, <2>1, <2>2 DEF LoopFits, available_permits
  <2> QED
    BY <1>2, <2>1, <2>2, <2>3, <2>4 DEF LoopFits
<1>8. StoppedIsQuiet'
  <2> SUFFICES ASSUME NEW w \in Workers, loop'[w].status = "Stopped"
               PROVE  HandlersOf(w)' = {}
    BY DEF StoppedIsQuiet
  <2>1. HandlersOf(w)' \subseteq HandlersOf(w)
    BY <1>2, PermitsFreed
  <2> QED
    BY <1>2, <2>1 DEF RuntimeInv, StoppedIsQuiet, LoopFits
<1>9. /\ \A t \in DOMAIN attempts \cap DOMAIN attempts' : AttemptKept(t)
      /\ DOMAIN attempts' \ DOMAIN attempts \subseteq issued' \ issued
      /\ \A t \in DOMAIN attempts' \ DOMAIN attempts : attempts'[t].outcome = "open"
  BY <1>0, LedgerStep
<1>10. WritesEarned'
  <2>1. \A t \in DOMAIN handlers' : returned'[t] = Earned(handlers'[t])
    BY <1>2 DEF Shrinking, HandlerFits
  <2>2. ASSUME NEW t \in Tokens \ issued' PROVE returned'[t] = "none"
    <3>1. returned[t] = "none" /\ t \notin DOMAIN handlers
      BY <1>3, <2>2 DEF RuntimeInv, WritesEarned
    <3> QED
      BY <1>2, <3>1 DEF Shrinking
  <2>3. ASSUME NEW t \in DOMAIN handlers' \cap DOMAIN attempts'
        PROVE  /\ attempts'[t].run_id = handlers'[t].run
               /\ attempts'[t].outcome \notin {"completed", "failed"}
    <3>1. t \in DOMAIN handlers \cap DOMAIN attempts
      BY <1>3, <1>9, <2>3
    <3>2. /\ attempts[t].run_id = handlers[t].run
          /\ attempts[t].outcome \notin {"completed", "failed"}
      BY <3>1 DEF RuntimeInv, WritesEarned
    <3>3. attempts'[t].run_id = attempts[t].run_id /\ handlers'[t].run = handlers[t].run
      BY <1>2, <1>9, <2>3, <3>1 DEF AttemptKept, Shrinking, HandlerFits
    <3>4. \/ attempts'[t].outcome = attempts[t].outcome
          \/ attempts'[t].outcome \notin {"completed", "failed"}
      BY <1>2, <2>3, <3>1 DEF Shrinking, OutcomesFit
    <3> QED
      BY <3>2, <3>3, <3>4
  <2> QED
    BY <2>1, <2>2, <2>3 DEF WritesEarned, Earned
<1>11. OutcomeEarned'
  <2> SUFFICES ASSUME NEW t \in DOMAIN attempts'
               PROVE  /\ attempts'[t].outcome = "completed" => returned'[t] = "ok"
                      /\ attempts'[t].outcome = "failed" =>
                           returned'[t] \in {"retry", "permanent"}
    BY DEF OutcomeEarned
  <2>1. CASE t \notin DOMAIN attempts
    BY <1>9, <2>1
  <2>2. CASE t \in DOMAIN attempts
    <3>1. /\ attempts[t].outcome = "completed" => returned[t] = "ok"
          /\ attempts[t].outcome = "failed" => returned[t] \in {"retry", "permanent"}
      BY <2>2 DEF RuntimeInv, OutcomeEarned
    <3>2. returned'[t] = returned[t] \/ returned[t] = "none"
      BY <1>0, <1>2, <2>2 DEF Shrinking, TypeOK
    <3> QED
      BY <1>2, <2>2, <3>1, <3>2 DEF Shrinking, OutcomesFit
  <2> QED
    BY <2>1, <2>2
<1>12. LocalDeadline'
  <2> SUFFICES ASSUME NEW t \in DOMAIN handlers' \cap DOMAIN attempts'
               PROVE  handlers'[t].deadline <= attempts'[t].lease_expires_at
    BY DEF LocalDeadline
  <2>1. t \in DOMAIN handlers \cap DOMAIN attempts
    BY <1>3, <1>9
  <2>2. handlers[t].deadline <= attempts[t].lease_expires_at /\ AttemptKept(t)
    BY <1>9, <2>1 DEF RuntimeInv, LocalDeadline
  <2>3. handlers[t].deadline \in Nat /\ attempts[t].lease_expires_at \in Nat
        /\ attempts'[t].lease_expires_at \in Nat
    BY <1>0, <1>1, <2>1, HandlerFacts DEF HandlerState, TypeOK, AttemptRow
  <2>4. HandlerFits(t)
    BY <1>2 DEF Shrinking
  <2> QED
    BY <2>2, <2>3, <2>4 DEF AttemptKept, HandlerFits
<1> QED
  BY <1>1, <1>4, <1>5, <1>6, <1>7, <1>8, <1>10, <1>11, <1>12 DEF RuntimeInv, CompositionInv

(* A claim issues no more tokens than its limit. *)
LEMMA ClaimedWithinLimit ==
    ASSUME TypeOK, IsFiniteSet(DOMAIN runs), NEW names, NEW limit \in Nat,
           ClaimBatch(names, limit)
    PROVE  /\ IsFiniteSet(issued' \ issued)
           /\ Cardinality(issued' \ issued) \in Nat
           /\ Cardinality(issued' \ issued) <= limit
<1>1. PICK batch \in SUBSET Eligible(names) :
        /\ Cardinality(batch) <= limit
        /\ \E token \in [batch -> FreshTokens], at \in [batch -> ClaimClocks(batch)] :
          Claim(batch, token, at)
  BY DEF ClaimBatch, ClaimAmong, Batches, IsFirst
<1>2. PICK token \in [batch -> FreshTokens], at \in [batch -> ClaimClocks(batch)] :
          Claim(batch, token, at)
  BY <1>1
<1> DEFINE claimed == {token[r] : r \in batch}
<1>3. issued' \ issued = claimed
  BY <1>2 DEF Claim, FreshTokens
<1>4. batch \in SUBSET DOMAIN runs
  BY <1>1 DEF Eligible, Committed
<1>5. IsFiniteSet(batch)
  BY <1>4, FS_Subset
<1>6. Cardinality(batch) \in Nat
  BY <1>5, FS_CardinalityType
<1>7. token \in Surjection(batch, claimed)
  BY <1>2 DEF Surjection
<1>8. IsFiniteSet(claimed) /\ Cardinality(claimed) <= Cardinality(batch)
  BY <1>5, <1>7, FS_Surjection
<1>9. Cardinality(claimed) \in Nat
  BY <1>8, FS_CardinalityType
<1> HIDE DEF claimed
<1> QED
  BY <1>1, <1>3, <1>6, <1>8, <1>9

(* The claimed tasks find their permits: they were counted before the      *)
(* connection was awaited, and only freed since.                           *)
LEMMA DispatchFacts ==
    ASSUME RuntimeInv, NEW w \in Workers, ClaimAndDispatch(w)
    PROVE  /\ Healthy(w)
           /\ handlers' = [t \in DOMAIN handlers \cup (issued' \ issued) |->
                             IF t \in issued' \ issued THEN NewHandler(w, t) ELSE handlers[t]]
           /\ IsFiniteSet(issued' \ issued)
           /\ Cardinality(issued' \ issued) \in Nat
           /\ Cardinality(issued' \ issued) <= available_permits(w)
<1> DEFINE claimed == issued' \ issued
<1>0. /\ TypeOK /\ IsFiniteSet(DOMAIN runs) /\ loop[w].limit \in Nat
      /\ loop[w].phase = "claiming" /\ loop[w].limit <= available_permits(w)
      /\ available_permits(w) \in Nat
  <2>1. TypeOK /\ IsFiniteSet(DOMAIN runs) /\ loop[w] \in LoopState
    BY DEF RuntimeInv, CompositionInv, StoreInv, FiniteWork, RuntimeTypeOK
  <2>2. loop[w].phase = "claiming"
        /\ Cardinality(HandlersOf(w)) + loop[w].limit <= MaxConcurrency
    BY DEF ClaimAndDispatch, RuntimeInv, Capacity
  <2>3. loop[w].limit \in Nat /\ available_permits(w) \in Nat
    BY <2>1, PermitCount, RuntimeAssumption DEF LoopState
  <2>4. loop[w].limit <= available_permits(w)
    BY <2>2, <2>3, PermitCount, RuntimeAssumption DEF available_permits
  <2> QED
    BY <2>1, <2>2, <2>3, <2>4
<1>1. /\ IsFiniteSet(claimed) /\ Cardinality(claimed) \in Nat
      /\ Cardinality(claimed) <= loop[w].limit
  BY <1>0, ClaimedWithinLimit DEF ClaimAndDispatch
<1>2. PICK spawned \in SUBSET claimed :
        /\ Cardinality(spawned) <= available_permits(w)
        /\ spawned # claimed => Cardinality(spawned) = available_permits(w)
        /\ handlers' = [t \in DOMAIN handlers \cup spawned |->
                          IF t \in spawned THEN NewHandler(w, t) ELSE handlers[t]]
        /\ IF spawned = claimed THEN Healthy(w) ELSE Degraded(w, "capacity")
  BY DEF ClaimAndDispatch, Dispatch
<1>3. spawned = claimed
  <2>1. /\ IsFiniteSet(spawned) /\ Cardinality(spawned) <= Cardinality(claimed)
        /\ Cardinality(claimed) = Cardinality(spawned) => claimed = spawned
    BY <1>1, <1>2, FS_Subset
  <2>2. Cardinality(spawned) \in Nat
    BY <2>1, FS_CardinalityType
  <2> HIDE DEF claimed
  <2> QED
    BY <1>0, <1>1, <1>2, <2>1, <2>2
<1>4. Cardinality(claimed) <= available_permits(w)
  BY <1>0, <1>1
<1> QED
  BY <1>1, <1>2, <1>3, <1>4

LEMMA DispatchInv ==
    ASSUME RuntimeInv, [Next]_vars, NEW w \in Workers, ClaimAndDispatch(w)
    PROVE  RuntimeInv'
<1> DEFINE claimed == issued' \ issued
<1>0. StoreInv /\ TxClock /\ LeaseClock /\ TypeOK
  BY DEF RuntimeInv, CompositionInv, StoreInv
<1>1. StoreInv' /\ TxClock' /\ LeaseClock' /\ TypeOK'
  BY <1>0, StoreStep, TxClockStep, LeaseClockStep DEF StoreInv
<1>2. /\ handlers' = [t \in DOMAIN handlers \cup claimed |->
                        IF t \in claimed THEN NewHandler(w, t) ELSE handlers[t]]
      /\ IsFiniteSet(claimed) /\ Cardinality(claimed) \in Nat
      /\ Cardinality(claimed) <= available_permits(w)
      /\ Healthy(w)
      /\ UNCHANGED <<ended, returned, faults>>
  BY DispatchFacts DEF ClaimAndDispatch
<1>3. /\ DOMAIN handlers' = DOMAIN handlers \cup claimed
      /\ \A t \in DOMAIN handlers \ claimed : handlers'[t] = handlers[t]
      /\ \A t \in claimed : handlers'[t] = NewHandler(w, t)
  BY <1>2
<1>4. /\ DOMAIN handlers \subseteq issued /\ issued \subseteq issued' /\ issued' \subseteq Tokens
      /\ DOMAIN handlers \cap claimed = {}
  BY <1>0, <1>1, HandlerFacts, RowsStep DEF TypeOK
<1>5. /\ \A t \in DOMAIN attempts : attempts'[t] = attempts[t]
      /\ DOMAIN attempts' \ DOMAIN attempts = claimed
      /\ DOMAIN attempts \subseteq issued /\ DOMAIN attempts \subseteq DOMAIN attempts'
      /\ \A t \in claimed : attempts'[t].run_id \in DOMAIN runs /\ attempts'[t].outcome = "open"
  BY <1>0, ClaimLedger DEF ClaimAndDispatch, TypeOK
<1>6. ASSUME NEW t \in claimed
      PROVE  /\ handlers'[t] \in HandlerState /\ Phased(handlers'[t])
             /\ handlers'[t].worker = w /\ handlers'[t].phase = "running"
             /\ handlers'[t].write = "none"
             /\ handlers'[t].run = attempts'[t].run_id
             /\ handlers'[t].deadline = attempts'[t].lease_expires_at
             /\ attempts'[t].lease_expires_at \in Nat
  <2>1. attempts'[t] \in AttemptRow
    BY <1>1, <1>5, <1>6 DEF TypeOK
  <2>2. attempts'[t].run_id \in RunIds /\ attempts'[t].lease_expires_at \in Nat
    BY <2>1 DEF AttemptRow
  <2>3. handlers'[t] = NewHandler(w, t)
    BY <1>3, <1>6
  <2>4. /\ NewHandler(w, t) \in HandlerState
        /\ NewHandler(w, t).worker = w /\ NewHandler(w, t).phase = "running"
        /\ NewHandler(w, t).write = "none"
        /\ NewHandler(w, t).run = attempts'[t].run_id
        /\ NewHandler(w, t).deadline = attempts'[t].lease_expires_at
    BY <2>2 DEF NewHandler, HandlerState
  <2> QED
    BY <2>2, <2>3, <2>4 DEF Phased
<1>7. LoopFits
  BY <1>2, HealthyFits
<1>8. RuntimeTypeOK'
  <2>1. handlers' \in [DOMAIN handlers' -> HandlerState]
        /\ \A t \in DOMAIN handlers' : Phased(handlers'[t])
    <3> HIDE DEF claimed
    <3>1. \A t \in DOMAIN handlers' : handlers'[t] \in HandlerState /\ Phased(handlers'[t])
      BY <1>3, <1>4, <1>6, HandlerFacts
    <3>2. handlers' = [t \in DOMAIN handlers' |-> handlers'[t]]
      BY <1>2
    <3> QED
      BY <3>1, <3>2
  <2>2. DOMAIN handlers' \subseteq issued'
    BY <1>3, <1>4
  <2>3. /\ ended' \subseteq Workers /\ faults' \in 0 .. MaxFaults
        /\ returned' \in [Tokens -> Results \cup {"none"}]
    BY <1>2, CountFacts, HandlerFacts
  <2> QED
    BY <1>1, <1>7, <2>1, <2>2, <2>3 DEF RuntimeTypeOK, LoopFits, Phased
<1>9. FiniteWork'
  <2>1. IsFiniteSet(DOMAIN runs) /\ IsFiniteSet(DOMAIN handlers)
    BY DEF RuntimeInv, FiniteWork
  <2>2. IsFiniteSet(DOMAIN handlers \cup claimed)
    BY <1>2, <2>1, FS_Union
  <2> QED
    BY <1>0, <1>3, <2>1, <2>2, FiniteRuns DEF FiniteWork
<1>10. /\ HandlersOf(w)' = HandlersOf(w) \cup claimed
       /\ \A x \in Workers \ {w} : HandlersOf(x)' = HandlersOf(x)
  BY <1>3, <1>4, <1>6 DEF HandlersOf
<1>11. Cardinality(HandlersOf(w)') \in Nat /\ Cardinality(HandlersOf(w)') <= MaxConcurrency
  <2>1. IsFiniteSet(HandlersOf(w)) /\ Cardinality(HandlersOf(w)) \in Nat
        /\ available_permits(w) \in 0 .. MaxConcurrency /\ MaxConcurrency \in Nat
    BY PermitCount, RuntimeAssumption
  <2>2. HandlersOf(w) \cap claimed = {}
    BY <1>4 DEF HandlersOf
  <2>3. Cardinality(HandlersOf(w) \cup claimed) =
          Cardinality(HandlersOf(w)) + Cardinality(claimed) - Cardinality({})
    <3>1. Cardinality(HandlersOf(w) \cup claimed) =
            Cardinality(HandlersOf(w)) + Cardinality(claimed)
              - Cardinality(HandlersOf(w) \cap claimed)
      <4>1. IsFiniteSet(claimed)
        BY <1>2
      <4> HIDE DEF claimed
      <4> QED
        BY <2>1, <4>1, FS_Union
    <3> QED
      BY <2>2, <3>1, Zenon
  <2>4. Cardinality({}) = 0
    BY FS_EmptySet
  <2> HIDE DEF claimed
  <2> QED
    BY <1>2, <1>10, <2>1, <2>3, <2>4 DEF available_permits
<1>12. /\ loop'[w].phase = "select" /\ loop'[w].status = "Healthy"
       /\ \A x \in Workers \ {w} : loop'[x] = loop[x]
  BY <1>2 DEF Healthy, RuntimeInv, CompositionInv, RuntimeTypeOK
<1>13. Capacity'
  <2> SUFFICES ASSUME NEW x \in Workers
               PROVE  /\ Cardinality(HandlersOf(x)') <= MaxConcurrency
                      /\ loop'[x].last_error # "capacity"
                      /\ loop'[x].phase = "claiming" =>
                           Cardinality(HandlersOf(x)') + loop'[x].limit <= MaxConcurrency
    BY DEF Capacity
  <2>1. loop'[x].last_error # "capacity"
    BY <1>7 DEF LoopFits
  <2>2. CASE x = w
    BY <1>11, <1>12, <2>1, <2>2
  <2>3. CASE x # w
    <3>1. HandlersOf(x)' = HandlersOf(x) /\ loop'[x] = loop[x]
      BY <1>10, <1>12, <2>3
    <3> QED
      BY <2>1, <3>1 DEF RuntimeInv, Capacity
  <2> QED
    BY <2>2, <2>3
<1>14. StoppedIsQuiet'
  <2> SUFFICES ASSUME NEW x \in Workers, loop'[x].status = "Stopped"
               PROVE  HandlersOf(x)' = {}
    BY DEF StoppedIsQuiet
  <2>1. x # w /\ loop'[x] = loop[x]
    BY <1>12
  <2> QED
    BY <1>10, <2>1 DEF RuntimeInv, StoppedIsQuiet
<1>15. WritesEarned'
  <2>1. ASSUME NEW t \in DOMAIN handlers' PROVE returned'[t] = Earned(handlers'[t])
    <3>1. CASE t \in claimed
      <4>1. returned[t] = "none"
        BY <1>4, <3>1 DEF RuntimeInv, WritesEarned
      <4> QED
        BY <1>2, <1>6, <3>1, <4>1 DEF Earned, Results
    <3>2. CASE t \notin claimed
      BY <1>2, <1>3, <2>1, <3>2, HandlerFacts
    <3> QED
      BY <3>1, <3>2
  <2>2. \A t \in Tokens \ issued' : returned'[t] = "none"
    BY <1>2, <1>4 DEF RuntimeInv, WritesEarned
  <2>3. ASSUME NEW t \in DOMAIN handlers' \cap DOMAIN attempts'
        PROVE  /\ attempts'[t].run_id = handlers'[t].run
               /\ attempts'[t].outcome \notin {"completed", "failed"}
    <3>1. CASE t \in claimed
      BY <1>5, <1>6, <3>1
    <3>2. CASE t \notin claimed
      BY <1>3, <1>5, <2>3, <3>2 DEF RuntimeInv, WritesEarned
    <3> QED
      BY <3>1, <3>2
  <2> QED
    BY <2>1, <2>2, <2>3 DEF WritesEarned, Earned
<1>16. OutcomeEarned'
  <2> SUFFICES ASSUME NEW t \in DOMAIN attempts'
               PROVE  /\ attempts'[t].outcome = "completed" => returned'[t] = "ok"
                      /\ attempts'[t].outcome = "failed" =>
                           returned'[t] \in {"retry", "permanent"}
    BY DEF OutcomeEarned
  <2>1. CASE t \in claimed
    BY <1>5, <2>1
  <2>2. CASE t \notin claimed
    BY <1>2, <1>5, <2>2 DEF RuntimeInv, OutcomeEarned
  <2> QED
    BY <2>1, <2>2
<1>17. LocalDeadline'
  <2> SUFFICES ASSUME NEW t \in DOMAIN handlers' \cap DOMAIN attempts'
               PROVE  handlers'[t].deadline <= attempts'[t].lease_expires_at
    BY DEF LocalDeadline
  <2>1. CASE t \in claimed
    BY <1>6, <2>1
  <2>2. CASE t \notin claimed
    BY <1>3, <1>5, <2>2 DEF RuntimeInv, LocalDeadline
  <2> QED
    BY <2>1, <2>2
<1> QED
  BY <1>1, <1>7, <1>8, <1>9, <1>13, <1>14, <1>15, <1>16, <1>17
     DEF RuntimeInv, CompositionInv, LoopFits

LEMMA RuntimeInitInv == RuntimeInit => RuntimeInv
<1> SUFFICES ASSUME RuntimeInit PROVE RuntimeInv
  OBVIOUS
<1>0. Init /\ DOMAIN runs = {} /\ DOMAIN attempts = {} /\ DOMAIN handlers = {} /\ issued = {}
  BY DEF RuntimeInit, Init
<1>1. StoreInv
  BY <1>0, StoreInitInv
<1>2. TxClock /\ LeaseClock
  BY <1>0 DEF Init, TxClock, LeaseClock, NoTx
<1>3. MaxConcurrency \in Nat /\ MaxFailures \in Nat /\ MaxFaults \in Nat
  BY RuntimeAssumption
<1>4. \A w \in Workers : /\ loop[w] \in LoopState /\ loop[w].phase = "select"
                         /\ loop[w].status = "Starting" /\ loop[w].last_error = "none"
  <2>1. 0 \in 0 .. MaxConcurrency /\ 0 \in 0 .. MaxFailures
    BY <1>3
  <2> QED
    BY <2>1 DEF RuntimeInit, LoopState
<1>5. loop \in [Workers -> LoopState]
  BY <1>4 DEF RuntimeInit
<1>6. RuntimeTypeOK
  <2>1. handlers \in [DOMAIN handlers -> HandlerState]
    BY <1>0 DEF RuntimeInit
  <2>2. faults \in 0 .. MaxFaults /\ ended \subseteq Workers
        /\ returned \in [Tokens -> Results \cup {"none"}]
    BY <1>3 DEF RuntimeInit
  <2> QED
    BY <1>0, <1>1, <1>5, <2>1, <2>2 DEF RuntimeTypeOK, StoreInv
<1>7. LoopPhases
  BY <1>4 DEF LoopPhases
<1>8. FiniteWork
  BY <1>0, FS_EmptySet DEF FiniteWork
<1>9. \A w \in Workers : HandlersOf(w) = {}
  BY <1>0 DEF HandlersOf
<1>10. Capacity
  <2>1. \A w \in Workers : Cardinality(HandlersOf(w)) = 0
    BY <1>9, FS_EmptySet
  <2> QED
    BY <1>3, <1>4, <2>1 DEF Capacity
<1>11. StoppedIsQuiet
  BY <1>9 DEF StoppedIsQuiet
<1>12. WritesEarned /\ OutcomeEarned /\ LocalDeadline
  BY <1>0 DEF RuntimeInit, WritesEarned, OutcomeEarned, LocalDeadline
<1> QED
  BY <1>1, <1>2, <1>6, <1>7, <1>8, <1>10, <1>11, <1>12 DEF RuntimeInv, CompositionInv

LEMMA RuntimeStep == RuntimeInv /\ [RuntimeNext]_runtimeVars => RuntimeInv'
<1> SUFFICES ASSUME RuntimeInv, [RuntimeNext]_runtimeVars PROVE RuntimeInv'
  OBVIOUS
<1>0. [Next]_vars
  BY StepComposes DEF RuntimeInv
<1>1. ASSUME NEW w \in Workers, LoopStep(w) \/ Shutdown(w) \/ Crash(w)
      PROVE  Fits \/ ClaimAndDispatch(w)
  BY <1>1, LoopStepFits, EndFits DEF LoopStep
<1>2. ASSUME NEW t \in DOMAIN handlers,
             DispatchStep(t) \/ HandlerStep(t) \/ SentExecuted(t) \/ SentLost(t)
      PROVE  Fits
  BY <1>2, DispatchStepFits
<1>3. CASE Others \/ RuntimeTick \/ UNCHANGED runtimeVars
  BY <1>0, <1>3, EnvironmentFits, FitsInv
<1> QED
  BY <1>0, <1>1, <1>2, <1>3, FitsInv, DispatchInv DEF RuntimeNext

-----------------------------------------------------------------------------
(* What is proved of the runtime                                           *)

(* The inductive invariant of the runtime, whatever the number of          *)
(* instances, handlers, crashes, lost answers and host clocks.             *)
THEOREM RuntimeInvariant == RuntimeSpec => []RuntimeInv
BY RuntimeInitInv, RuntimeStep, PTL DEF RuntimeSpec

(* The runtime implements the store: every step of an instance, of a       *)
(* statement whose client is gone, and of time is a step of TaskStore or   *)
(* changes none of its tables, so every theorem about Spec is one about    *)
(* the runtime.                                                            *)
THEOREM RuntimeImplementsStore == RuntimeSpec => StoreSpec
<1>1. RuntimeInit => Init
  BY DEF RuntimeInit
<1>2. RuntimeInv => CompositionInv
  BY DEF RuntimeInv
<1> QED
  BY <1>1, <1>2, StepComposes, RuntimeInvariant, PTL DEF RuntimeSpec, StoreSpec, Spec

(* Loops and handlers keep their types. *)
THEOREM RuntimeTyped == RuntimeSpec => []RuntimeTypeOK
<1>1. RuntimeInv => RuntimeTypeOK
  BY DEF RuntimeInv, CompositionInv
<1> QED
  BY <1>1, RuntimeInvariant, PTL

(* No instance runs more handlers than it has permits, and the permits it  *)
(* counted before it waited for a connection still suffice when the answer *)
(* of claim_batch arrives.                                                 *)
THEOREM PermitsSuffice == RuntimeSpec => []Capacity
<1>1. RuntimeInv => Capacity
  BY DEF RuntimeInv
<1> QED
  BY <1>1, RuntimeInvariant, PTL

(* What is recorded of an attempt is what its own handler returned, though *)
(* panics, aborts, crashes, lost answers and late statements intervene.    *)
THEOREM OutcomesAreEarned == RuntimeSpec => []OutcomeEarned
<1>1. RuntimeInv => OutcomeEarned
  BY DEF RuntimeInv
<1> QED
  BY <1>1, RuntimeInvariant, PTL

(* The deadline a handler acts on is never past the one on record, for     *)
(* renewals that waited for a lock or whose answer was lost too.           *)
THEOREM DeadlinesAreStored == RuntimeSpec => []LocalDeadline
<1>1. RuntimeInv => LocalDeadline
  BY DEF RuntimeInv
<1> QED
  BY <1>1, RuntimeInvariant, PTL

(* An instance that has published Stopped has no handler left running, and *)
(* never gets one again: it drained, or aborted what did not end in time.  *)
THEOREM StoppedStaysQuiet == RuntimeSpec => []StoppedIsQuiet
<1>1. RuntimeInv => StoppedIsQuiet
  BY DEF RuntimeInv
<1> QED
  BY <1>1, RuntimeInvariant, PTL

(* Two handlers of one task overlap only when the lease of the older one   *)
(* has expired: an older attempt of the task is failed or expired, and one *)
(* whose handler is still there cannot have failed.                        *)
THEOREM OverlapsOnlyAfterExpiry == RuntimeSpec => []OverlapAfterExpiry
<1>1. RuntimeInv => OverlapAfterExpiry
  <2> SUFFICES ASSUME RuntimeInv, NEW t \in DOMAIN handlers \cap DOMAIN attempts,
                      NEW u \in DOMAIN handlers \cap DOMAIN attempts,
                      handlers[t].run = handlers[u].run,
                      attempts[t].attempt_number < attempts[u].attempt_number
               PROVE  attempts[t].outcome = "expired" /\ attempts[t].lease_expires_at <= now
    BY DEF OverlapAfterExpiry
  <2>1. /\ attempts[t].run_id = attempts[u].run_id
        /\ attempts[t].outcome \notin {"completed", "failed"}
    BY DEF RuntimeInv, WritesEarned
  <2>2. StoreInv /\ TypeOK
    BY DEF RuntimeInv, CompositionInv, StoreInv
  <2> DEFINE row == runs[attempts[t].run_id]
  <2>3. /\ attempts[u].attempt_number <= row.attempt_count
        /\ OutcomeFits(attempts[t], row)
        /\ attempts[t].run_id \in DOMAIN runs
    BY <2>1, <2>2 DEF StoreInv, AttemptLedger, LedgerKeys, LedgerOutcomes
  <2>4. /\ attempts[t].attempt_number \in Nat /\ attempts[u].attempt_number \in Nat
        /\ row.attempt_count \in Nat
    BY <2>2, <2>3 DEF TypeOK, AttemptRow, RunRow
  <2>5. attempts[t].attempt_number < row.attempt_count
    BY <2>3, <2>4
  <2>6. attempts[t].outcome = "expired"
    BY <2>1, <2>3, <2>5 DEF OutcomeFits
  <2> QED
    BY <2>2, <2>6 DEF StoreInv, ExpiredIsPast
<1> QED
  BY <1>1, RuntimeInvariant, PTL
=============================================================================
