--------------------- MODULE TaskStoreRefinementProofs ---------------------
(***************************************************************************)
(* TaskStore implements TaskLifecycle, for every value of the constants.   *)
(***************************************************************************)
EXTENDS TaskStoreRefinement, TaskStoreProofs

-----------------------------------------------------------------------------
(* Steps of the lifecycle                                                  *)

(* A step that changes no task and issues no token is invisible. *)
LEMMA UnseenStep ==
    ASSUME \A r \in RunIds : TaskOf(r)' = TaskOf(r), issued' = issued
    PROVE  UNCHANGED Lifecycle!vars
<1>1. [r \in RunIds |-> TaskOf(r)]' = [r \in RunIds |-> TaskOf(r)]
  OBVIOUS
<1> QED
  BY <1>1 DEF Lifecycle!vars

(* The row of r, or its absence, is what it was. *)
SameRow(r) ==
    /\ r \in Committed' <=> r \in Committed
    /\ r \in spent' <=> r \in spent
    /\ r \in Committed => runs'[r] = runs[r]

(* Rows, ids and uncommitted inserts that stay show the same tasks. *)
LEMMA SameTasks ==
    ASSUME NEW S, \A r \in RunIds \ S : SameRow(r)
    PROVE  \A r \in RunIds \ S : TaskOf(r)' = TaskOf(r)
BY DEF TaskOf, SameRow

(* If all of them stay, nothing happened. *)
LEMMA UnseenRows ==
    ASSUME \A r \in RunIds : SameRow(r), issued' = issued
    PROVE  UNCHANGED Lifecycle!vars
<1>1. \A r \in RunIds : TaskOf(r)' = TaskOf(r)
  BY DEF TaskOf, SameRow
<1> QED
  BY <1>1, UnseenStep

(* The tasks in S change to what new says and the others stay. *)
LEMMA BecomeStep ==
    ASSUME NEW S \in SUBSET RunIds, NEW new,
           \A r \in RunIds \ S : TaskOf(r)' = TaskOf(r),
           \A r \in S : TaskOf(r)' = new[r]
    PROVE  Lifecycle!Become(S, new)
BY DEF Lifecycle!Become

(***************************************************************************)
(* Leases end: rows in S were running; each is now terminal, or waits with *)
(* attempts left, and its lease is cleared.                                *)
(***************************************************************************)
LeaseEnds(S) ==
    \A r \in S :
        /\ r \in Committed /\ runs[r].state = "running"
        /\ r \in Committed'
        /\ runs'[r].attempt_count = runs[r].attempt_count
        /\ runs'[r].options = runs[r].options
        /\ runs'[r].lease_token = Null
        /\ \/ runs'[r].state \in Terminal
           \/ runs'[r].state = "pending" /\ AttemptsLeft(runs[r])

(* Ending leases is a step of the lifecycle. *)
LEMMA ReleaseStep ==
    ASSUME NEW S \in SUBSET RunIds, TypeOK, LeaseEnds(S),
           \A r \in RunIds \ S : TaskOf(r)' = TaskOf(r), issued' = issued
    PROVE  Lifecycle!Release(S)
<1> DEFINE new == [r \in S |-> TaskOf(r)']
<1>1. \A r \in S : TaskOf(r) = TaskRow(runs[r]) /\ TaskOf(r)' = TaskRow(runs'[r])
  BY DEF LeaseEnds, TaskOf
<1>2. \A r \in S : TaskOf(r).phase = "owned"
  BY <1>1 DEF LeaseEnds, TaskRow, PhaseOf
<1>3. ASSUME NEW r \in S
      PROVE  TaskOf(r)' \in Lifecycle!Released(r)
  <2>1. TaskOf(r)' = Lifecycle!Moved(r, PhaseOf(runs'[r].state))
    BY <1>1, <1>3 DEF LeaseEnds, Lifecycle!Moved, Lifecycle!Task, TaskRow
  <2>2. CASE runs'[r].state \in Terminal
    <3>1. PhaseOf(runs'[r].state) = runs'[r].state /\ runs'[r].state \in Lifecycle!Ends
      BY <2>2 DEF Terminal, PhaseOf, Lifecycle!Ends
    <3> QED
      BY <2>1, <3>1, <1>3 DEF Lifecycle!Released
  <2>3. CASE runs'[r].state = "pending" /\ AttemptsLeft(runs[r])
    <3>1. PhaseOf(runs'[r].state) = "waiting"
      BY <2>3 DEF PhaseOf
    <3>2. TaskOf(r).claims < TaskOf(r).budget
      BY <1>1, <1>3, <2>3 DEF AttemptsLeft, TaskRow
    <3> QED
      BY <2>1, <3>1, <3>2, <1>3 DEF Lifecycle!Released
  <2> QED
    BY <1>3, <2>2, <2>3 DEF LeaseEnds
<1>4. new \in [S -> UNION {Lifecycle!Released(r) : r \in S}]
  BY <1>3
<1>5. Lifecycle!Become(S, new)
  BY BecomeStep
<1> QED
  BY <1>2, <1>3, <1>4, <1>5 DEF Lifecycle!Release

(* A producer's commit submits the task it inserted. *)
LEMMA CommitStep ==
    ASSUME StoreInv, SpentIds, TypeOK', NEW r \in RunIds, ProducerCommit(r)
    PROVE  Lifecycle!Submit(r) \/ UNCHANGED Lifecycle!vars
<1>1. /\ runs' = runs /\ spent' = spent /\ issued' = issued /\ TypeOK
      /\ tx' = [tx EXCEPT ![r] = NoTx] /\ tx \in [RunIds -> TxState]
      /\ DOMAIN runs \subseteq RunIds
  BY DEF ProducerCommit, StoreInv, TypeOK
<1>2. \A x \in RunIds \ {r} : TaskOf(x)' = TaskOf(x)
  <2>1. \A x \in RunIds \ {r} : SameRow(x)
    BY <1>1 DEF Committed, SameRow
  <2> QED
    BY <2>1, SameTasks
<1>3. CASE tx[r].kind = "insert"
  <2>1. r \in DOMAIN runs /\ runs[r].state = "pending" /\ runs[r].attempt_count = 0
    BY <1>3 DEF StoreInv, ProducerRows
  <2>2. r \notin Committed /\ r \in Committed' /\ r \notin spent
    BY <1>1, <1>3, <2>1 DEF Committed, NoTx, SpentIds
  <2>3. runs[r].lease_token = Null /\ runs[r].options \in Options
    BY <1>1, <2>1 DEF StoreInv, RowStates, RowOK, TypeOK, RunRow
  <2>4. TaskOf(r) = Lifecycle!Absent
    BY <2>2 DEF TaskOf, NoTask, Lifecycle!Absent, Lifecycle!Task
  <2>5. TaskOf(r)' = Lifecycle!Task("waiting", Null, 0, runs[r].options.max_attempts)
    BY <1>1, <2>1, <2>2, <2>3 DEF TaskOf, TaskRow, PhaseOf, Lifecycle!Task
  <2> DEFINE max == runs[r].options.max_attempts
  <2>6. max \in {opt.max_attempts : opt \in Options}
    BY <2>3
  <2>7. Lifecycle!Become({r}, [y \in {r} |-> Lifecycle!Task("waiting", Null, 0, max)])
    BY <1>2, <2>5, BecomeStep
  <2> QED
    BY <1>1, <2>4, <2>6, <2>7 DEF Lifecycle!Submit
<1>4. CASE tx[r].kind # "insert"
  <2>1. r \in Committed' <=> r \in Committed
    BY <1>1, <1>4 DEF Committed, NoTx
  <2>2. TaskOf(r)' = TaskOf(r)
    BY <1>1, <2>1 DEF TaskOf
  <2> QED
    BY <1>1, <1>2, <2>2, UnseenStep
<1> QED
  BY <1>3, <1>4

(* The other steps of a producer: a rolled back insert is forgotten before *)
(* it was ever submitted, and the rest is invisible.                       *)
LEMMA ProducerStep ==
    ASSUME StoreInv, SpentIds, TypeOK', Produce
    PROVE  [Lifecycle!Next]_(Lifecycle!vars)
<1>0. TypeOK /\ tx \in [RunIds -> TxState] /\ DOMAIN runs \subseteq RunIds
  BY DEF StoreInv, TypeOK
<1>1. ASSUME NEW r \in FreeIds, NEW opt \in Options, NEW at \in StartTimes \cup {Null},
             EnqueueInsert(r, opt, at)
      PROVE  UNCHANGED Lifecycle!vars
  <2>1. r \in RunIds /\ r \notin DOMAIN runs
    BY DEF FreeIds
  <2>2. \A x \in RunIds : x \in Committed' <=> x \in Committed
    BY <1>0, <1>1, <2>1 DEF EnqueueInsert, Committed
  <2>3. \A x \in Committed : runs'[x] = runs[x]
    BY <1>1, <2>1 DEF EnqueueInsert, Committed
  <2>4. spent' = spent /\ issued' = issued
    BY <1>1 DEF EnqueueInsert
  <2> QED
    BY <2>2, <2>3, <2>4, UnseenRows DEF SameRow
<1>2. ASSUME NEW r \in RunIds,
             (\E opt \in Options : EnqueueDuplicate(r, opt)) \/ RollbackDuplicate(r)
      PROVE  UNCHANGED Lifecycle!vars
  <2>1. runs' = runs /\ spent' = spent /\ issued' = issued
    BY <1>2 DEF EnqueueDuplicate, RollbackDuplicate
  <2>2. \A x \in RunIds : x \in Committed' <=> x \in Committed
    BY <1>0, <1>2 DEF EnqueueDuplicate, RollbackDuplicate, Committed, Unlocked, NoTx
  <2> QED
    BY <2>1, <2>2, UnseenRows DEF SameRow
<1>3. ASSUME NEW r \in RunIds, RollbackInsert(r)
      PROVE  Lifecycle!Forget({r})
  <2>1. r \in DOMAIN runs /\ r \notin Committed /\ r \notin spent
    BY <1>3 DEF RollbackInsert, StoreInv, ProducerRows, Committed, SpentIds
  <2>2. r \notin Committed' /\ r \in spent'
    BY <1>3 DEF RollbackInsert, Committed
  <2>3. TaskOf(r) = Lifecycle!Absent /\ TaskOf(r)' = Lifecycle!Gone
    BY <2>1, <2>2 DEF TaskOf, NoTask, Lifecycle!Absent, Lifecycle!Gone, Lifecycle!Task
  <2>4. ASSUME NEW x \in RunIds \ {r}
        PROVE  SameRow(x)
    <3>1. tx'[x] = tx[x] /\ (x \in DOMAIN runs' <=> x \in DOMAIN runs)
          /\ (x \in spent' <=> x \in spent)
      BY <1>0, <1>3 DEF RollbackInsert
    <3>2. x \in DOMAIN runs => runs'[x] = runs[x]
      BY <1>3 DEF RollbackInsert
    <3> QED
      BY <3>1, <3>2 DEF Committed, SameRow
  <2>5. \A x \in RunIds \ {r} : TaskOf(x)' = TaskOf(x)
    BY <2>4, SameTasks
  <2> DEFINE new == [x \in {r} |-> Lifecycle!Gone]
  <2>7. \A x \in {r} : TaskOf(x)' = new[x]
    BY <2>3
  <2>8. Lifecycle!Become({r}, new)
    BY <2>5, <2>7, BecomeStep
  <2>6. issued' = issued
    BY <1>3 DEF RollbackInsert
  <2> QED
    BY <2>3, <2>6, <2>8 DEF Lifecycle!Forget
<1> QED
  BY <1>1, <1>2, <1>3, CommitStep DEF Produce, Lifecycle!Next

(* A claim owns its batch, one fresh token per task. *)
LEMMA OwnStep ==
    ASSUME StoreInv, SpentIds, NEW batch \in SUBSET Committed,
           NEW token \in [batch -> FreshTokens],
           \A r \in batch : runs[r].state = "pending",
           \A x, y \in batch : token[x] = token[y] => x = y,
           NEW at \in [batch -> ClaimClocks(batch)], Claim(batch, token, at)
    PROVE  Lifecycle!Own(batch)
<1>1. /\ runs' = [r \in DOMAIN runs |->
                    IF r \in batch THEN Leased(runs[r], token[r], at[r]) ELSE runs[r]]
      /\ issued' = issued \cup {token[r] : r \in batch}
      /\ spent' = spent /\ tx' = tx
  BY DEF Claim
<1>2. Committed' = Committed /\ batch \subseteq RunIds /\ now \in Nat
  BY <1>1 DEF Committed, StoreInv, TypeOK
<1>3. \A r \in RunIds \ batch : TaskOf(r)' = TaskOf(r)
  BY <1>1, <1>2, SameTasks DEF SameRow, Committed
<1> DEFINE new == [r \in batch |->
                     Lifecycle!Task("owned", token[r], TaskOf(r).claims + 1, TaskOf(r).budget)]
<1>4. ASSUME NEW r \in batch
      PROVE  /\ TaskOf(r).phase = "waiting" /\ TaskOf(r).claims < TaskOf(r).budget
             /\ TaskOf(r)' = new[r]
  <2>1. runs[r] \in RunRow /\ RowOK(runs[r]) /\ token[r] \in Tokens /\ at[r] \in Nat
    BY <1>2 DEF Committed, StoreInv, TypeOK, RowStates, FreshTokens, ClaimClocks
  <2>2. TaskOf(r) = TaskRow(runs[r]) /\ TaskOf(r)' = TaskRow(Leased(runs[r], token[r], at[r]))
    BY <1>1, <1>2 DEF TaskOf, Committed
  <2>3. runs[r].attempt_count < runs[r].options.max_attempts
    BY <2>1 DEF RowOK
  <2>4. PhaseOf("pending") = "waiting" /\ PhaseOf("running") = "owned"
    BY DEF PhaseOf
  <2>5. TaskRow(Leased(runs[r], token[r], at[r]))
          = Lifecycle!Task("owned", token[r], runs[r].attempt_count + 1,
                           runs[r].options.max_attempts)
    BY <1>2, <2>1, <2>4, LeasedType DEF TaskRow, Lifecycle!Task
  <2> QED
    BY <2>2, <2>3, <2>4, <2>5 DEF TaskRow
<1>5. Lifecycle!Become(batch, new)
  BY <1>2, <1>3, <1>4, BecomeStep
<1>6. token \in [batch -> Tokens \ issued]
  BY DEF FreshTokens
<1> QED
  BY <1>1, <1>2, <1>4, <1>5, <1>6 DEF Lifecycle!Own

(* A worker ends its lease, or renews it unseen. *)
LEMMA WriteStep ==
    ASSUME StoreInv, NEW r \in RunIds, NEW t \in issued, NEW at \in Nat,
           WorkerWrite(r, t, at), \A x \in RunIds : tx'[x].kind = "insert" <=> tx[x].kind = "insert"
    PROVE  Lifecycle!Release({r}) \/ UNCHANGED Lifecycle!vars
<1>1. /\ r \in Committed /\ runs[r].state = "running" /\ runs[r] \in RunRow
      /\ runs[r].options \in Options /\ TypeOK /\ DOMAIN runs \subseteq RunIds
  BY DEF WorkerWrite, finalize_run, fail_run, renew_lease, Owns, Committed, StoreInv,
         TypeOK, RunRow
<1>2. ASSUME NEW row, runs' = [runs EXCEPT ![r] = row], spent' = spent
      PROVE  /\ r \in Committed' /\ runs'[r] = row
             /\ \A x \in RunIds \ {r} : SameRow(x)
  BY <1>1, <1>2 DEF Committed, SameRow
<1>3. ASSUME NEW row, runs' = [runs EXCEPT ![r] = row], spent' = spent, issued' = issued,
             row.attempt_count = runs[r].attempt_count, row.options = runs[r].options,
             row.lease_token = Null,
             row.state \in Terminal \/ (row.state = "pending" /\ AttemptsLeft(runs[r]))
      PROVE  Lifecycle!Release({r})
  <2>1. LeaseEnds({r})
    BY <1>1, <1>2, <1>3 DEF LeaseEnds
  <2>2. \A x \in RunIds \ {r} : TaskOf(x)' = TaskOf(x)
    BY <1>2, <1>3, SameTasks
  <2> QED
    BY <1>1, <1>3, <2>1, <2>2, ReleaseStep
<1>4. ASSUME NEW state \in Terminal, NEW error \in Errors,
             runs' = [runs EXCEPT ![r] = Finished(@, state, error, at)],
             spent' = spent, issued' = issued
      PROVE  Lifecycle!Release({r})
  <2>1. state \in RunStates
    BY DEF Terminal, RunStates
  <2> DEFINE row == Finished(runs[r], state, error, at)
  <2>2. /\ row.attempt_count = runs[r].attempt_count /\ row.options = runs[r].options
        /\ row.lease_token = Null /\ row.state \in Terminal
    BY <1>1, <2>1, FinishedType
  <2>3. runs' = [runs EXCEPT ![r] = row]
    BY <1>4
  <2> HIDE DEF row
  <2> QED
    BY <1>3, <1>4, <2>2, <2>3
<1>5. CASE \E outcome \in {"completed", "failed"} : finalize_run(r, t, outcome, at)
  <2>1. PICK outcome \in {"completed", "failed"} : finalize_run(r, t, outcome, at)
    BY <1>5
  <2> DEFINE error == IF outcome = "failed" THEN "job error" ELSE "none"
  <2>2. outcome \in Terminal /\ error \in Errors
    BY DEF Terminal, Errors
  <2>3. /\ runs' = [runs EXCEPT ![r] = Finished(@, outcome, error, at)]
        /\ spent' = spent /\ issued' = issued
    BY <2>1 DEF finalize_run
  <2> HIDE DEF error
  <2> QED
    BY <1>4, <2>2, <2>3
<1>6. CASE \E retryable \in BOOLEAN : fail_run(r, t, retryable, at)
  <2>1. PICK retryable \in BOOLEAN : fail_run(r, t, retryable, at)
    BY <1>6
  <2>2. spent' = spent /\ issued' = issued
    BY <2>1 DEF fail_run
  <2>3. CASE retryable /\ AttemptsLeft(runs[r])
    <3> DEFINE row == Requeued(runs[r], at + runs[r].options.retry_backoff)
    <3>1. runs' = [runs EXCEPT ![r] = row]
      BY <2>1, <2>3 DEF fail_run
    <3>2. at + runs[r].options.retry_backoff \in Nat
      BY <1>1, OptionFacts
    <3>3. /\ row.attempt_count = runs[r].attempt_count /\ row.options = runs[r].options
          /\ row.lease_token = Null /\ row.state = "pending"
      BY <1>1, <3>2, RequeuedType
    <3> HIDE DEF row
    <3> QED
      BY <1>3, <2>2, <2>3, <3>1, <3>3
  <2>4. CASE ~(retryable /\ AttemptsLeft(runs[r]))
    <3>1. runs' = [runs EXCEPT ![r] = Finished(@, "failed", "job error", at)]
      BY <2>1, <2>4 DEF fail_run
    <3>2. "failed" \in Terminal /\ "job error" \in Errors
      BY DEF Terminal, Errors
    <3> QED
      BY <1>4, <2>2, <3>1, <3>2
  <2> QED
    BY <2>3, <2>4
<1>7. CASE renew_lease(r, t, at)
  <2> DEFINE row == [runs[r] EXCEPT !.lease_expires_at = at + runs[r].options.lease_duration]
  <2>1. runs' = [runs EXCEPT ![r] = row] /\ spent' = spent /\ issued' = issued
    BY <1>7 DEF renew_lease
  <2>2. TaskRow(row) = TaskRow(runs[r])
    BY <1>1 DEF TaskRow, RunRow
  <2>3. runs'[r] = row /\ r \in Committed' /\ \A x \in RunIds \ {r} : SameRow(x)
    BY <1>2, <2>1
  <2>4. TaskOf(r)' = TaskOf(r)
    BY <1>1, <2>2, <2>3 DEF TaskOf
  <2>5. \A x \in RunIds \ {r} : TaskOf(x)' = TaskOf(x)
    BY <2>3, SameTasks
  <2> QED
    BY <2>1, <2>4, <2>5, UnseenStep
<1> QED
  BY <1>5, <1>6, <1>7 DEF WorkerWrite

(* Recovery gives tasks back, or ends them, on behalf of their owners. *)
LEMMA RecoveryStep ==
    ASSUME StoreInv, NEW limit \in Limits, recover_expired(limit)
    PROVE  \E S \in SUBSET RunIds : Lifecycle!Release(S)
<1>1. PICK batch \in SUBSET {r \in Committed : Unlocked(r) /\ Lapsed(r)} :
        /\ runs' = [r \in DOMAIN runs |->
                      IF r \in {x \in batch : HasOpenAttempt(runs[x].lease_token)}
                      THEN Recovered(runs[r]) ELSE runs[r]]
        /\ UNCHANGED <<issued, spent, tx, cancel, now>>
  BY DEF recover_expired
<1> DEFINE S == {x \in batch : HasOpenAttempt(runs[x].lease_token)}
<1>2. S \subseteq Committed /\ Committed \subseteq RunIds /\ TypeOK /\ now \in Nat
  BY <1>1 DEF Committed, StoreInv, TypeOK
<1>3. /\ Committed' = Committed
      /\ \A r \in Committed : runs'[r] = IF r \in S THEN Recovered(runs[r]) ELSE runs[r]
  BY <1>1 DEF Committed
<1>4. ASSUME NEW r \in S
      PROVE  /\ runs[r].state = "running"
             /\ Recovered(runs[r]).attempt_count = runs[r].attempt_count
             /\ Recovered(runs[r]).options = runs[r].options
             /\ Recovered(runs[r]).lease_token = Null
             /\ \/ Recovered(runs[r]).state \in Terminal
                \/ Recovered(runs[r]).state = "pending" /\ AttemptsLeft(runs[r])
  <2>1. runs[r] \in RunRow /\ runs[r].state = "running"
    BY <1>1, <1>2 DEF TypeOK, Committed, Lapsed
  <2>2. CASE AttemptsLeft(runs[r])
    BY <1>2, <2>1, <2>2, RequeuedType DEF Recovered
  <2>3. CASE ~AttemptsLeft(runs[r])
    <3>1. Recovered(runs[r]) = Finished(runs[r], "failed", "lease expired", now)
      BY <2>3 DEF Recovered
    <3>2. "failed" \in Terminal /\ "failed" \in RunStates /\ "lease expired" \in Errors
      BY DEF Terminal, RunStates, Errors
    <3>3. /\ Recovered(runs[r]).attempt_count = runs[r].attempt_count
          /\ Recovered(runs[r]).lease_token = Null
          /\ Recovered(runs[r]).state = "failed"
          /\ Recovered(runs[r]).options = runs[r].options
      BY <2>1, <3>1 DEF Finished, RunRow
    <3> QED
      BY <2>1, <3>2, <3>3
  <2> QED
    BY <2>2, <2>3
<1> HIDE DEF S
<1>5. LeaseEnds(S)
  BY <1>2, <1>3, <1>4 DEF LeaseEnds
<1>6. \A r \in RunIds \ S : TaskOf(r)' = TaskOf(r)
  BY <1>1, <1>3, SameTasks DEF SameRow
<1>7. Lifecycle!Release(S)
  BY <1>1, <1>2, <1>5, <1>6, ReleaseStep
<1> QED
  BY <1>2, <1>7

(* What workers and recovery do. *)
LEMMA WorkStep ==
    ASSUME StoreInv, SpentIds, Work
    PROVE  [Lifecycle!Next]_(Lifecycle!vars)
<1>0. TypeOK /\ tx \in [RunIds -> TxState] /\ now \in Nat /\ Committed \subseteq RunIds
  BY DEF StoreInv, TypeOK, Committed
<1>1. CASE \E names \in NameSets, limit \in Limits : ClaimBatch(names, limit)
  <2>1. PICK batch \in SUBSET Committed :
          \E token \in [batch -> FreshTokens], at \in [batch -> ClaimClocks(batch)] :
          /\ \A r \in batch : runs[r].state = "pending"
          /\ \A x, y \in batch : token[x] = token[y] => x = y
          /\ Claim(batch, token, at)
    BY <1>1 DEF ClaimBatch, ClaimAmong, Batches, Eligible
  <2>2. Lifecycle!Own(batch)
    BY <2>1, OwnStep
  <2> QED
    BY <1>0, <2>2 DEF Lifecycle!Next
<1>2. ASSUME NEW r \in RunIds, NEW t \in issued, DirectWrite(r, t)
      PROVE  Lifecycle!Release({r}) \/ UNCHANGED Lifecycle!vars
  BY <1>0, <1>2, WriteStep DEF DirectWrite
<1>3. ASSUME NEW r \in RunIds, NEW t \in issued, DelayedWrite(r, t)
      PROVE  Lifecycle!Release({r}) \/ UNCHANGED Lifecycle!vars
  <2>1. tx[r] \in TxState /\ tx[r].kind = "duplicate" /\ tx' = [tx EXCEPT ![r] = NoTx]
    BY <1>0, <1>3 DEF DelayedWrite
  <2>2. \A x \in RunIds : tx'[x].kind = "insert" <=> tx[x].kind = "insert"
    BY <1>0, <2>1 DEF NoTx
  <2>3. PICK at \in tx[r].since .. now : WorkerWrite(r, t, at)
    BY <1>3 DEF DelayedWrite
  <2>4. at \in Nat
    BY <1>0, <2>1 DEF TxState
  <2> QED
    BY <2>2, <2>3, <2>4, WriteStep
<1>4. CASE \E limit \in Limits : recover_expired(limit)
  BY <1>4, RecoveryStep DEF Lifecycle!Next
<1> QED
  BY <1>1, <1>2, <1>3, <1>4 DEF Work, Lifecycle!Next

(* A cancellation withdraws a waiting task or ends an owned one. *)
LEMMA CancellationStep ==
    ASSUME StoreInv, NEW r \in RunIds, CancelLock(r)
    PROVE  Lifecycle!Withdraw(r) \/ Lifecycle!Release({r})
<1> DEFINE row == Finished(runs[r], "cancelled", "none", now)
<1>0. r \in DOMAIN runs /\ tx[r].kind = "none" /\ runs[r].state \in {"pending", "running"}
  BY DEF CancelLock, CancelWins, Unlocked
<1>1. /\ r \in Committed /\ runs[r] \in RunRow /\ TypeOK /\ now \in Nat
      /\ runs' = [runs EXCEPT ![r] = row] /\ issued' = issued /\ spent' = spent /\ tx' = tx
  <2>1. r \in Committed
    BY <1>0 DEF Committed
  <2>2. runs[r] \in RunRow /\ TypeOK /\ now \in Nat
    BY <1>0 DEF StoreInv, TypeOK
  <2> QED
    BY <2>1, <2>2 DEF CancelLock
<1>2. /\ row.attempt_count = runs[r].attempt_count /\ row.options = runs[r].options
      /\ row.lease_token = Null /\ row.state = "cancelled"
  BY <1>1 DEF Finished, RunRow
<1> HIDE DEF row
<1>3. r \in Committed' /\ runs'[r] = row /\ \A x \in RunIds \ {r} : SameRow(x)
  BY <1>1 DEF Committed, SameRow
<1>4. \A x \in RunIds \ {r} : TaskOf(x)' = TaskOf(x)
  BY <1>3, SameTasks
<1>5. CASE runs[r].state = "running"
  <2>1. LeaseEnds({r})
    BY <1>1, <1>2, <1>3, <1>5 DEF LeaseEnds, Terminal
  <2> QED
    BY <1>1, <1>4, <2>1, ReleaseStep
<1>6. CASE runs[r].state = "pending"
  <2>1. TaskOf(r) = TaskRow(runs[r]) /\ TaskOf(r)' = TaskRow(row)
    BY <1>1, <1>3 DEF TaskOf
  <2>2. TaskOf(r).phase = "waiting"
    BY <1>6, <2>1 DEF TaskRow, PhaseOf
  <2>3. TaskOf(r)' = Lifecycle!Moved(r, "cancelled")
    BY <1>2, <2>1 DEF TaskRow, PhaseOf, Lifecycle!Moved, Lifecycle!Task
  <2> DEFINE new == [y \in {r} |-> Lifecycle!Moved(r, "cancelled")]
  <2>4. \A x \in {r} : TaskOf(x)' = new[x]
    BY <2>3
  <2>5. Lifecycle!Become({r}, new)
    BY <1>4, <2>4, BecomeStep
  <2> QED
    BY <1>1, <2>2, <2>5 DEF Lifecycle!Withdraw
<1> QED
  BY <1>0, <1>5, <1>6

(* Retention forgets tasks that have ended. *)
LEMMA RetentionStep ==
    ASSUME StoreInv, NEW before, NEW limit \in Limits, prune_terminal(before, limit)
    PROVE  \E S \in SUBSET RunIds : Lifecycle!Forget(S)
<1>1. PICK doomed \in SUBSET Prunable(before) :
        /\ runs' = [r \in DOMAIN runs \ doomed |-> runs[r]]
        /\ spent' = spent \cup doomed
        /\ UNCHANGED <<issued, tx, cancel, now>>
  BY DEF prune_terminal
<1>2. doomed \subseteq Committed /\ doomed \subseteq RunIds
  BY DEF Prunable, Committed, StoreInv, TypeOK
<1>3. \A r \in RunIds \ doomed : SameRow(r)
  BY <1>1 DEF Committed, SameRow
<1>4. \A r \in RunIds \ doomed : TaskOf(r)' = TaskOf(r)
  BY <1>3, SameTasks
<1> DEFINE new == [r \in doomed |-> Lifecycle!Gone]
<1>5. \A r \in doomed : TaskOf(r)' = new[r]
  BY <1>1 DEF Committed, TaskOf, NoTask, Lifecycle!Gone, Lifecycle!Task
<1>6. \A r \in doomed : TaskOf(r).phase \in Lifecycle!Ends
  BY <1>2 DEF Prunable, TaskOf, TaskRow, PhaseOf, Terminal, Lifecycle!Ends
<1>7. Lifecycle!Become(doomed, new)
  BY <1>2, <1>4, <1>5, BecomeStep
<1>8. Lifecycle!Forget(doomed)
  BY <1>1, <1>2, <1>6, <1>7 DEF Lifecycle!Forget
<1> QED
  BY <1>2, <1>8

(* Every step of the store is a step of the lifecycle, or unseen. *)
LEMMA LifecycleStep ==
    ASSUME StoreInv, SpentIds, [Next]_vars
    PROVE  [Lifecycle!Next]_(Lifecycle!vars)
<1>1. TypeOK'
  BY TypeStep DEF StoreInv
<1>2. ASSUME UNCHANGED <<runs, issued, spent, tx>>
      PROVE  UNCHANGED Lifecycle!vars
  <2>1. \A r \in RunIds : SameRow(r)
    BY <1>2 DEF SameRow, Committed
  <2> QED
    BY <1>2, <2>1, UnseenRows
<1>3. CASE Administer
  <2>1. ASSUME NEW r \in RunIds,
               CancelStart(r) \/ CancelMiss(r) \/ CancelProbe(r) \/ CancelError(r)
        PROVE  UNCHANGED Lifecycle!vars
    BY <1>2, <2>1 DEF CancelStart, CancelMiss, CancelProbe, CancelError
  <2>2. ASSUME NEW r \in RunIds, CancelLock(r)
        PROVE  Lifecycle!Next
    BY <2>2, CancellationStep DEF Lifecycle!Next
  <2>3. ASSUME NEW before, NEW limit \in Limits, prune_terminal(before, limit)
        PROVE  Lifecycle!Next
    BY <2>3, RetentionStep DEF Lifecycle!Next
  <2> QED
    BY <1>3, <2>1, <2>2, <2>3, CancellableAssumption DEF Administer
<1>4. CASE Tick \/ UNCHANGED vars
  BY <1>2, <1>4 DEF Tick, vars
<1> QED
  BY <1>1, <1>3, <1>4, ProducerStep, WorkStep DEF Next

(***************************************************************************)
(* The store implements the lifecycle: claims, retries, recovery,          *)
(* cancellation, retention and producers' transactions, in any order, give *)
(* each task one owner at a time, within its budget, and one end.          *)
(***************************************************************************)
THEOREM StoreImplementsLifecycle == Spec => LifecycleSpec
<1>1. Init => Lifecycle!Init /\ SpentIds
  <2> SUFFICES ASSUME Init PROVE Lifecycle!Init /\ SpentIds
    OBVIOUS
  <2>1. Committed = {} /\ spent = {} /\ issued = {}
    BY DEF Init, Committed
  <2>2. \A r \in RunIds : TaskOf(r) = Lifecycle!Absent
    BY <2>1 DEF TaskOf, NoTask, Lifecycle!Absent, Lifecycle!Task
  <2> QED
    BY <2>1, <2>2 DEF Lifecycle!Init, SpentIds
<1>2. StoreInv /\ SpentIds /\ [Next]_vars => SpentIds'
  BY SpentStep
<1>3. StoreInv /\ SpentIds /\ [Next]_vars => [Lifecycle!Next]_(Lifecycle!vars)
  BY LifecycleStep
<1> QED
  BY <1>1, <1>2, <1>3, StoreInvariant, PTL DEF Spec, LifecycleSpec, Lifecycle!Spec
=============================================================================
