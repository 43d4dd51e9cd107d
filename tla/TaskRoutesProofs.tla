-------------------------- MODULE TaskRoutesProofs --------------------------
(***************************************************************************)
(* Theorems about TaskRoutes, for every value of its constants: what a     *)
(* client was told about a task stays true, and the history it reads       *)
(* explains the state it has read.                                         *)
(***************************************************************************)
EXTENDS TaskRoutes, TaskStoreProofs, FiniteSetTheorems

(* Reading changes no table, and a request to cancel runs the statements   *)
(* of cancel: every step is a step of the store.                           *)
LEMMA RouteStep == [RouteNext]_routeVars => [Next]_vars
<1> SUFFICES ASSUME [RouteNext]_routeVars PROVE [Next]_vars
  OBVIOUS
<1>1. ASSUME NEW r \in RunIds, task_state(r) \/ task_attempts(r) \/ acquire_fails(r)
      PROVE  [Next]_vars
  BY <1>1 DEF task_state, task_attempts, acquire_fails, Tell
<1>2. ASSUME NEW r \in Cancellable, cancel_task(r)
      PROVE  [Next]_vars
  BY <1>2 DEF cancel_task, Next, Administer
<1>3. CASE Elsewhere
  BY <1>3 DEF Elsewhere, Next, Administer
<1>4. CASE UNCHANGED routeVars
  BY <1>4 DEF routeVars, vars
<1> QED
  BY <1>1, <1>2, <1>3, <1>4 DEF RouteNext

-----------------------------------------------------------------------------
(* A task that failed was claimed                                          *)

(* A row that becomes failed was running, and has the claims it had. *)
FailStep(r) ==
    runs'[r].state = "failed" =>
        \/ r \in DOMAIN runs /\ runs'[r] = runs[r]
        \/ /\ r \in DOMAIN runs /\ runs[r].state = "running"
           /\ runs'[r].attempt_count = runs[r].attempt_count

LEMMA WriteFails ==
    ASSUME TypeOK, NEW r \in RunIds, NEW t \in issued, NEW at \in Nat, WorkerWrite(r, t, at),
           NEW x \in DOMAIN runs'
    PROVE  FailStep(x)
<1>1. r \in DOMAIN runs /\ runs[r] \in RunRow /\ runs[r].state = "running"
  BY DEF WorkerWrite, finalize_run, fail_run, renew_lease, Owns, Committed, TypeOK
<1>2. \E row : runs' = [runs EXCEPT ![r] = row]
  BY DEF WorkerWrite, finalize_run, fail_run, renew_lease
<1>3. DOMAIN runs' = DOMAIN runs /\ (x # r => runs'[x] = runs[x])
  BY <1>2
<1>4. ASSUME NEW outcome \in {"completed", "failed"}, finalize_run(r, t, outcome, at)
      PROVE  runs'[r].attempt_count = runs[r].attempt_count
  <2>1. runs'[r] = Finished(runs[r], outcome,
                     IF outcome = "failed" THEN "job error" ELSE "none", at)
    BY <1>1, <1>4 DEF finalize_run
  <2> QED
    BY <1>1, <2>1 DEF Finished, RunRow
<1>5. ASSUME NEW retryable \in BOOLEAN, fail_run(r, t, retryable, at)
      PROVE  runs'[r].attempt_count = runs[r].attempt_count
  <2>1. \/ runs'[r] = Requeued(runs[r], at + runs[r].options.retry_backoff)
        \/ runs'[r] = Finished(runs[r], "failed", "job error", at)
    BY <1>1, <1>5 DEF fail_run
  <2> QED
    BY <1>1, <2>1 DEF Finished, Requeued, RunRow
<1>6. ASSUME renew_lease(r, t, at)
      PROVE  runs'[r].attempt_count = runs[r].attempt_count
  BY <1>1, <1>6 DEF renew_lease, RunRow
<1>7. runs'[r].attempt_count = runs[r].attempt_count
  BY <1>4, <1>5, <1>6 DEF WorkerWrite
<1> QED
  BY <1>1, <1>3, <1>7 DEF FailStep

LEMMA FailsStep ==
    ASSUME StoreInv, [Next]_vars, NEW x \in DOMAIN runs'
    PROVE  FailStep(x)
<1>0. TypeOK /\ now \in Nat /\ runs \in [DOMAIN runs -> RunRow] /\ tx \in [RunIds -> TxState]
  BY DEF StoreInv, TypeOK
<1>1. CASE Produce
  <2>1. ASSUME NEW r \in FreeIds, NEW opt \in Options, NEW at \in StartTimes \cup {Null},
               EnqueueInsert(r, opt, at)
        PROVE  FailStep(x)
    BY <2>1 DEF EnqueueInsert, NewRow, FailStep
  <2>2. ASSUME NEW r \in RunIds,
               \/ \E opt \in Options : EnqueueDuplicate(r, opt)
               \/ ProducerCommit(r) \/ RollbackInsert(r) \/ RollbackDuplicate(r)
        PROVE  FailStep(x)
    BY <2>2 DEF EnqueueDuplicate, ProducerCommit, RollbackInsert, RollbackDuplicate, FailStep
  <2> QED
    BY <1>1, <2>1, <2>2 DEF Produce
<1>2. CASE Work
  <2>1. ASSUME NEW names \in NameSets, NEW limit \in Limits, ClaimBatch(names, limit)
        PROVE  FailStep(x)
    <3>1. PICK batch \in SUBSET Eligible(names) :
            \E token \in [batch -> FreshTokens], at \in [batch -> ClaimClocks(batch)] :
              Claim(batch, token, at)
      BY <2>1 DEF ClaimBatch, ClaimAmong, Batches
    <3>2. PICK token \in [batch -> FreshTokens], at \in [batch -> ClaimClocks(batch)] :
            Claim(batch, token, at)
      BY <3>1
    <3>3. /\ x \in DOMAIN runs
          /\ x \notin batch => runs'[x] = runs[x]
          /\ x \in batch => runs'[x] = Leased(runs[x], token[x], at[x])
      BY <3>2 DEF Claim
    <3>4. x \in batch => token[x] \in Tokens /\ at[x] \in Nat
      BY <1>0, <3>2 DEF FreshTokens, ClaimClocks
    <3>5. x \in batch => runs'[x].state = "running"
      BY <1>0, <3>3, <3>4, LeasedType
    <3> QED
      BY <3>3, <3>5 DEF FailStep
  <2>2. ASSUME NEW r \in RunIds, NEW t \in issued, DirectWrite(r, t) \/ DelayedWrite(r, t)
        PROVE  FailStep(x)
    <3>1. tx[r].since \in Nat
      BY <1>0 DEF TxState
    <3>2. \E at \in Nat : WorkerWrite(r, t, at)
      BY <1>0, <2>2, <3>1 DEF DirectWrite, DelayedWrite
    <3> QED
      BY <1>0, <3>2, WriteFails
  <2>3. ASSUME NEW limit \in Limits, recover_expired(limit)
        PROVE  FailStep(x)
    <3>1. PICK batch \in SUBSET {r \in Committed : Unlocked(r) /\ Lapsed(r)} :
            runs' = [r \in DOMAIN runs |->
                       IF r \in {y \in batch : HasOpenAttempt(runs[y].lease_token)}
                       THEN Recovered(runs[r]) ELSE runs[r]]
      BY <2>3 DEF recover_expired
    <3>2. /\ x \in DOMAIN runs
          /\ \/ runs'[x] = runs[x]
             \/ runs'[x] = Recovered(runs[x]) /\ runs[x].state = "running"
      BY <3>1 DEF Lapsed
    <3>3. Recovered(runs[x]).attempt_count = runs[x].attempt_count
      BY <1>0, <3>2 DEF Recovered, Requeued, Finished, RunRow
    <3> QED
      BY <3>2, <3>3 DEF FailStep
  <2> QED
    BY <1>2, <2>1, <2>2, <2>3 DEF Work
<1>3. CASE Administer
  <2>1. ASSUME NEW r \in Cancellable, CancelLock(r)
        PROVE  FailStep(x)
    <3>1. /\ r \in DOMAIN runs /\ DOMAIN runs' = DOMAIN runs
          /\ runs'[r] = Finished(runs[r], "cancelled", "none", now)
          /\ x # r => runs'[x] = runs[x]
      BY <2>1 DEF CancelLock
    <3>2. runs'[r].state # "failed"
      BY <1>0, <3>1 DEF Finished, RunRow
    <3> QED
      BY <3>1, <3>2 DEF FailStep
  <2> QED
    BY <1>3, <2>1 DEF Administer, CancelStart, CancelMiss, CancelProbe, CancelError,
                      prune_terminal, FailStep
<1>4. CASE Tick \/ UNCHANGED vars
  BY <1>4 DEF Tick, vars, FailStep
<1> QED
  BY <1>1, <1>2, <1>3, <1>4 DEF Next

LEMMA FailedStep == StoreInv /\ FailedWasClaimed /\ [Next]_vars => FailedWasClaimed'
<1> SUFFICES ASSUME StoreInv, FailedWasClaimed, [Next]_vars, NEW r \in DOMAIN runs',
                    runs'[r].state = "failed"
             PROVE  runs'[r].attempt_count > 0
  BY DEF FailedWasClaimed
<1>1. FailStep(r)
  BY FailsStep
<1>2. r \in DOMAIN runs /\ runs[r].state = "running" => runs[r].attempt_count > 0
  BY DEF StoreInv, RowStates, RowOK
<1> QED
  BY <1>1, <1>2 DEF FailStep, FailedWasClaimed

-----------------------------------------------------------------------------
(* What was told stays true                                                *)

(* The clauses of ToldStaysTrue about one task, for a view of it. *)
ViewTrue(r, v) ==
    v.state # Null =>
        /\ r \in Committed \cup spent
        /\ v.code = 404 => r \in spent
        /\ v.state.state \in Terminal /\ r \notin spent => state_of(runs[r]) = v.state

(* A view that was true stays true, whatever else happens. *)
LEMMA ViewKept ==
    ASSUME StoreInv, [Next]_vars, NEW r \in RunIds, NEW v, ViewTrue(r, v)
    PROVE  ViewTrue(r, v)'
<1> SUFFICES ASSUME v.state # Null
             PROVE  /\ r \in Committed' \cup spent'
                    /\ v.code = 404 => r \in spent'
                    /\ v.state.state \in Terminal /\ r \notin spent' =>
                         state_of(runs'[r]) = v.state
  BY DEF ViewTrue, state_of
<1>1. /\ spent \subseteq spent'
      /\ \A x \in DOMAIN runs : x \in DOMAIN runs' \/ x \in spent'
      /\ \A x \in Committed : x \in Committed' \/ x \in spent'
  BY CommittedStays
<1>2. ASSUME v.state.state \in Terminal, r \notin spent'
      PROVE  state_of(runs'[r]) = v.state
  <2>1. r \notin spent /\ r \in Committed /\ state_of(runs[r]) = v.state
    BY <1>1, <1>2 DEF ViewTrue
  <2>2. runs[r].state \in Terminal
    BY <1>2, <2>1 DEF state_of
  <2>3. r \in DOMAIN runs \cap DOMAIN runs'
    BY <1>1, <1>2, <2>1 DEF Committed
  <2>4. runs'[r] = runs[r]
    BY <2>2, <2>3, RowsStep DEF RowStep, Terminal
  <2> QED
    BY <2>1, <2>4
<1> QED
  BY <1>1, <1>2 DEF ViewTrue

-----------------------------------------------------------------------------
(* The history explains the state                                          *)

(* The clauses of HistoryExplains about one task, for a view of it. *)
HistoryTrue(r, v) ==
    (v.state # Null /\ v.history # Null) =>
        /\ DOMAIN v.history = 1 .. Cardinality(DOMAIN v.history)
        /\ \A n \in DOMAIN v.history : n # Cardinality(DOMAIN v.history)
             => v.history[n] \in {"Failed", "Expired"}
        /\ (v.state.state \in Terminal /\ DOMAIN v.history # {}) =>
             Explains(v.state.state, v.history[Cardinality(DOMAIN v.history)])
        /\ (v.state.state \in {"completed", "failed"} /\ DOMAIN v.history = {}) => r \in spent

(* task_attempts reads one attempt for every claim, with its outcome. *)
LEMMA HistoryFacts ==
    ASSUME StoreInv, NEW r \in RunIds
    PROVE  /\ r \notin Committed => DOMAIN History(r) = {}
           /\ r \in Committed =>
                /\ DOMAIN History(r) = 1 .. runs[r].attempt_count
                /\ \A t \in DOMAIN attempts : attempts[t].run_id = r =>
                     History(r)[attempts[t].attempt_number] = StateOfAttempt(attempts[t].outcome)
<1> DEFINE mine == {t \in DOMAIN attempts : attempts[t].run_id = r /\ r \in Committed}
<1> DEFINE Of(n) == CHOOSE t \in mine : attempts[t].attempt_number = n
<1>0. TypeOK /\ LedgerKeys
  BY DEF StoreInv, AttemptLedger
<1>1. DOMAIN History(r) = {attempts[t].attempt_number : t \in mine}
      /\ \A n \in DOMAIN History(r) : History(r)[n] = StateOfAttempt(attempts[Of(n)].outcome)
  BY DEF History
<1>2. r \notin Committed => mine = {}
  OBVIOUS
<1>3. ASSUME r \in Committed
      PROVE  DOMAIN History(r) = 1 .. runs[r].attempt_count
  <2>1. r \in DOMAIN runs /\ runs[r].attempt_count \in Nat
    BY <1>0, <1>3 DEF Committed, TypeOK, RunRow
  <2>2. ASSUME NEW t \in mine
        PROVE  attempts[t].attempt_number \in 1 .. runs[r].attempt_count
    <3>1. attempts[t] \in AttemptRow /\ attempts[t].run_id = r
      BY <1>0, <2>2 DEF TypeOK
    <3>2. attempts[t].attempt_number \in Nat \ {0}
      BY <3>1 DEF AttemptRow
    <3>3. attempts[t].attempt_number <= runs[r].attempt_count
      BY <1>0, <2>2, <3>1 DEF LedgerKeys
    <3> QED
      BY <2>1, <3>2, <3>3
  <2>3. ASSUME NEW n \in 1 .. runs[r].attempt_count
        PROVE  n \in {attempts[t].attempt_number : t \in mine}
    BY <1>0, <1>3, <2>1, <2>3 DEF LedgerKeys, Recorded
  <2> QED
    BY <1>1, <2>2, <2>3
<1>4. ASSUME r \in Committed, NEW t \in DOMAIN attempts, attempts[t].run_id = r
      PROVE  History(r)[attempts[t].attempt_number] = StateOfAttempt(attempts[t].outcome)
  <2> DEFINE u == Of(attempts[t].attempt_number)
  <2>1. t \in mine
    BY <1>4
  <2>2. u \in mine /\ attempts[u].attempt_number = attempts[t].attempt_number
    BY <2>1
  <2>3. u = t
    BY <1>0, <2>1, <2>2 DEF LedgerKeys
  <2>4. attempts[t].attempt_number \in DOMAIN History(r)
    BY <1>1, <2>1
  <2> QED
    BY <1>1, <2>3, <2>4
<1> QED
  BY <1>1, <1>2, <1>3, <1>4

(* What is shown of an attempt that has ended. *)
LEMMA AttemptStates ==
    ASSUME NEW outcome \in {"open", "completed", "failed", "expired", "cancelled"}
    PROVE  /\ outcome = "completed" => StateOfAttempt(outcome) = "Completed"
           /\ outcome \in {"failed", "expired"} => StateOfAttempt(outcome) \in {"Failed", "Expired"}
           /\ outcome = "cancelled" => StateOfAttempt(outcome) = "Cancelled"
BY DEF StateOfAttempt

LEMMA HistoryRead ==
    ASSUME StoreInv, SpentIds, FailedWasClaimed, NEW r \in RunIds, NEW v, ViewTrue(r, v),
           v.history = History(r)
    PROVE  HistoryTrue(r, v)
<1> SUFFICES ASSUME v.state # Null PROVE HistoryTrue(r, v)
  BY DEF HistoryTrue
<1>0. TypeOK /\ LedgerKeys /\ LedgerOutcomes /\ LiveAttempt
  BY DEF StoreInv, AttemptLedger
<1>1. CASE r \notin Committed
  <2>1. DOMAIN v.history = {} /\ r \in spent
    BY <1>1, HistoryFacts DEF ViewTrue
  <2>2. Cardinality(DOMAIN v.history) = 0
    BY <2>1, FS_EmptySet
  <2>3. DOMAIN v.history = 1 .. Cardinality(DOMAIN v.history)
    BY <2>1, <2>2
  <2> QED
    BY <2>1, <2>3 DEF HistoryTrue
<1>2. CASE r \in Committed
  <2> DEFINE last == runs[r].attempt_count
  <2>1. r \in DOMAIN runs /\ last \in Nat /\ r \notin spent
    BY <1>0, <1>2 DEF Committed, TypeOK, RunRow, SpentIds
  <2>2. DOMAIN v.history = 1 .. last
    BY <1>2, HistoryFacts
  <2>3. Cardinality(DOMAIN v.history) = last
    BY <2>1, <2>2, FS_Interval
  <2>4. ASSUME NEW n \in 1 .. last
        PROVE  \E t \in DOMAIN attempts :
                 /\ attempts[t].run_id = r /\ attempts[t].attempt_number = n
                 /\ v.history[n] = StateOfAttempt(attempts[t].outcome)
                 /\ OutcomeFits(attempts[t], runs[r])
                 /\ attempts[t].outcome \in {"open", "completed", "failed", "expired",
                                             "cancelled"}
    <3>1. PICK t \in DOMAIN attempts : attempts[t].run_id = r /\ attempts[t].attempt_number = n
      BY <1>0, <2>1, <2>4 DEF LedgerKeys, Recorded
    <3>2. v.history[n] = StateOfAttempt(attempts[t].outcome)
      BY <1>2, <3>1, HistoryFacts
    <3>3. OutcomeFits(attempts[t], runs[r])
      BY <1>0, <3>1 DEF LedgerOutcomes
    <3>4. attempts[t].outcome \in {"open", "completed", "failed", "expired", "cancelled"}
      BY <1>0, <3>1 DEF TypeOK, AttemptRow
    <3> QED
      BY <3>1, <3>2, <3>3, <3>4
  <2>5. ASSUME NEW n \in 1 .. last, n # last
        PROVE  v.history[n] \in {"Failed", "Expired"}
    <3>1. n < last
      BY <2>1, <2>5
    <3> QED
      BY <2>4, <3>1, AttemptStates DEF OutcomeFits
  <2>6. ASSUME v.state.state \in Terminal
        PROVE  runs[r].state = v.state.state
    BY <2>1, <2>6 DEF ViewTrue, state_of
  <2>7. ASSUME v.state.state \in Terminal, last # 0
        PROVE  Explains(v.state.state, v.history[last])
    <3>1. last \in 1 .. last
      BY <2>1, <2>7
    <3>2. PICK t \in DOMAIN attempts :
            /\ attempts[t].run_id = r /\ attempts[t].attempt_number = last
            /\ v.history[last] = StateOfAttempt(attempts[t].outcome)
            /\ OutcomeFits(attempts[t], runs[r])
            /\ attempts[t].outcome \in {"open", "completed", "failed", "expired", "cancelled"}
      BY <2>4, <3>1
    <3>3. attempts[t].outcome # "open"
      BY <1>0, <2>6, <2>7, <3>2 DEF LiveAttempt, Holds, Terminal
    <3>4. CASE v.state.state = "completed"
      <4>1. PICK u \in DOMAIN attempts : /\ attempts[u].run_id = r
                                         /\ attempts[u].attempt_number = last
                                         /\ attempts[u].outcome = "completed"
        BY <1>0, <2>1, <2>6, <3>4 DEF LedgerOutcomes, CompletedOnRecord, Terminal
      <4>2. u = t
        BY <1>0, <3>2, <4>1 DEF LedgerKeys
      <4>3. v.history[last] = "Completed"
        BY <3>2, <4>1, <4>2, AttemptStates
      <4> QED
        BY <3>4, <4>3 DEF Explains
    <3>5. CASE v.state.state = "failed"
      <4>1. attempts[t].outcome \in {"failed", "expired"}
        BY <2>6, <2>7, <3>2, <3>3, <3>5 DEF OutcomeFits
      <4>2. v.history[last] \in {"Failed", "Expired"}
        BY <3>2, <4>1, AttemptStates
      <4> QED
        BY <3>5, <4>2 DEF Explains
    <3>6. CASE v.state.state = "cancelled"
      <4>1. attempts[t].outcome \in {"failed", "expired", "cancelled"}
        BY <2>6, <2>7, <3>2, <3>3, <3>6 DEF OutcomeFits
      <4>2. v.history[last] \in {"Cancelled", "Failed", "Expired"}
        BY <3>2, <4>1, AttemptStates
      <4> QED
        BY <3>6, <4>2 DEF Explains
    <3> QED
      BY <2>7, <3>4, <3>5, <3>6 DEF Terminal
  <2>8. ASSUME v.state.state \in {"completed", "failed"}
        PROVE  last # 0
    <3>1. runs[r].state = v.state.state
      BY <2>6, <2>8 DEF Terminal
    <3>2. CASE v.state.state = "completed"
      <4>1. PICK u \in DOMAIN attempts : attempts[u].attempt_number = last
        BY <1>0, <2>1, <3>1, <3>2 DEF LedgerOutcomes, CompletedOnRecord
      <4> QED
        BY <1>0, <4>1 DEF TypeOK, AttemptRow
    <3>3. CASE v.state.state = "failed"
      BY <2>1, <3>1, <3>3 DEF FailedWasClaimed
    <3> QED
      BY <2>8, <3>2, <3>3
  <2>9. DOMAIN v.history = {} <=> last = 0
    BY <2>1, <2>2
  <2> HIDE DEF last
  <2> QED
    BY <2>2, <2>3, <2>5, <2>7, <2>8, <2>9 DEF HistoryTrue
<1> QED
  BY <1>1, <1>2

(* A history that explained the state explains it for good: of the tables, *)
(* it speaks only of removed tasks, and those stay removed.                *)
LEMMA HistoryKept ==
    ASSUME StoreInv, [Next]_vars, NEW r \in RunIds, NEW v, HistoryTrue(r, v)
    PROVE  HistoryTrue(r, v)'
<1>1. spent \subseteq spent'
  BY CommittedStays
<1> QED
  BY <1>1 DEF HistoryTrue

-----------------------------------------------------------------------------
(* Every response                                                          *)

(* The answers to the clients that asked about other tasks, or nothing new *)
(* was said at all: what they know stays true.                             *)
LEMMA OthersKept ==
    ASSUME StoreInv, RouteInv, [Next]_vars, NEW r \in RunIds, told'[r] = told[r]
    PROVE  /\ ViewTrue(r, told[r])' /\ HistoryTrue(r, told[r])'
           /\ told'[r] = [state |-> told'[r].state, history |-> told'[r].history,
                          code |-> told'[r].code]
<1>1. PICK v : v = told[r]
  OBVIOUS
<1>2. ViewTrue(r, v) /\ HistoryTrue(r, v)
  BY <1>1 DEF RouteInv, ToldStaysTrue, HistoryExplains, ViewTrue, HistoryTrue
<1>3. ViewTrue(r, v)' /\ HistoryTrue(r, v)'
  BY <1>2, ViewKept, HistoryKept
<1>4. told'[r] = v
  BY <1>1
<1>5. ViewTrue(r, told[r])' /\ HistoryTrue(r, told[r])'
  BY <1>3, <1>4 DEF ViewTrue, HistoryTrue
<1> QED
  BY <1>5 DEF RouteInv, ToldShape

LEMMA NothingTold ==
    ASSUME StoreInv, RouteInv, [Next]_vars, UNCHANGED told
    PROVE  ToldShape' /\ ToldStaysTrue' /\ HistoryExplains'
<1>1. ASSUME NEW r \in RunIds
      PROVE  ViewTrue(r, told[r])' /\ HistoryTrue(r, told[r])'
  BY OthersKept
<1> QED
  BY <1>1 DEF RouteInv, ToldShape, ToldStaysTrue, HistoryExplains, ViewTrue, HistoryTrue

(* One client is answered, with a view that is true of the tables after    *)
(* the step.                                                               *)
LEMMA OneTold ==
    ASSUME StoreInv, RouteInv, [Next]_vars, NEW r \in RunIds, NEW v,
           v = [state |-> v.state, history |-> v.history, code |-> v.code],
           told' = [told EXCEPT ![r] = v], ViewTrue(r, v)', HistoryTrue(r, v)'
    PROVE  ToldShape' /\ ToldStaysTrue' /\ HistoryExplains'
<1>1. told = [x \in RunIds |-> told[x]]
  BY DEF RouteInv, ToldShape
<1>2. told' = [x \in RunIds |-> IF x = r THEN v ELSE told[x]]
  BY <1>1
<1>3. told' = [x \in RunIds |-> told'[x]]
  BY <1>2
<1>4. ASSUME NEW x \in RunIds
      PROVE  /\ ViewTrue(x, told[x])' /\ HistoryTrue(x, told[x])'
             /\ told'[x] = [state |-> told'[x].state, history |-> told'[x].history,
                            code |-> told'[x].code]
  <2>1. CASE x = r
    <3>1. told'[x] = v
      BY <1>2, <2>1
    <3> QED
      BY <2>1, <3>1 DEF ViewTrue, HistoryTrue
  <2>2. CASE x # r
    BY <1>2, <2>2, OthersKept
  <2> QED
    BY <2>1, <2>2
<1> QED
  BY <1>3, <1>4 DEF ToldShape, ToldStaysTrue, HistoryExplains, ViewTrue, HistoryTrue

(* Of a view with another code, the rest is the same. *)
LEMMA NewCode ==
    ASSUME RouteInv, NEW r \in RunIds, NEW c, NEW w, w = [told[r] EXCEPT !.code = c]
    PROVE  w = [state |-> told[r].state, history |-> told[r].history, code |-> c]
<1>1. \E s, h, k : told[r] = [state |-> s, history |-> h, code |-> k]
  BY DEF RouteInv, ToldShape
<1>2. PICK s, h, k : told[r] = [state |-> s, history |-> h, code |-> k]
  BY <1>1
<1>3. PICK u : u = told[r]
  OBVIOUS
<1>4. u = [state |-> s, history |-> h, code |-> k]
  BY <1>2, <1>3
<1>5. [u EXCEPT !.code = c] = [state |-> s, history |-> h, code |-> c]
  BY <1>4
<1>6. u.state = s /\ u.history = h
  BY <1>4
<1> QED
  BY <1>3, <1>5, <1>6

(* A response without news of the task: only the code changes, and it is   *)
(* 404 only when the task is not stored.                                   *)
LEMMA CodeTold ==
    ASSUME StoreInv, RouteInv, [Next]_vars, NEW r \in RunIds, NEW c, NEW w,
           w = [told[r] EXCEPT !.code = c], told' = [told EXCEPT ![r] = w],
           c = 404 => r \notin Committed
    PROVE  ToldShape' /\ ToldStaysTrue' /\ HistoryExplains'
<1>1. PICK u : u = told[r]
  OBVIOUS
<1>2. ViewTrue(r, u) /\ HistoryTrue(r, u)
  BY <1>1 DEF RouteInv, ToldStaysTrue, HistoryExplains, ViewTrue, HistoryTrue
<1>3. w = [state |-> u.state, history |-> u.history, code |-> c]
  BY <1>1, NewCode
<1>4. w.state = u.state /\ w.history = u.history /\ w.code = c
  BY <1>3
<1>5. ViewTrue(r, w)
  BY <1>2, <1>4 DEF ViewTrue
<1>6. HistoryTrue(r, w)
  BY <1>2, <1>4 DEF HistoryTrue
<1>7. ViewTrue(r, w)' /\ HistoryTrue(r, w)'
  BY <1>5, <1>6, ViewKept, HistoryKept
<1>8. w = [state |-> w.state, history |-> w.history, code |-> w.code]
  BY <1>3, <1>4
<1> QED
  BY <1>7, <1>8, OneTold

(* GET /tasks/:id. *)
LEMMA StateTold ==
    ASSUME StoreInv, RouteInv, NEW r \in RunIds, task_state(r)
    PROVE  ToldShape' /\ ToldStaysTrue' /\ HistoryExplains'
<1>0. UNCHANGED vars
  BY DEF task_state, Tell
<1>1. CASE Reads(r) /\ HasColumns(runs[r])
  <2>1. PICK v : v = [state |-> state_of(runs[r]), history |-> Null, code |-> 200]
    OBVIOUS
  <2>2. told' = [told EXCEPT ![r] = v]
    BY <1>1, <2>1 DEF task_state, Tell
  <2>3. v.state = state_of(runs[r]) /\ v.history = Null /\ v.code = 200
    BY <2>1
  <2>4. ViewTrue(r, v)
    BY <1>1, <2>3 DEF ViewTrue, Reads
  <2>5. HistoryTrue(r, v)
    BY <2>3 DEF HistoryTrue
  <2>6. ViewTrue(r, v)' /\ HistoryTrue(r, v)'
    BY <1>0, <2>4, <2>5, ViewKept, HistoryKept
  <2>7. v = [state |-> v.state, history |-> v.history, code |-> v.code]
    BY <2>1
  <2> QED
    BY <1>0, <2>2, <2>6, <2>7, OneTold
<1>2. CASE Reads(r) /\ ~HasColumns(runs[r])
  <2>0. PICK c : c = 500
    OBVIOUS
  <2>1. PICK w : w = [told[r] EXCEPT !.code = c]
    OBVIOUS
  <2>2. told' = [told EXCEPT ![r] = w]
    BY <1>2, <2>0, <2>1 DEF task_state, Tell
  <2>3. c # 404
    BY <2>0
  <2> QED
    BY <1>0, <2>1, <2>2, <2>3, CodeTold
<1>3. CASE ~Reads(r)
  <2>1. PICK w : w = [told[r] EXCEPT !.code = 404]
    OBVIOUS
  <2>2. told' = [told EXCEPT ![r] = w]
    BY <1>3, <2>1 DEF task_state, Tell
  <2>3. r \notin Committed
    BY <1>3 DEF Reads
  <2> QED
    BY <1>0, <2>1, <2>2, <2>3, CodeTold
<1> QED
  BY <1>1, <1>2, <1>3

(* task_attempts. *)
LEMMA HistoryTold ==
    ASSUME StoreInv, SpentIds, RouteInv, NEW r \in RunIds, task_attempts(r)
    PROVE  ToldShape' /\ ToldStaysTrue' /\ HistoryExplains'
<1>0. UNCHANGED vars /\ told' = [told EXCEPT ![r] = [told[r] EXCEPT !.history = History(r)]]
  BY DEF task_attempts, Tell
<1>1. PICK u : u = told[r]
  OBVIOUS
<1>2. PICK s, h, k : u = [state |-> s, history |-> h, code |-> k]
  BY <1>1 DEF RouteInv, ToldShape
<1>3. PICK v : v = [u EXCEPT !.history = History(r)]
  OBVIOUS
<1>4. v = [state |-> s, history |-> History(r), code |-> k]
  BY <1>2, <1>3
<1>5. v.state = u.state /\ v.history = History(r) /\ v.code = u.code
  BY <1>2, <1>4
<1>6. ViewTrue(r, v)
  <2>1. ViewTrue(r, u)
    BY <1>1 DEF RouteInv, ToldStaysTrue, ViewTrue
  <2> QED
    BY <1>5, <2>1 DEF ViewTrue
<1>7. HistoryTrue(r, v)
  BY <1>5, <1>6, HistoryRead DEF RouteInv
<1>8. ViewTrue(r, v)' /\ HistoryTrue(r, v)'
  BY <1>0, <1>6, <1>7, ViewKept, HistoryKept
<1>9. v = [state |-> v.state, history |-> v.history, code |-> v.code]
  BY <1>4
<1>10. told' = [told EXCEPT ![r] = v]
  BY <1>0, <1>1, <1>3
<1> QED
  BY <1>0, <1>8, <1>9, <1>10, OneTold

(* POST /tasks/:id/cancel. *)
LEMMA CancelTold ==
    ASSUME StoreInv, RouteInv, NEW r \in Cancellable, cancel_task(r)
    PROVE  ToldShape' /\ ToldStaysTrue' /\ HistoryExplains'
<1>0. r \in RunIds /\ TypeOK
  BY CancellableAssumption DEF StoreInv
<1>1. ASSUME NEW c, c = 404 => r \notin Committed, told' = [told EXCEPT ![r].code = c],
             [Next]_vars
      PROVE  ToldShape' /\ ToldStaysTrue' /\ HistoryExplains'
  <2>1. PICK w : w = [told[r] EXCEPT !.code = c]
    OBVIOUS
  <2>2. told' = [told EXCEPT ![r] = w]
    BY <1>1, <2>1
  <2> QED
    BY <1>0, <1>1, <2>1, <2>2, CodeTold
<1>2. CASE CancelLock(r) /\ told' = [told EXCEPT ![r].code = 204]
  <2>1. [Next]_vars
    BY <1>2 DEF Next, Administer
  <2>2. PICK c : c = 204
    OBVIOUS
  <2>3. c # 404 /\ told' = [told EXCEPT ![r].code = c]
    BY <1>2, <2>2
  <2> QED
    BY <1>1, <2>1, <2>3
<1>3. CASE /\ CancelProbe(r)
           /\ told' = [told EXCEPT ![r].code =
                         IF cancel'[r].phase = "NotFound" THEN 404 ELSE 204]
  <2>1. cancel'[r].phase = IF r \in Committed THEN "AlreadyTerminal" ELSE "NotFound"
    BY <1>0, <1>3 DEF CancelProbe, Cancelling, TypeOK, CancelState
  <2>2. PICK c : c = IF cancel'[r].phase = "NotFound" THEN 404 ELSE 204
    OBVIOUS
  <2>3. c = 404 => r \notin Committed
    BY <2>1, <2>2
  <2>4. told' = [told EXCEPT ![r].code = c]
    BY <1>3, <2>2
  <2> QED
    BY <1>1, <1>3, <2>3, <2>4 DEF Next, Administer
<1>4. CASE CancelError(r) /\ told' = [told EXCEPT ![r].code = 500]
  <2>1. [Next]_vars
    BY <1>4 DEF Next, Administer
  <2>2. PICK c : c = 500
    OBVIOUS
  <2>3. c # 404 /\ told' = [told EXCEPT ![r].code = c]
    BY <1>4, <2>2
  <2> QED
    BY <1>1, <2>1, <2>3
<1>5. CASE CancelLock(r) /\ told' = [told EXCEPT ![r].code = 500]
  <2>1. [Next]_vars
    BY <1>5 DEF Next, Administer
  <2>2. PICK c : c = 500
    OBVIOUS
  <2>3. c # 404 /\ told' = [told EXCEPT ![r].code = c]
    BY <1>5, <2>2
  <2> QED
    BY <1>1, <2>1, <2>3
<1> QED
  BY <1>2, <1>3, <1>4, <1>5 DEF cancel_task

-----------------------------------------------------------------------------
LEMMA RoutesStep ==
    StoreInv /\ SpentIds /\ RouteInv /\ [RouteNext]_routeVars
      => StoreInv' /\ SpentIds' /\ RouteInv'
<1> SUFFICES ASSUME StoreInv, SpentIds, RouteInv, [RouteNext]_routeVars
             PROVE  StoreInv' /\ SpentIds' /\ RouteInv'
  OBVIOUS
<1>0. [Next]_vars
  BY RouteStep
<1>1. StoreInv' /\ SpentIds' /\ FailedWasClaimed'
  BY <1>0, StoreStep, SpentStep, FailedStep DEF RouteInv
<1>2. ASSUME NEW r \in RunIds, task_state(r) \/ task_attempts(r)
      PROVE  ToldShape' /\ ToldStaysTrue' /\ HistoryExplains'
  BY <1>2, StateTold, HistoryTold
<1>3. ASSUME NEW r \in RunIds, acquire_fails(r)
      PROVE  ToldShape' /\ ToldStaysTrue' /\ HistoryExplains'
  <2>0. PICK c : c = 503
    OBVIOUS
  <2>1. PICK w : w = [told[r] EXCEPT !.code = c]
    OBVIOUS
  <2>2. told' = [told EXCEPT ![r] = w]
    BY <1>3, <2>0, <2>1 DEF acquire_fails, Tell
  <2>3. c # 404
    BY <2>0
  <2> QED
    BY <1>0, <2>1, <2>2, <2>3, CodeTold
<1>4. ASSUME NEW r \in Cancellable, cancel_task(r)
      PROVE  ToldShape' /\ ToldStaysTrue' /\ HistoryExplains'
  BY <1>4, CancelTold
<1>5. ASSUME Elsewhere \/ UNCHANGED routeVars
      PROVE  ToldShape' /\ ToldStaysTrue' /\ HistoryExplains'
  <2>1. UNCHANGED told
    BY <1>5 DEF Elsewhere, routeVars
  <2> QED
    BY <1>0, <2>1, NothingTold
<1>6. ToldShape' /\ ToldStaysTrue' /\ HistoryExplains'
  BY <1>2, <1>3, <1>4, <1>5 DEF RouteNext
<1> QED
  BY <1>1, <1>6 DEF RouteInv

LEMMA RouteInitInv == RouteInit => StoreInv /\ SpentIds /\ RouteInv
<1> SUFFICES ASSUME RouteInit PROVE StoreInv /\ SpentIds /\ RouteInv
  OBVIOUS
<1>1. Init /\ told = [r \in RunIds |-> Unread]
  BY DEF RouteInit
<1>2. StoreInv
  BY <1>1, StoreInitInv
<1>3. SpentIds /\ FailedWasClaimed
  BY <1>1 DEF Init, SpentIds, FailedWasClaimed
<1>4. \A r \in RunIds : told[r] = [state |-> Null, history |-> Null, code |-> 0]
  BY <1>1 DEF Unread
<1>5. ToldShape
  BY <1>1, <1>4 DEF ToldShape
<1>6. ToldStaysTrue /\ HistoryExplains
  BY <1>4 DEF ToldStaysTrue, HistoryExplains
<1> QED
  BY <1>2, <1>3, <1>5, <1>6 DEF RouteInv

(* The inductive invariant of the routes, on top of the store's. *)
THEOREM RouteInvariant == RouteSpec => [](StoreInv /\ SpentIds /\ RouteInv)
<1>1. RouteInit => StoreInv /\ SpentIds /\ RouteInv
  BY RouteInitInv
<1>2. StoreInv /\ SpentIds /\ RouteInv /\ [RouteNext]_routeVars
        => (StoreInv /\ SpentIds /\ RouteInv)'
  BY RoutesStep
<1> QED
  BY <1>1, <1>2, PTL DEF RouteSpec

(* The routes and the read model add no write of their own: a store that   *)
(* is watched and cancelled over HTTP (src/admin.rs) is the store, so that *)
(* every theorem about the store holds for it.                             *)
THEOREM RoutesImplementStore == RouteSpec => Spec
<1>1. RouteInit => Init
  BY DEF RouteInit
<1>2. [RouteNext]_routeVars => [Next]_vars
  BY RouteStep
<1> QED
  BY <1>1, <1>2, PTL DEF RouteSpec, Spec

(* What GET /tasks/:id told about a task stays true: it is 404 only after  *)
(* retention removed the task, and a final state never changes.            *)
THEOREM ToldIsTrue == RouteSpec => []ToldStaysTrue
<1>1. RouteInv => ToldStaysTrue
  BY DEF RouteInv
<1> QED
  BY <1>1, RouteInvariant, PTL

(* The attempts that task_attempts reads after a final state explain that  *)
(* state, however much happened between the two statements.                *)
THEOREM HistoriesExplain == RouteSpec => []HistoryExplains
<1>1. RouteInv => HistoryExplains
  BY DEF RouteInv
<1> QED
  BY <1>1, RouteInvariant, PTL
=============================================================================
