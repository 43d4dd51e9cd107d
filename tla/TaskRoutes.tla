----------------------------- MODULE TaskRoutes -----------------------------
(***************************************************************************)
(* Watching a task from outside: run_state and task_attempts of            *)
(* src/store/inspect.rs, and the routes GET /tasks/:id and                 *)
(* POST /tasks/:id/cancel of src/admin.rs, over the store of TaskStore.    *)
(*                                                                         *)
(* The state and the attempts of a task are two statements: what a client  *)
(* puts together comes from two moments, between which workers, recovery,  *)
(* cancellation and retention go on.                                       *)
(***************************************************************************)
EXTENDS TaskStore

VARIABLES
    told     \* what a client was last told about each task

routeVars == <<runs, attempts, issued, spent, tx, cancel, now, told>>

(* state: the last state it read; history: the attempts it read after that  *)
(* state; code: the status of the last response.                            *)
Unread == [state |-> Null, history |-> Null, code |-> 0]

-----------------------------------------------------------------------------
(* The read model *)

(* The columns state_of demands of a row in this state. *)
HasColumns(row) ==
    /\ row.state = "running" => /\ row.lease_token # Null /\ row.lease_expires_at # Null
                                /\ row.started_at # Null
    /\ row.state \in Terminal => row.finished_at # Null
    /\ row.state = "failed" => row.last_error # "none"

(* RunState and its TaskStateView: only the fields of the state are shown, *)
(* and the fencing token never.                                            *)
state_of(row) ==
    [state |-> row.state,
     finished_at |-> IF row.state \in Terminal THEN row.finished_at ELSE Null,
     error |-> IF row.state = "failed" THEN row.last_error ELSE "none"]

StateOfAttempt(outcome) ==
    CASE outcome = "open" -> "Running"
      [] outcome = "completed" -> "Completed"
      [] outcome = "failed" -> "Failed"
      [] outcome = "expired" -> "Expired"
      [] outcome = "cancelled" -> "Cancelled"

(* The attempts of a committed task, by attempt number. *)
History(r) ==
    LET mine == {t \in DOMAIN attempts : attempts[t].run_id = r /\ r \in Committed}
    IN  [n \in {attempts[t].attempt_number : t \in mine} |->
            StateOfAttempt(attempts[CHOOSE t \in mine :
                                      attempts[t].attempt_number = n].outcome)]

-----------------------------------------------------------------------------
(* The operations of a client *)

Tell(r, view) == told' = [told EXCEPT ![r] = view] /\ UNCHANGED vars

Reads(r) == r \in Committed

(* GET /tasks/:id: the state, 404 without a row, and 500 for a row without *)
(* a column that its state needs.                                          *)
task_state(r) ==
    \/ /\ Reads(r)
       /\ Tell(r, IF HasColumns(runs[r])
                  THEN [state |-> state_of(runs[r]), history |-> Null, code |-> 200]
                  ELSE [told[r] EXCEPT !.code = 500])
    \/ ~Reads(r) /\ Tell(r, [told[r] EXCEPT !.code = 404])

(* task_attempts, by a client that has read the state. *)
task_attempts(r) ==
    /\ told[r].state # Null
    /\ Tell(r, [told[r] EXCEPT !.history = History(r)])

CancelTaskStrict(r) ==
    /\ \/ \E code \in {204, 500} : CancelLock(r) /\ told' = [told EXCEPT ![r].code = code]
       \/ /\ CancelProbe(r)
          /\ told' = [told EXCEPT ![r].code = 404]
       \/ CancelError(r) /\ told' = [told EXCEPT ![r].code = 500]
(* POST /tasks/:id/cancel: the response to a call of cancel, which is 500   *)
(* if the task is cancelled and the answer of the database is lost.         *)
cancel_task(r) ==
    /\ \/ \E code \in {204, 500} : CancelLock(r) /\ told' = [told EXCEPT ![r].code = code]
       \/ /\ CancelProbe(r)
          /\ told' = [told EXCEPT ![r].code =
                        IF cancel'[r].phase = "NotFound" THEN 404 ELSE 204]
       \/ CancelError(r) /\ told' = [told EXCEPT ![r].code = 500]

(* No connection: 503, before any statement. *)
acquire_fails(r) ==
    /\ cancel[r].phase \notin {"locking", "probing"}
    /\ Tell(r, [told[r] EXCEPT !.code = 503])

Elsewhere ==
    /\ \/ Produce \/ Work \/ Tick
       \/ \E r \in Cancellable : CancelStart(r) \/ CancelMiss(r)
       \/ \E before \in 1 .. MaxTime + 1, limit \in Limits : prune_terminal(before, limit)
    /\ UNCHANGED told

RouteInit == Init /\ told = [r \in RunIds |-> Unread]

RouteNext ==
    \/ \E r \in RunIds : task_state(r) \/ task_attempts(r) \/ acquire_fails(r)
    \/ \E r \in Cancellable : cancel_task(r)
    \/ Elsewhere

RouteSpec == RouteInit /\ [][RouteNext]_routeVars

-----------------------------------------------------------------------------
(* What a client may rely on *)

(* What a client was told stays true. A task it has read is committed, so   *)
(* that no rollback takes it back; it is answered 404 only after retention *)
(* has removed the task; and a task it read as completed, failed or        *)
(* cancelled is still exactly that, finish time and error included.        *)
ToldStaysTrue ==
    \A r \in RunIds : told[r].state # Null =>
        /\ r \in Committed \cup spent
        /\ told[r].code = 404 => r \in spent
        /\ told[r].state.state \in Terminal /\ r \notin spent
             => state_of(runs[r]) = told[r].state

(* What the outcome of the last attempt must be, given the state told. *)
Explains(state, last) ==
    CASE state = "completed" -> last = "Completed"
      [] state = "failed" -> last \in {"Failed", "Expired"}
      [] state = "cancelled" -> last \in {"Cancelled", "Failed", "Expired"}
      [] OTHER -> TRUE

(* The history read after a final state explains it, although it is read   *)
(* later and from another table: numbered without a gap, nothing running,  *)
(* every attempt but the last failed or expired, and the last one ended as *)
(* the state says. It is empty if the task was pruned between the reads or *)
(* cancelled before its first claim.                                       *)
HistoryExplains ==
    \A r \in RunIds :
        LET v == told[r]
            ns == DOMAIN v.history
        IN  (v.state # Null /\ v.history # Null) =>
              /\ ns = 1 .. Cardinality(ns)
              /\ \A n \in ns : n # Cardinality(ns) => v.history[n] \in {"Failed", "Expired"}
              /\ (v.state.state \in Terminal /\ ns # {}) =>
                   Explains(v.state.state, v.history[Cardinality(ns)])
              /\ (v.state.state \in {"completed", "failed"} /\ ns = {}) => r \in spent

(***************************************************************************)
(* The parts of the inductive invariant behind TaskRoutesProofs that are   *)
(* no promises by themselves.                                              *)
(***************************************************************************)
ToldShape ==
    /\ told = [r \in RunIds |-> told[r]]
    /\ \A r \in RunIds : told[r] = [state |-> told[r].state, history |-> told[r].history,
                                     code |-> told[r].code]

(* A task fails after a claim, never without one. *)
FailedWasClaimed ==
    \A r \in DOMAIN runs : runs[r].state = "failed" => runs[r].attempt_count > 0

RouteInv == ToldShape /\ FailedWasClaimed /\ ToldStaysTrue /\ HistoryExplains
=============================================================================
