------------------------ MODULE TaskStoreRefinement ------------------------
(***************************************************************************)
(* TaskStore implements TaskLifecycle. A task is submitted when its        *)
(* producer commits; a lease is an ownership, its token the owner, and     *)
(* owned it is until a statement ends the lease, expired or not; renewals, *)
(* attempts, locks and the clock are invisible.                            *)
(***************************************************************************)
EXTENDS TaskStore

PhaseOf(state) ==
    CASE state = "pending" -> "waiting"
      [] state = "running" -> "owned"
      [] OTHER -> state

(* The abstract view of a stored row. *)
TaskRow(row) ==
    [phase |-> PhaseOf(row.state), owner |-> row.lease_token,
     claims |-> row.attempt_count, budget |-> row.options.max_attempts]

NoTask(phase) == [phase |-> phase, owner |-> Null, claims |-> 0, budget |-> 0]

TaskOf(r) ==
    IF r \in Committed THEN TaskRow(runs[r])
    ELSE IF r \in spent THEN NoTask("gone") ELSE NoTask("absent")

Lifecycle == INSTANCE TaskLifecycle
    WITH Tasks <- RunIds, Owners <- Tokens, Nobody <- Null,
         Budgets <- {opt.max_attempts : opt \in Options},
         task <- [r \in RunIds |-> TaskOf(r)], used <- issued

(* The store implements the lifecycle: whatever producers, workers,        *)
(* recovery, cancellation and retention do, a task is owned by one fresh   *)
(* token at a time, within its budget, and ends once.                      *)
LifecycleSpec == Lifecycle!Spec
=============================================================================
