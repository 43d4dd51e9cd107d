---------------------------- MODULE MCTaskStore ----------------------------
(***************************************************************************)
(* Instances of TaskStore for TLC.                                         *)
(***************************************************************************)
EXTENDS TaskStoreRefinement, TLC

Option(name, prio, max, lease, backoff, key) ==
    [job_name |-> name, priority |-> prio, max_attempts |-> max,
     lease_duration |-> lease, retry_backoff |-> backoff, deduplication_key |-> key]

MCNames == {"mail", "sms"}
MCKeys == {"k"}
(* A worker for one task type, and one for both. *)
MCNameSets == {{"mail"}, {"mail", "sms"}}

(* A retryable task with a lease of two ticks, and an urgent one-shot task  *)
(* behind a deduplication key.                                              *)
LifecycleOptions == {Option("mail", 0, 2, 2, 1, Null), Option("sms", 1, 1, 1, 0, "k")}

(* One task behind a deduplication key. *)
DedupOptions == {Option("mail", 0, 2, 2, 0, "k")}

Symmetry == Permutations(RunIds) \cup Permutations(Tokens)
=============================================================================
