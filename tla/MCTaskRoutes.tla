---------------------------- MODULE MCTaskRoutes ----------------------------
(* Instances of TaskRoutes for TLC: a task of two attempts behind a         *)
(* deduplication key.                                                       *)
EXTENDS TaskRoutes, TLC

MCOptions == {[job_name |-> "mail", priority |-> 0, max_attempts |-> 2,
               lease_duration |-> 2, retry_backoff |-> 0, deduplication_key |-> "k"]}
MCNameSets == {{"mail"}}
Symmetry == Permutations(RunIds) \cup Permutations(Tokens)
=============================================================================
