-------------------------- MODULE MCWorkerRuntime --------------------------
(***************************************************************************)
(* Instances of WorkerRuntime for TLC.                                     *)
(***************************************************************************)
EXTENDS WorkerRuntime, TLC

MCNames == {"mail"}
MCNameSets == {{"mail"}}
MCRegistered == [w \in Workers |-> MCNames]

(* A task of two attempts with a lease of two ticks. *)
RetriedOnce ==
    {[job_name |-> "mail", priority |-> 0, max_attempts |-> 2, lease_duration |-> 2,
      retry_backoff |-> 0, deduplication_key |-> Null]}

(* A one-shot task with a lease of one tick. *)
OneShot ==
    [job_name |-> "mail", priority |-> 0, max_attempts |-> 1, lease_duration |-> 1,
     retry_backoff |-> 0, deduplication_key |-> Null]

(* A one-shot task whose lease is longer than a claim takes, and an urgent *)
(* one whose lease is accepted everywhere but ends after a LastInstant of   *)
(* twenty.                                                                 *)
WithEndlessLease ==
    {[OneShot EXCEPT !.lease_duration = 2],
     [OneShot EXCEPT !.priority = 1, !.lease_duration = 30]}

(* A one-shot task and one whose backoff does not fit. *)
WithEndlessBackoff == {OneShot, [OneShot EXCEPT !.max_attempts = 2, !.retry_backoff = 30]}

Slow == [w \in Workers |-> -3]
Early == [w \in Workers |-> 1]

Symmetry == Permutations(RunIds) \cup Permutations(Tokens) \cup Permutations(Workers)
=============================================================================
