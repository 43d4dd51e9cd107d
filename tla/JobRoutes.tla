----------------------------- MODULE JobRoutes -----------------------------
(***************************************************************************)
(* What the job API answers: the results of src/jobs.rs and the statuses   *)
(* of the /jobs routes of src/admin.rs, over the table of Schedules.       *)
(*                                                                         *)
(* create, ensure_job and reschedule convert the row they return into a    *)
(* Job after their transaction has committed; pause, resume and delete     *)
(* count the rows they changed and convert none.                           *)
(***************************************************************************)
EXTENDS Schedules

VARIABLES
    reply    \* the answer the last step gave, if it was one of the job API

jobRouteVars == <<jobs, deleted, occurrences, mat, call, events, rescheduled, now, reply>>

(* result: a Job or Jobs (200), Changed (204), NotFound, which stands for   *)
(* None too (404), CorruptJob or a database error, Err (500); shown: the    *)
(* jobs the answer is about or lists.                                       *)
Silence == [op |-> "none", result |-> "Job", shown |-> {}]

Answer(op, result, shown) == reply' = [op |-> op, result |-> result, shown |-> shown]

(* What has been committed is answered, or the answer is lost with the      *)
(* connection: then the caller gets an error for what has happened.         *)
AnsweredOrLost(op, result, shown) == Answer(op, result, shown) \/ Answer(op, "Err", {})

-----------------------------------------------------------------------------
(* Job::try_from, on the one column corruption reaches (see RowValues). *)
TryFrom(row) == IF Parses(row.cron) THEN "Job" ELSE "CorruptJob"

created(c) ==
    \E j \in FreeJobIds : Insert(c, j) /\ AnsweredOrLost(call[c].op, TryFrom(jobs'[j]), {j})

ensured(c) ==
    EnsureExisting(c) /\ \E j \in Named(call[c].spec.name) :
                            AnsweredOrLost("ensure_job", TryFrom(jobs'[j]), {j})

(* ResetFromNow: of a missing job it is Ok(None), and parse_stored refuses  *)
(* one whose expression is corrupt before anything is written.              *)
reset(c) ==
    LET j == call[c].job IN
    /\ call[c].op = "reset"
    /\ \/ ResetFromNow(c) /\ AnsweredOrLost("ResetFromNow", TryFrom(jobs'[j]), {j})
       \/ /\ j \notin DOMAIN jobs
          /\ CallFails(c) /\ Answer("ResetFromNow", "NotFound", {j})
       \/ /\ j \in DOMAIN jobs /\ ~Locked(j) /\ ~Parses(jobs[j].cron)
          /\ CallFails(c) /\ Answer("ResetFromNow", "CorruptJob", {j})

(* The transaction does not commit. *)
failed(c) ==
    /\ CallFails(c)
    /\ Answer(IF call[c].op = "reset" THEN "ResetFromNow" ELSE call[c].op, "Err", {})

pinned(j) ==
    \E ts \in Pins : SetNextRunAt(j, ts) /\ AnsweredOrLost("SetNextRunAt", TryFrom(jobs'[j]), {j})

PausedReturningJob(j) ==
    \E paused \in BOOLEAN :
        set_paused(j, paused) /\ AnsweredOrLost("set_paused", TryFrom(jobs'[j]), {j})
(* pause_job and resume_job: applied_from_affected of one row. *)
paused_or_resumed(j) ==
    \E paused \in BOOLEAN : set_paused(j, paused) /\ AnsweredOrLost("set_paused", "Changed", {j})

HiddenOnly(j) ==
    /\ Statement(j)
    /\ jobs' = [jobs EXCEPT ![j].is_paused = TRUE]
    /\ deleted' = deleted \cup {j}
    /\ AnsweredOrLost("delete", "Changed", {j})
    /\ UNCHANGED rescheduled
delete_job(j) == Delete(j) /\ AnsweredOrLost("delete", "Changed", {j})

(* No connection, or a statement that fails. *)
unavailable ==
    /\ \E op \in {"SetNextRunAt", "set_paused", "delete", "get", "list"} : Answer(op, "Err", {})
    /\ UNCHANGED vars

(* The same operations, and get, on an id no job has. *)
missing(j) ==
    /\ j \notin DOMAIN jobs
    /\ Answer("any", "NotFound", {j})
    /\ UNCHANGED vars

get(j) ==
    /\ j \in DOMAIN jobs
    /\ Answer("get", TryFrom(jobs[j]), {j})
    /\ UNCHANGED vars

(* list and list_jobs: the first row that does not convert is the answer. *)
list_jobs ==
    /\ \/ /\ \A j \in DOMAIN jobs : TryFrom(jobs[j]) = "Job"
          /\ Answer("list", "Jobs", DOMAIN jobs)
       \/ \E j \in DOMAIN jobs : TryFrom(jobs[j]) # "Job" /\ Answer("list", "CorruptJob", {j})
    /\ UNCHANGED vars

Elsewhere ==
    /\ \/ \E w \in Workers : MaterializerStep(w) \/ PassLost(w)
       \/ \E c \in Callers, op \in {"create", "ensure_job"}, spec \in CreateJob :
            Begin(c, [op |-> op, db_now |-> now, spec |-> spec])
       \/ \E c \in Callers, j \in JobIds : Begin(c, [op |-> "reset", db_now |-> now, job |-> j])
       \/ \E j \in JobIds, cron \in CorruptCrons : Corrupt(j, cron)
       \/ \E o \in occurrences : Prune(o)
       \/ Tick
    /\ reply' = Silence

RouteInit == Init /\ reply = Silence

RouteNext ==
    \/ \E c \in Callers : created(c) \/ ensured(c) \/ reset(c) \/ failed(c)
    \/ \E j \in JobIds : \/ pinned(j) \/ paused_or_resumed(j) \/ delete_job(j)
                         \/ missing(j) \/ get(j)
    \/ list_jobs
    \/ unavailable
    \/ Elsewhere

RouteSpec == RouteInit /\ [][RouteNext]_jobRouteVars

-----------------------------------------------------------------------------
(* What a caller may conclude from an answer *)

(* The jobs a step creates, changes or deletes. *)
Touched ==
    {j \in JobIds : \/ j \in DOMAIN jobs /\ j \in DOMAIN jobs' /\ jobs'[j] # jobs[j]
                    \/ j \in DOMAIN jobs /\ j \notin DOMAIN jobs'
                    \/ j \notin DOMAIN jobs /\ j \in DOMAIN jobs'}

(* What an operation does to a job, if it does anything. *)
EffectOf(op, j) ==
    \/ op \in {"create", "ensure_job"} /\ j \notin DOMAIN jobs
    \/ op = "delete" /\ j \notin DOMAIN jobs'
    \/ /\ j \in DOMAIN jobs \cap DOMAIN jobs'
       /\ jobs'[j].name = jobs[j].name
       /\ op = "ensure_job" \/ jobs'[j].cron = jobs[j].cron
       /\ op \in {"ResetFromNow", "SetNextRunAt"} \/ jobs'[j].next_run_at = jobs[j].next_run_at
       /\ op = "set_paused" \/ jobs'[j].is_paused = jobs[j].is_paused

NotFoundIsExact == reply'.result = "NotFound" => jobs' = jobs

CorruptIsExact ==
    reply'.result = "CorruptJob" =>
        /\ reply'.op \in {"ResetFromNow", "SetNextRunAt", "get", "list"}
        /\ \E j \in reply'.shown \cap DOMAIN jobs :
             /\ ~Parses(jobs[j].cron)
             /\ IF reply'.op = "SetNextRunAt"
                THEN \E ts \in Pins : jobs' = [jobs EXCEPT ![j].next_run_at = ts]
                ELSE jobs' = jobs

ErrIsConfined ==
    reply'.result = "Err" =>
        /\ \A i, j \in Touched : i = j
        /\ \A j \in Touched : EffectOf(reply'.op, j)

(* What a caller may conclude from an error. NotFound has changed nothing. *)
(* CorruptJob is exact: it is answered only for a stored expression that   *)
(* does not parse, never by create, ensure_job, pause, resume or delete;   *)
(* from ResetFromNow, get and list it means that nothing changed, and from *)
(* SetNextRunAt that the cursor was moved: the row is converted after the  *)
(* commit, and a caller that takes the error for a rollback finds the job  *)
(* pinned. A database error leaves open whether the call took effect, as a *)
(* lost connection does, but not more than its own effect on one job: no   *)
(* other row, no other column; a failed redeploy, say, has not moved a     *)
(* cursor or resumed a job.                                                *)
ErrorsTellWhatChanged ==
    [][NotFoundIsExact /\ CorruptIsExact /\ ErrIsConfined]_jobRouteVars

(* A deleted job is gone for every caller: a call that began before the    *)
(* delete, a materializer that held the row, a second delete, pause, get   *)
(* and list all find nothing; only the one delete that removed it answers  *)
(* Changed, and no occurrence of it is made any more.                      *)
DeletedIsGone ==
    [][/\ \A j \in deleted : j \in reply'.shown => reply'.result = "NotFound"
       /\ \A o \in occurrences' \ occurrences : o[1] \notin deleted]_jobRouteVars
=============================================================================
