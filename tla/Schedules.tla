----------------------------- MODULE Schedules -----------------------------
(***************************************************************************)
(* Recurring schedules: the table scheduler_jobs, the job operations of    *)
(* src/jobs.rs and the materializer of src/store/materialize.rs, which     *)
(* turns a due schedule into a task of scheduler_runs.                     *)
(*                                                                         *)
(* Every cursor is computed from now() of a transaction, the time at which *)
(* the transaction began, and written later, possibly after waiting for    *)
(* the row: an operation is its beginning, which reads the clock, and its  *)
(* effect. A materializer holds the lock of the job it selected from the   *)
(* SELECT to the commit; the locks of the job API are held for one step    *)
(* here, and SELECT_DUE may meet any of them (its set `busy').             *)
(***************************************************************************)
EXTENDS Integers, FiniteSets

CONSTANTS
    JobIds,            \* primary keys of scheduler_jobs (random UUIDs)
    JobNames,          \* values of its unique column name
    Workers,           \* scheduler instances, each with a materializer
    Callers,           \* users of the job API
    Crons,             \* cron expressions, as stored
    CorruptCrons,      \* what corruption may leave in cron_expression
    Parses(_),         \* does croner parse the expression
    NextAfter(_, _),   \* its first occurrence strictly after an instant
    Pins,              \* instants callers pin a cursor to
    MaxPass,           \* jobs one materializer pass may process
    MaxEvents,         \* bound: job API calls, damaged rows and lost passes
    MaxTime,           \* bound: the clock stops here
    Null

(* croner answers with a later instant, or fails: no occurrence (Null). *)
ASSUME NextAfterAssumption ==
    \A c \in Crons, t \in 0 .. MaxTime :
        NextAfter(c, t) = Null \/ (NextAfter(c, t) \in Nat /\ NextAfter(c, t) > t)
ASSUME BoundsAssumption ==
    MaxPass \in Nat \ {0} /\ MaxEvents \in Nat /\ MaxTime \in Nat /\ Pins \subseteq Nat
ASSUME CronsAssumption == CorruptCrons \subseteq Crons
ASSUME ScheduleNullAssumption == Null \notin Nat /\ Null \notin JobIds

VARIABLES
    jobs,         \* scheduler_jobs: the stored rows, by primary key
    deleted,      \* ids of deleted jobs; never reused
    occurrences,  \* rows of scheduler_runs with a job_id: <<job_id, scheduled_for>>
    mat,          \* where each materializer stands
    call,         \* the job API call each caller has in progress
    events,       \* how many of the events MaxEvents bounds have happened
    rescheduled,  \* jobs an explicit reschedule has moved (auxiliary)
    now           \* the database clock

vars == <<jobs, deleted, occurrences, mat, call, events, rescheduled, now>>

-----------------------------------------------------------------------------
JobRow == [name : JobNames, cron : Crons, next_run_at : Nat, is_paused : BOOLEAN]

(* A pass of materialize_due_jobs: the transaction under way, if any, its   *)
(* start time, the job it has locked, and the jobs processed before it.     *)
MatState == [phase : {"idle", "begun", "holding"}, db_now : 0 .. MaxTime,
             job : JobIds \cup {Null}, count : 0 .. MaxPass]
NoPass == [phase |-> "idle", db_now |-> 0, job |-> Null, count |-> 0]

(* CreateJob holds a parsed CronExpression. *)
CreateJob == [name : JobNames, cron : {c \in Crons : Parses(c)}, is_paused : BOOLEAN]

Call == [op : {"idle"}] \cup
        [op : {"create", "ensure_job"}, db_now : 0 .. MaxTime, spec : CreateJob] \cup
        [op : {"reset"}, db_now : 0 .. MaxTime, job : JobIds]
NoCall == [op |-> "idle"]

Named(name) == {j \in DOMAIN jobs : jobs[j].name = name}
NeverLocked(j) == FALSE
(* A materializer has the row locked. *)
Locked(j) == \E w \in Workers : mat[w].phase = "holding" /\ mat[w].job = j
FreeJobIds == JobIds \ (DOMAIN jobs \cup deleted)

InclusiveNext(c, t) == IF NextAfter(c, t - 1) = t THEN t ELSE NextAfter(c, t)
next_after(c, t) == NextAfter(c, t)

AlwaysNext(c, t) == TRUE
(* next_after returns Ok. *)
HasNext(c, t) == next_after(c, t) # Null

-----------------------------------------------------------------------------
(* The materializer                                                        *)

PassStart(w) ==
    /\ mat[w].phase = "idle"
    /\ mat' = [mat EXCEPT ![w] = [NoPass EXCEPT !.phase = "begun", !.db_now = now]]
    /\ UNCHANGED <<jobs, deleted, occurrences, call, events, rescheduled, now>>

DueEvenPaused(db_now) == {j \in DOMAIN jobs : ~Locked(j) /\ jobs[j].next_run_at <= db_now}
Due(db_now) == {j \in DOMAIN jobs : /\ ~Locked(j)
                                    /\ ~jobs[j].is_paused
                                    /\ jobs[j].next_run_at <= db_now}

(* SELECT_DUE: locks the due job with the oldest cursor that nobody holds;  *)
(* SKIP LOCKED passes over the rows a job API call has locked just then.    *)
SelectAmong(w, busy) ==
    LET due == Due(mat[w].db_now) \ busy IN
    /\ mat[w].phase = "begun"
    /\ \E j \in due :
         /\ \A k \in due : jobs[j].next_run_at <= jobs[k].next_run_at
         /\ mat' = [mat EXCEPT ![w].phase = "holding", ![w].job = j]
    /\ UNCHANGED <<jobs, deleted, occurrences, call, events, rescheduled, now>>

SelectDue(w) == \E busy \in SUBSET JobIds : SelectAmong(w, busy)

(* No row: Tick::Idle ends the pass. It may at any time, since the job API  *)
(* may have all that is due locked just then.                               *)
PassIdle(w) ==
    /\ mat[w].phase = "begun"
    /\ mat' = [mat EXCEPT ![w] = NoPass]
    /\ UNCHANGED <<jobs, deleted, occurrences, call, events, rescheduled, now>>

(* Tick::Processed: the next transaction of the pass, or its end. *)
Processed(w) ==
    mat' = [mat EXCEPT ![w] =
              IF mat[w].count + 1 < MaxPass
              THEN [phase |-> "begun", db_now |-> now, job |-> Null, count |-> @.count + 1]
              ELSE NoPass]

OccurrenceForNow(j) == <<j, now>>
(* The run for the slot the cursor stands on; ON CONFLICT DO NOTHING. *)
Occurrence(j) == <<j, jobs[j].next_run_at>>

Materialize(w) ==
    LET j == mat[w].job
        next == next_after(jobs[j].cron, mat[w].db_now)
    IN  /\ mat[w].phase = "holding"
        /\ Parses(jobs[j].cron)
        /\ HasNext(jobs[j].cron, mat[w].db_now)
        /\ occurrences' = occurrences \cup {Occurrence(j)}
        /\ jobs' = [jobs EXCEPT ![j].next_run_at = next]
        /\ Processed(w)
        /\ UNCHANGED <<deleted, call, events, rescheduled, now>>

(* The expression parses and has no next occurrence: `?' leaves the      *)
(* transaction, which rolls back, and the whole pass.                    *)
NextAfterFails(w) ==
    LET j == mat[w].job IN
    /\ mat[w].phase = "holding"
    /\ Parses(jobs[j].cron)
    /\ ~HasNext(jobs[j].cron, mat[w].db_now)
    /\ mat' = [mat EXCEPT ![w] = NoPass]
    /\ UNCHANGED <<jobs, deleted, occurrences, call, events, rescheduled, now>>

PauseCorruptAborting(w) ==
    /\ mat[w].phase = "holding"
    /\ ~Parses(jobs[mat[w].job].cron)
    /\ mat' = [mat EXCEPT ![w] = NoPass]
    /\ UNCHANGED <<jobs, deleted, occurrences, call, events, rescheduled, now>>
(* A corrupt expression pauses the job; the cursor stays. *)
PauseCorrupt(w) ==
    LET j == mat[w].job IN
    /\ mat[w].phase = "holding"
    /\ ~Parses(jobs[j].cron)
    /\ jobs' = [jobs EXCEPT ![j].is_paused = TRUE]
    /\ Processed(w)
    /\ UNCHANGED <<deleted, occurrences, call, events, rescheduled, now>>

(* The instance dies or loses its connection: the transaction rolls back. *)
PassLost(w) ==
    /\ mat[w].phase # "idle"
    /\ events < MaxEvents /\ events' = events + 1
    /\ mat' = [mat EXCEPT ![w] = NoPass]
    /\ UNCHANGED <<jobs, deleted, occurrences, call, rescheduled, now>>

-----------------------------------------------------------------------------
(* The job API                                                             *)

Return(c) == call' = [call EXCEPT ![c] = NoCall]

(* BEGIN; SELECT now(). *)
Begin(c, request) ==
    /\ call[c].op = "idle"
    /\ events < MaxEvents
    /\ call' = [call EXCEPT ![c] = request]
    /\ events' = events + 1
    /\ UNCHANGED <<jobs, deleted, occurrences, mat, rescheduled, now>>

new_job(spec, db_now) ==
    [name |-> spec.name, cron |-> spec.cron,
     next_run_at |-> next_after(spec.cron, db_now), is_paused |-> spec.is_paused]

Insert(c, j) ==
    LET spec == call[c].spec IN
    /\ call[c].op \in {"create", "ensure_job"}
    /\ Named(spec.name) = {}
    /\ HasNext(spec.cron, call[c].db_now)
    /\ jobs' = [x \in DOMAIN jobs \cup {j} |->
                  IF x = j THEN new_job(spec, call[c].db_now) ELSE jobs[x]]
    /\ Return(c)
    /\ UNCHANGED <<deleted, occurrences, mat, events, rescheduled, now>>

ReconciledResuming(row, spec) ==
    [row EXCEPT !.cron = spec.cron, !.is_paused = spec.is_paused]
(* DO UPDATE SET: the columns a conflict overwrites. *)
Reconciled(row, spec) == [row EXCEPT !.cron = spec.cron]

EnsureExisting(c) ==
    LET spec == call[c].spec IN
    /\ call[c].op = "ensure_job"
    /\ HasNext(spec.cron, call[c].db_now)
    /\ \E j \in Named(spec.name) :
         /\ ~Locked(j)
         /\ jobs' = [jobs EXCEPT ![j] = Reconciled(@, spec)]
    /\ Return(c)
    /\ UNCHANGED <<deleted, occurrences, mat, events, rescheduled, now>>

(* The cursor is read and written under the row lock; the clock is older. *)
ResetFromNow(c) ==
    LET j == call[c].job IN
    /\ call[c].op = "reset"
    /\ j \in DOMAIN jobs /\ ~Locked(j)
    /\ Parses(jobs[j].cron)
    /\ HasNext(jobs[j].cron, call[c].db_now)
    /\ jobs' = [jobs EXCEPT ![j].next_run_at = next_after(jobs[j].cron, call[c].db_now)]
    /\ rescheduled' = rescheduled \cup {j}
    /\ Return(c)
    /\ UNCHANGED <<deleted, occurrences, mat, events, now>>

(* create of a name that exists, a cron without occurrence, a corrupt or    *)
(* missing job, a database error: the transaction rolls back. A call that   *)
(* commits and whose answer is lost is one of the actions above: the        *)
(* answers are those of JobRoutes.                                          *)
CallFails(c) ==
    /\ call[c].op # "idle"
    /\ Return(c)
    /\ UNCHANGED <<jobs, deleted, occurrences, mat, events, rescheduled, now>>

(* Operations of one statement, on a row no materializer holds. *)
Statement(j) ==
    /\ j \in DOMAIN jobs /\ ~Locked(j)
    /\ events < MaxEvents /\ events' = events + 1
    /\ UNCHANGED <<occurrences, mat, call, now>>

SetNextRunAt(j, ts) ==
    /\ Statement(j)
    /\ jobs' = [jobs EXCEPT ![j].next_run_at = ts]
    /\ rescheduled' = rescheduled \cup {j}
    /\ UNCHANGED deleted

set_paused(j, paused) ==
    /\ Statement(j)
    /\ jobs' = [jobs EXCEPT ![j].is_paused = paused]
    /\ UNCHANGED <<deleted, rescheduled>>

Delete(j) ==
    /\ Statement(j)
    /\ jobs' = [x \in DOMAIN jobs \ {j} |-> jobs[x]]
    /\ deleted' = deleted \cup {j}
    /\ UNCHANGED rescheduled

-----------------------------------------------------------------------------
(* The environment                                                         *)

(* cron_expression was validated when it was stored; then it is damaged. *)
Corrupt(j, cron) ==
    /\ Statement(j)
    /\ jobs' = [jobs EXCEPT ![j].cron = cron]
    /\ UNCHANGED <<deleted, rescheduled>>

(* Retention deletes the finished task of an occurrence. *)
Prune(o) ==
    /\ occurrences' = occurrences \ {o}
    /\ UNCHANGED <<jobs, deleted, mat, call, events, rescheduled, now>>

Tick ==
    /\ now < MaxTime
    /\ now' = now + 1
    /\ UNCHANGED <<jobs, deleted, occurrences, mat, call, events, rescheduled>>

Init ==
    /\ jobs = [j \in {} |-> {}]
    /\ deleted = {}
    /\ occurrences = {}
    /\ mat = [w \in Workers |-> NoPass]
    /\ call = [c \in Callers |-> NoCall]
    /\ events = 0
    /\ rescheduled = {}
    /\ now = 0

MaterializerStep(w) ==
    \/ PassStart(w) \/ SelectDue(w) \/ PassIdle(w)
    \/ Materialize(w) \/ NextAfterFails(w) \/ PauseCorrupt(w)

CallerStep(c) ==
    \/ \E op \in {"create", "ensure_job"}, spec \in CreateJob :
         Begin(c, [op |-> op, db_now |-> now, spec |-> spec])
    \/ \E j \in JobIds : Begin(c, [op |-> "reset", db_now |-> now, job |-> j])
    \/ \E j \in FreeJobIds : Insert(c, j)
    \/ EnsureExisting(c)
    \/ ResetFromNow(c)
    \/ CallFails(c)

Administer(j) ==
    \/ \E ts \in Pins : SetNextRunAt(j, ts)
    \/ \E paused \in BOOLEAN : set_paused(j, paused)
    \/ Delete(j)
    \/ \E cron \in CorruptCrons : Corrupt(j, cron)

Next ==
    \/ \E w \in Workers : MaterializerStep(w) \/ PassLost(w)
    \/ \E c \in Callers : CallerStep(c)
    \/ \E j \in JobIds : Administer(j)
    \/ \E o \in occurrences : Prune(o)
    \/ Tick

Spec == Init /\ [][Next]_vars

(***************************************************************************)
(* Fairness: the poll interval of every running instance starts pass after *)
(* pass, each transaction it begins is carried through, and a SELECT_DUE   *)
(* that is tried again and again does not always run into the short locks  *)
(* of the job API.                                                         *)
(***************************************************************************)
FairSpec ==
    /\ Spec
    /\ \A w \in Workers : WF_vars(MaterializerStep(w)) /\ SF_vars(SelectAmong(w, {}))

-----------------------------------------------------------------------------
(* What the schedules promise                                              *)

(* Every row, pass and call keeps its type: a cursor is always an instant  *)
(* and a pass that holds a job names it.                                   *)
TypeOK ==
    /\ DOMAIN jobs \subseteq JobIds /\ jobs \in [DOMAIN jobs -> JobRow]
    /\ deleted \subseteq JobIds /\ rescheduled \subseteq JobIds
    /\ occurrences \subseteq JobIds \X Nat
    /\ mat \in [Workers -> MatState]
    /\ \A w \in Workers : mat[w].phase = "holding" <=> mat[w].job \in JobIds
    /\ call \in [Callers -> Call]
    /\ events \in 0 .. MaxEvents
    /\ now \in 0 .. MaxTime

(* The lock a materializer took at SELECT_DUE protects what it read until  *)
(* it commits: no two hold the same job, the job still exists, is still    *)
(* active and is still due by the clock of the transaction.                *)
HeldJobStays ==
    \A w \in Workers : mat[w].phase = "holding" =>
        /\ mat[w].job \in DOMAIN jobs
        /\ ~jobs[mat[w].job].is_paused
        /\ jobs[mat[w].job].next_run_at <= mat[w].db_now
        /\ \A v \in Workers : v # w => mat[v].job # mat[w].job

(* The cursor of a job nobody rescheduled lies strictly after every slot   *)
(* that was materialized for it: no slot is ever materialized twice, by    *)
(* concurrent materializers, stale transaction clocks or ensure_job, even  *)
(* without the unique index on (job_id, scheduled_for).                    *)
CursorAhead ==
    \A j \in DOMAIN jobs \ rescheduled : \A o \in occurrences :
        o[1] = j => o[2] < jobs[j].next_run_at

(* Every occurrence was made for a job that was stored then: an id that is *)
(* still free has none.                                                    *)
OccurrencesKnown == \A o \in occurrences : o[1] \in DOMAIN jobs \cup deleted

(* The primary key and the unique index on name are never violated: the id *)
(* of a deleted job is not used again, and no two jobs have one name.      *)
UniqueKeys ==
    /\ DOMAIN jobs \cap deleted = {}
    /\ \A i, j \in DOMAIN jobs : jobs[i].name = jobs[j].name => i = j

(* The inductive invariant behind the theorems of SchedulesProofs. The     *)
(* cursor a materializer writes lies after the slot it materialized only   *)
(* because the slot was due when its transaction began and has been locked *)
(* since (HeldJobStays), and a new job starts without occurrences.         *)
ScheduleInv == TypeOK /\ HeldJobStays /\ CursorAhead /\ OccurrencesKnown

(* The cursor invariant of jobs.rs: only a materializer, which inserts the *)
(* run of that slot in the same step, or an explicit reschedule moves a    *)
(* job past a due slot.                                                    *)
CursorInvariant ==
    [][\A j \in DOMAIN jobs \cap DOMAIN jobs' :
         /\ jobs[j].next_run_at <= now
         /\ jobs'[j].next_run_at # jobs[j].next_run_at
         => \/ <<j, jobs[j].next_run_at>> \in occurrences'
            \/ \E c \in Callers : ResetFromNow(c) /\ call[c].job = j
            \/ \E ts \in Pins : SetNextRunAt(j, ts)]_vars

(* A paused job stays quiet: no occurrence of it appears, and only resume  *)
(* makes it active again, so a redeploy (ensure_job) never resurrects it.  *)
PausedIsQuiet ==
    [][\A j \in DOMAIN jobs : jobs[j].is_paused =>
         /\ \A o \in occurrences' \ occurrences : o[1] # j
         /\ (j \in DOMAIN jobs' /\ ~jobs'[j].is_paused) => set_paused(j, FALSE)]_vars

DueNow(j) ==
    /\ j \in DOMAIN jobs /\ ~jobs[j].is_paused /\ jobs[j].next_run_at <= now

Servable(j) == DueNow(j) /\ Parses(jobs[j].cron) /\ HasNext(jobs[j].cron, now)

(* Every due job is eventually served, whatever the other rows hold: "a    *)
(* single bad row cannot block the rest".                                  *)
DueJobsServed == \A j \in JobIds :
    Servable(j) ~> ~DueNow(j) \/ jobs[j].cron \in CorruptCrons

(* A due row on which next_after fails: it ends every pass that selects it. *)
EndsPasses(j) == DueNow(j) /\ Parses(jobs[j].cron) /\ ~HasNext(jobs[j].cron, now)

(* Every due job is eventually served, by passes that may be lost, with    *)
(* expressions that may become unparsable, while callers go on: only a due *)
(* row whose stored expression parses and never fires again keeps others   *)
(* waiting, and no longer than it is there.                                *)
ServedUnlessPoisoned == \A j \in JobIds :
    Servable(j) ~> \/ ~DueNow(j)
                   \/ jobs[j].cron \in CorruptCrons
                   \/ \E k \in JobIds : EndsPasses(k)

(* An expression that does not parse does not go unnoticed: the job is     *)
(* paused by some pass, though passes are lost and skip its row while the  *)
(* job API has it locked, unless a caller deletes, moves or redeploys it   *)
(* first, or a row that ends every pass keeps the passes from it.          *)
CorruptIsPaused == \A j \in JobIds :
    (DueNow(j) /\ ~Parses(jobs[j].cron)) ~> \/ ~DueNow(j)
                                          \/ Parses(jobs[j].cron)
                                          \/ \E k \in JobIds : EndsPasses(k)
=============================================================================
