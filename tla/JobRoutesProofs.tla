-------------------------- MODULE JobRoutesProofs --------------------------
(***************************************************************************)
(* Proofs about JobRoutes: the routes implement Schedules, so what is      *)
(* proved there holds with them, and the answers of the job API mean what  *)
(* callers conclude from them.                                             *)
(***************************************************************************)
EXTENDS JobRoutes, SchedulesProofs

-----------------------------------------------------------------------------
(* Every answer is given by a step of the schedules, or by none. *)
LEMMA RouteStep ==
    [RouteNext]_jobRouteVars => [Next]_vars
<1> SUFFICES ASSUME [RouteNext]_jobRouteVars PROVE [Next]_vars
  OBVIOUS
<1>1. ASSUME NEW c \in Callers, created(c) \/ ensured(c) \/ reset(c) \/ failed(c)
      PROVE  CallerStep(c)
  <2>1. CASE reset(c)
    <3>1. CASE ResetFromNow(c)
      BY <3>1 DEF CallerStep
    <3>2. CASE ~ResetFromNow(c)
      BY <2>1, <3>2 DEF reset, CallerStep, CallFails
    <3> QED
      BY <3>1, <3>2
  <2> QED
    BY <1>1, <2>1 DEF created, ensured, failed, CallerStep
<1>2. ASSUME NEW j \in JobIds, pinned(j) \/ paused_or_resumed(j) \/ delete_job(j)
      PROVE  Administer(j)
  BY <1>2 DEF pinned, paused_or_resumed, delete_job, Administer
<1>3. ASSUME NEW j \in JobIds, missing(j) \/ get(j)
      PROVE  UNCHANGED vars
  BY <1>3 DEF missing, get
<1>4. CASE list_jobs \/ unavailable
  BY <1>4 DEF list_jobs, unavailable
<1>5. CASE Elsewhere
  BY <1>5 DEF Elsewhere, Next, CallerStep, Administer
<1>6. CASE UNCHANGED jobRouteVars
  BY <1>6 DEF jobRouteVars, vars
<1> QED
  BY <1>1, <1>2, <1>3, <1>4, <1>5, <1>6 DEF RouteNext, Next

(* The job API with its answers implements Schedules. *)
THEOREM RoutesImplementSchedules == RouteSpec => Spec
<1>1. RouteInit => Init
  BY DEF RouteInit
<1> QED
  BY <1>1, RouteStep, PTL DEF RouteSpec, Spec

(* What a step finds: well-formed rows under unique keys. *)
RouteInv == ScheduleInv /\ UniqueKeys

LEMMA RouteInvariant == RouteSpec => []RouteInv
<1>1. ScheduleInv /\ UniqueKeys => RouteInv
  BY DEF RouteInv
<1> QED
  BY <1>1, RoutesImplementSchedules, ScheduleInvariant, KeysStayUnique, PTL

-----------------------------------------------------------------------------
(* Answers, one lemma per group of operations                              *)

(* A step that leaves all rows but one alone has touched at most that one. *)
LEMMA TouchedOne ==
    ASSUME NEW j,
           \A k \in JobIds \ {j} : /\ k \in DOMAIN jobs' <=> k \in DOMAIN jobs
                                   /\ k \in DOMAIN jobs => jobs'[k] = jobs[k]
    PROVE  Touched \subseteq {j}
BY DEF Touched

LEMMA TouchedNone == ASSUME jobs' = jobs PROVE Touched = {}
BY DEF Touched

Exact == NotFoundIsExact /\ CorruptIsExact /\ ErrIsConfined

(* An answer other than an error is none; one about an untouched table is  *)
(* exact unless it is CorruptJob.                                          *)
LEMMA ExactAnswer ==
    /\ reply'.result \in {"Job", "Jobs", "Changed"} => Exact
    /\ jobs' = jobs /\ reply'.result # "CorruptJob" => Exact
BY TouchedNone DEF Exact, NotFoundIsExact, CorruptIsExact, ErrIsConfined

(* So is an error that was told for the lost answer of an effect. *)
LEMMA LostAnswer ==
    ASSUME NEW j, Touched \subseteq {j}, EffectOf(reply'.op, j), reply'.result = "Err"
    PROVE  Exact
BY DEF Exact, NotFoundIsExact, CorruptIsExact, ErrIsConfined

(* The row that create or ensure_job inserts is readable. *)
LEMMA CreatedAnswer ==
    ASSUME RouteInv, NEW c \in Callers, created(c)
    PROVE  /\ Exact
           /\ reply'.shown \cap deleted = {}
<1>0. call[c] \in Call
  BY DEF RouteInv, ScheduleInv, TypeOK
<1>1. PICK j \in FreeJobIds :
        Insert(c, j) /\ AnsweredOrLost(call[c].op, TryFrom(jobs'[j]), {j})
  BY DEF created
<1>2. jobs'[j].cron = call[c].spec.cron /\ Parses(call[c].spec.cron)
  BY <1>0, <1>1, CallFields DEF Insert, new_job
<1>3. TryFrom(jobs'[j]) = "Job"
  BY <1>2 DEF TryFrom
<1>4. \A k \in JobIds \ {j} : /\ k \in DOMAIN jobs' <=> k \in DOMAIN jobs
                              /\ k \in DOMAIN jobs => jobs'[k] = jobs[k]
  BY <1>1 DEF Insert
<1>5. Touched \subseteq {j}
  BY <1>4, TouchedOne
<1>6. CASE Answer(call[c].op, "Job", {j})
  BY <1>1, <1>6, ExactAnswer DEF Answer, FreeJobIds
<1>7. CASE Answer(call[c].op, "Err", {})
  <2>1. EffectOf(reply'.op, j) /\ reply'.result = "Err" /\ reply'.shown = {}
    BY <1>1, <1>7 DEF Insert, Answer, EffectOf, FreeJobIds
  <2> QED
    BY <1>5, <2>1, LostAnswer
<1> QED
  BY <1>1, <1>3, <1>6, <1>7 DEF AnsweredOrLost

(* So is the row that ensure_job reconciles. *)
LEMMA EnsuredAnswer ==
    ASSUME RouteInv, NEW c \in Callers, ensured(c)
    PROVE  /\ Exact
           /\ reply'.shown \cap deleted = {}
<1> DEFINE spec == call[c].spec
<1>0. call[c] \in Call /\ jobs \in [DOMAIN jobs -> JobRow]
  BY DEF RouteInv, ScheduleInv, TypeOK
<1>1. EnsureExisting(c)
  BY DEF ensured
<1>2. PICK j \in Named(spec.name) : AnsweredOrLost("ensure_job", TryFrom(jobs'[j]), {j})
  BY DEF ensured
<1>3. PICK k \in Named(spec.name) : jobs' = [jobs EXCEPT ![k] = Reconciled(jobs[k], spec)]
  BY <1>1 DEF EnsureExisting
<1>4. j = k /\ j \in DOMAIN jobs /\ j \notin deleted
  BY DEF Named, RouteInv, UniqueKeys
<1>5. /\ jobs'[j].cron = spec.cron /\ Parses(spec.cron) /\ DOMAIN jobs' = DOMAIN jobs
      /\ jobs'[j].name = jobs[j].name /\ jobs'[j].next_run_at = jobs[j].next_run_at
      /\ jobs'[j].is_paused = jobs[j].is_paused
  BY <1>0, <1>1, <1>3, <1>4, CallFields DEF EnsureExisting, Reconciled, JobRow
<1>6. TryFrom(jobs'[j]) = "Job"
  BY <1>5 DEF TryFrom
<1>7. Touched \subseteq {j}
  BY <1>3, <1>4, TouchedOne
<1>8. CASE Answer("ensure_job", "Job", {j})
  BY <1>4, <1>8, ExactAnswer DEF Answer
<1>9. CASE Answer("ensure_job", "Err", {})
  <2>1. EffectOf(reply'.op, j) /\ reply'.result = "Err" /\ reply'.shown = {}
    BY <1>4, <1>5, <1>9 DEF Answer, EffectOf
  <2> QED
    BY <1>7, <2>1, LostAnswer
<1> QED
  BY <1>2, <1>6, <1>8, <1>9 DEF AnsweredOrLost

(* A write to one stored row of which it keeps the name and all columns    *)
(* but its own.                                                            *)
LEMMA RowAnswer ==
    ASSUME RouteInv, NEW j \in DOMAIN jobs, NEW op, NEW result \in {"Job", "Changed"},
           NEW row, jobs' = [jobs EXCEPT ![j] = row], row.name = jobs[j].name,
           op = "ensure_job" \/ row.cron = jobs[j].cron,
           op \in {"ResetFromNow", "SetNextRunAt"} \/ row.next_run_at = jobs[j].next_run_at,
           op = "set_paused" \/ row.is_paused = jobs[j].is_paused,
           AnsweredOrLost(op, result, {j})
    PROVE  /\ Exact
           /\ reply'.shown \cap deleted = {}
<1>1. j \notin deleted
  BY DEF RouteInv, UniqueKeys
<1>2. DOMAIN jobs' = DOMAIN jobs /\ jobs'[j] = row
  OBVIOUS
<1>3. Touched \subseteq {j}
  BY TouchedOne
<1>4. CASE Answer(op, result, {j})
  BY <1>1, <1>4, ExactAnswer DEF Answer
<1>5. CASE Answer(op, "Err", {})
  <2>1. EffectOf(reply'.op, j) /\ reply'.result = "Err" /\ reply'.shown = {}
    BY <1>2, <1>5 DEF Answer, EffectOf
  <2> QED
    BY <1>3, <2>1, LostAnswer
<1> QED
  BY <1>4, <1>5 DEF AnsweredOrLost

(* A reset answers with a readable row, or has changed nothing. *)
LEMMA ResetAnswer ==
    ASSUME RouteInv, NEW c \in Callers, reset(c)
    PROVE  /\ Exact
           /\ reply'.result = "NotFound" \/ reply'.shown \cap deleted = {}
<1> DEFINE j == call[c].job
<1>0. jobs \in [DOMAIN jobs -> JobRow] /\ DOMAIN jobs \cap deleted = {}
  BY DEF RouteInv, ScheduleInv, TypeOK, UniqueKeys
<1>1. CASE ResetFromNow(c) /\ AnsweredOrLost("ResetFromNow", TryFrom(jobs'[j]), {j})
  <2>1. j \in DOMAIN jobs /\ Parses(jobs[j].cron)
    BY <1>1 DEF ResetFromNow
  <2>2. PICK row : row = [jobs[j] EXCEPT !.next_run_at = next_after(jobs[j].cron, call[c].db_now)]
    OBVIOUS
  <2>3. jobs' = [jobs EXCEPT ![j] = row]
    BY <1>1, <2>2 DEF ResetFromNow
  <2>4. row.name = jobs[j].name /\ row.cron = jobs[j].cron /\ row.is_paused = jobs[j].is_paused
    BY <1>0, <2>1, <2>2 DEF JobRow
  <2>5. TryFrom(jobs'[j]) = "Job"
    BY <2>1, <2>3, <2>4 DEF TryFrom
  <2>6. AnsweredOrLost("ResetFromNow", "Job", {j})
    BY <1>1, <2>5
  <2> HIDE DEF j
  <2> QED
    BY <2>1, <2>3, <2>4, <2>6, RowAnswer
<1>2. CASE CallFails(c) /\ Answer("ResetFromNow", "NotFound", {j})
  <2>1. jobs' = jobs /\ reply'.result = "NotFound"
    BY <1>2 DEF CallFails, Answer
  <2> QED
    BY <2>1, ExactAnswer
<1>3. CASE /\ j \in DOMAIN jobs /\ ~Parses(jobs[j].cron)
           /\ CallFails(c) /\ Answer("ResetFromNow", "CorruptJob", {j})
  <2>1. /\ jobs' = jobs /\ reply'.op = "ResetFromNow" /\ reply'.result = "CorruptJob"
        /\ reply'.shown = {j}
    BY <1>3 DEF CallFails, Answer
  <2>2. Exact
    BY <1>3, <2>1 DEF Exact, NotFoundIsExact, CorruptIsExact, ErrIsConfined
  <2> QED
    BY <1>0, <1>3, <2>1, <2>2
<1> QED
  BY <1>1, <1>2, <1>3 DEF reset

(* A call that does not commit has changed no row and shows none. *)
LEMMA FailedAnswer ==
    ASSUME NEW c \in Callers, failed(c)
    PROVE  Exact /\ reply'.shown = {}
<1>1. jobs' = jobs /\ reply'.result = "Err" /\ reply'.shown = {}
  BY DEF failed, CallFails, Answer
<1> QED
  BY <1>1, ExactAnswer

(* Pinning a job answers with the row it has just changed, readable or not. *)
LEMMA PinnedAnswer ==
    ASSUME RouteInv, NEW j \in JobIds, pinned(j)
    PROVE  /\ Exact
           /\ reply'.shown \cap deleted = {}
<1>1. PICK ts \in Pins :
        SetNextRunAt(j, ts) /\ AnsweredOrLost("SetNextRunAt", TryFrom(jobs'[j]), {j})
  BY DEF pinned
<1>2. PICK row : row = [jobs[j] EXCEPT !.next_run_at = ts]
  OBVIOUS
<1>3. /\ j \in DOMAIN jobs /\ jobs' = [jobs EXCEPT ![j] = row] /\ jobs[j] \in JobRow
      /\ jobs' = [jobs EXCEPT ![j].next_run_at = ts] /\ j \notin deleted
  BY <1>1, <1>2 DEF SetNextRunAt, Statement, RouteInv, ScheduleInv, TypeOK, UniqueKeys
<1>4. row.name = jobs[j].name /\ row.cron = jobs[j].cron /\ row.is_paused = jobs[j].is_paused
  BY <1>2, <1>3 DEF JobRow
<1>5. CASE AnsweredOrLost("SetNextRunAt", "Job", {j})
  BY <1>3, <1>4, <1>5, RowAnswer
<1>6. CASE ~Parses(jobs[j].cron) /\ AnsweredOrLost("SetNextRunAt", "CorruptJob", {j})
  <2>1. CASE Answer("SetNextRunAt", "CorruptJob", {j})
    <3>1. reply'.op = "SetNextRunAt" /\ reply'.result = "CorruptJob" /\ reply'.shown = {j}
      BY <2>1 DEF Answer
    <3>2. Exact
      BY <1>3, <1>6, <3>1 DEF Exact, NotFoundIsExact, CorruptIsExact, ErrIsConfined
    <3> QED
      BY <1>3, <3>1, <3>2
  <2>2. CASE Answer("SetNextRunAt", "Err", {})
    BY <1>3, <1>4, <2>2, RowAnswer DEF AnsweredOrLost
  <2> QED
    BY <1>6, <2>1, <2>2 DEF AnsweredOrLost
<1>7. jobs'[j].cron = jobs[j].cron
  BY <1>3, <1>4
<1> QED
  BY <1>1, <1>5, <1>6, <1>7 DEF TryFrom

(* pause and resume convert no row. *)
LEMMA PausedAnswer ==
    ASSUME RouteInv, NEW j \in JobIds, paused_or_resumed(j)
    PROVE  /\ Exact
           /\ reply'.shown \cap deleted = {}
<1>1. PICK paused \in BOOLEAN :
        set_paused(j, paused) /\ AnsweredOrLost("set_paused", "Changed", {j})
  BY DEF paused_or_resumed
<1>2. PICK row : row = [jobs[j] EXCEPT !.is_paused = paused]
  OBVIOUS
<1>3. j \in DOMAIN jobs /\ jobs' = [jobs EXCEPT ![j] = row] /\ jobs[j] \in JobRow
  BY <1>1, <1>2 DEF set_paused, Statement, RouteInv, ScheduleInv, TypeOK
<1>4. row.name = jobs[j].name /\ row.cron = jobs[j].cron
      /\ row.next_run_at = jobs[j].next_run_at
  BY <1>2, <1>3 DEF JobRow
<1> QED
  BY <1>1, <1>3, <1>4, RowAnswer

(* Nor does delete. *)
LEMMA DeleteAnswer ==
    ASSUME RouteInv, NEW j \in JobIds, delete_job(j)
    PROVE  /\ Exact
           /\ reply'.shown \cap deleted = {}
<1>1. /\ j \in DOMAIN jobs /\ j \notin deleted
      /\ jobs' = [x \in DOMAIN jobs \ {j} |-> jobs[x]]
  BY DEF delete_job, Delete, Statement, RouteInv, UniqueKeys
<1>2. Touched \subseteq {j} /\ j \notin DOMAIN jobs'
  BY <1>1, TouchedOne
<1>3. CASE Answer("delete", "Changed", {j})
  BY <1>1, <1>3, ExactAnswer DEF Answer
<1>4. CASE Answer("delete", "Err", {})
  <2>1. EffectOf(reply'.op, j) /\ reply'.result = "Err" /\ reply'.shown = {}
    BY <1>2, <1>4 DEF Answer, EffectOf
  <2> QED
    BY <1>2, <2>1, LostAnswer
<1> QED
  BY <1>3, <1>4 DEF delete_job, AnsweredOrLost

(* Reads change nothing, and show no deleted job except as not found. *)
LEMMA ReadAnswer ==
    ASSUME RouteInv, \/ list_jobs \/ unavailable
                     \/ \E j \in JobIds : missing(j) \/ get(j)
    PROVE  /\ Exact
           /\ reply'.result = "NotFound" \/ reply'.shown \cap deleted = {}
<1>1. DOMAIN jobs \cap deleted = {}
  BY DEF RouteInv, UniqueKeys
<1>2. ASSUME NEW j \in JobIds, missing(j)
      PROVE  jobs' = jobs /\ reply'.result = "NotFound"
  BY <1>2 DEF missing, Answer, vars
<1>3. ASSUME NEW j \in JobIds, get(j)
      PROVE  /\ jobs' = jobs /\ reply'.op = "get" /\ reply'.shown = {j} /\ j \in DOMAIN jobs
             /\ reply'.result = TryFrom(jobs[j])
  BY <1>3 DEF get, Answer, vars
<1>4. CASE unavailable
  <2>1. jobs' = jobs /\ reply'.result = "Err" /\ reply'.shown = {}
    BY <1>4 DEF unavailable, Answer, vars
  <2> QED
    BY <2>1, ExactAnswer
<1>5. ASSUME NEW j \in DOMAIN jobs, jobs' = jobs, reply'.op \in {"get", "list"},
             reply'.shown = {j}, reply'.result = TryFrom(jobs[j])
      PROVE  Exact
  <2>1. CASE Parses(jobs[j].cron)
    BY <1>5, <2>1, ExactAnswer DEF TryFrom
  <2>2. CASE ~Parses(jobs[j].cron)
    BY <1>5, <2>2 DEF TryFrom, Exact, NotFoundIsExact, CorruptIsExact, ErrIsConfined
  <2> QED
    BY <2>1, <2>2
<1>6. CASE list_jobs
  <2>1. jobs' = jobs
    BY <1>6 DEF list_jobs, vars
  <2>2. CASE Answer("list", "Jobs", DOMAIN jobs)
    BY <1>1, <2>2, ExactAnswer DEF Answer
  <2>3. ASSUME NEW j \in DOMAIN jobs, TryFrom(jobs[j]) # "Job", Answer("list", "CorruptJob", {j})
        PROVE  Exact /\ reply'.shown \cap deleted = {}
    <3>1. reply'.op = "list" /\ reply'.shown = {j} /\ reply'.result = TryFrom(jobs[j])
      BY <2>3 DEF Answer, TryFrom
    <3> QED
      BY <1>1, <1>5, <2>1, <3>1
  <2> QED
    BY <1>6, <2>2, <2>3 DEF list_jobs
<1> QED
  BY <1>1, <1>2, <1>3, <1>4, <1>5, <1>6, ExactAnswer

(* Nobody is answered by the steps of others. *)
LEMMA NoAnswer ==
    ASSUME Elsewhere
    PROVE  Exact /\ reply'.shown = {}
BY ExactAnswer DEF Elsewhere, Silence

(* Every answer is exact, and shows a deleted job only as not found. *)
LEMMA AnswersStep ==
    ASSUME RouteInv, RouteNext
    PROVE  /\ Exact
           /\ reply'.result = "NotFound" \/ reply'.shown \cap deleted = {}
<1>1. ASSUME NEW c \in Callers, created(c) \/ ensured(c) \/ reset(c) \/ failed(c)
      PROVE  Exact /\ (reply'.result = "NotFound" \/ reply'.shown \cap deleted = {})
  BY <1>1, CreatedAnswer, EnsuredAnswer, ResetAnswer, FailedAnswer
<1>2. ASSUME NEW j \in JobIds, pinned(j) \/ paused_or_resumed(j) \/ delete_job(j)
      PROVE  Exact /\ reply'.shown \cap deleted = {}
  BY <1>2, PinnedAnswer, PausedAnswer, DeleteAnswer
<1> QED
  BY <1>1, <1>2, ReadAnswer, NoAnswer DEF RouteNext

-----------------------------------------------------------------------------
(* The theorems                                                            *)

(* The errors of the job API say what they can: NotFound and CorruptJob    *)
(* exactly whether the table changed, a database error at least that       *)
(* nothing but the effect of the call on its one job may have happened.    *)
THEOREM ErrorsAreExact == RouteSpec => ErrorsTellWhatChanged
<1>1. RouteInv /\ [RouteNext]_jobRouteVars =>
        [NotFoundIsExact /\ CorruptIsExact /\ ErrIsConfined]_jobRouteVars
  BY AnswersStep DEF Exact
<1> QED
  BY <1>1, RouteInvariant, PTL DEF RouteSpec, ErrorsTellWhatChanged

(* A deleted job is gone: no later answer shows it except as not found,    *)
(* and no materializer that was under way makes an occurrence of it.       *)
THEOREM DeletedJobsAreGone == RouteSpec => DeletedIsGone
<1>1. ASSUME RouteInv, RouteNext, NEW j \in deleted, j \in reply'.shown
      PROVE  reply'.result = "NotFound"
  BY <1>1, AnswersStep
<1>2. ASSUME RouteInv, RouteNext, NEW o \in occurrences' \ occurrences
      PROVE  o[1] \notin deleted
  <2>1. [Next]_vars
    BY <1>2, RouteStep
  <2>2. Next
    BY <1>2, <2>1 DEF vars
  <2>3. o[1] \in DOMAIN jobs
    BY <1>2, <2>2, JobStep DEF RouteInv
  <2> QED
    BY <1>2, <2>3 DEF RouteInv, UniqueKeys
<1>3. RouteInv /\ [RouteNext]_jobRouteVars =>
        [/\ \A j \in deleted : j \in reply'.shown => reply'.result = "NotFound"
         /\ \A o \in occurrences' \ occurrences : o[1] \notin deleted]_jobRouteVars
  BY <1>1, <1>2
<1> QED
  BY <1>3, RouteInvariant, PTL DEF RouteSpec, DeletedIsGone
=============================================================================
