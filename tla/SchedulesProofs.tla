-------------------------- MODULE SchedulesProofs --------------------------
(***************************************************************************)
(* Proofs about Schedules, for any number of jobs, scheduler instances and *)
(* callers, any expressions and any clock: the invariant ScheduleInv, and  *)
(* the cursor and pause properties that follow from it.                    *)
(***************************************************************************)
EXTENDS Schedules, TLAPS

-----------------------------------------------------------------------------
(* Rows, passes and calls                                                  *)

(* next_after answers with a later instant when it answers. *)
LEMMA NextLater ==
    ASSUME NEW c \in Crons, NEW t \in 0 .. MaxTime, HasNext(c, t)
    PROVE  next_after(c, t) \in Nat /\ next_after(c, t) > t
BY NextAfterAssumption DEF HasNext, next_after

(* A call that has begun carries the clock it read and what it was asked. *)
LEMMA CallFields ==
    ASSUME NEW x \in Call
    PROVE  /\ x.op \in {"create", "ensure_job"} =>
                /\ x.db_now \in 0 .. MaxTime
                /\ x.spec.name \in JobNames /\ x.spec.cron \in Crons /\ Parses(x.spec.cron)
                /\ x.spec.is_paused \in BOOLEAN
           /\ x.op = "reset" => x.db_now \in 0 .. MaxTime /\ x.job \in JobIds
BY DEF Call, CreateJob

(* Updating one field of a stored row keeps it a row. *)
LEMMA RowFields ==
    ASSUME NEW row \in JobRow
    PROVE  /\ \A n \in Nat : [row EXCEPT !.next_run_at = n] \in JobRow
           /\ \A b \in BOOLEAN : [row EXCEPT !.is_paused = b] \in JobRow
           /\ \A c \in Crons : [row EXCEPT !.cron = c] \in JobRow
BY DEF JobRow

(* The states a materializer moves to. *)
LEMMA PassType ==
    /\ NoPass \in MatState /\ NoPass.phase = "idle" /\ NoPass.job = Null
    /\ \A t \in 0 .. MaxTime, n \in 0 .. MaxPass :
         [phase |-> "begun", db_now |-> t, job |-> Null, count |-> n] \in MatState
BY BoundsAssumption DEF NoPass, MatState

-----------------------------------------------------------------------------
(* What the invariant says of one materializer and of one call.            *)

LEMMA HeldJob ==
    ASSUME ScheduleInv, NEW w \in Workers, mat[w].phase = "holding"
    PROVE  /\ mat[w].job \in DOMAIN jobs /\ mat[w].job \in JobIds
           /\ jobs[mat[w].job] \in JobRow
           /\ ~jobs[mat[w].job].is_paused
           /\ jobs[mat[w].job].next_run_at <= mat[w].db_now
           /\ mat[w].db_now \in 0 .. MaxTime
           /\ \A v \in Workers : v # w => mat[v].job # mat[w].job
BY DEF ScheduleInv, TypeOK, HeldJobStays, MatState

(***************************************************************************)
(* A step of a materializer that writes no table: the pass ends, begins,   *)
(* or locks a job nobody holds that is active and due.                     *)
(***************************************************************************)
LEMMA PassStep ==
    ASSUME ScheduleInv, NEW w \in Workers, NEW m \in MatState,
           mat' = [mat EXCEPT ![w] = m],
           \/ m.phase # "holding" /\ m.job = Null
           \/ /\ m.phase = "holding" /\ m.job \in DOMAIN jobs
              /\ ~Locked(m.job) /\ ~jobs[m.job].is_paused
              /\ jobs[m.job].next_run_at <= m.db_now,
           events' \in 0 .. MaxEvents,
           UNCHANGED <<jobs, deleted, occurrences, call, rescheduled, now>>
    PROVE  ScheduleInv'
<1>1. /\ mat \in [Workers -> MatState] /\ DOMAIN jobs \subseteq JobIds
      /\ mat'[w] = m /\ \A v \in Workers : v # w => mat'[v] = mat[v]
  BY DEF ScheduleInv, TypeOK
<1>2. TypeOK'
  <2>1. \A v \in Workers : mat'[v].phase = "holding" <=> mat'[v].job \in JobIds
    BY <1>1, ScheduleNullAssumption DEF ScheduleInv, TypeOK
  <2> QED
    BY <1>1, <2>1 DEF ScheduleInv, TypeOK
<1>3. HeldJobStays'
  <2> SUFFICES ASSUME NEW v \in Workers, mat'[v].phase = "holding"
               PROVE  /\ mat'[v].job \in DOMAIN jobs
                      /\ ~jobs[mat'[v].job].is_paused
                      /\ jobs[mat'[v].job].next_run_at <= mat'[v].db_now
                      /\ \A u \in Workers : u # v => mat'[u].job # mat'[v].job
    BY DEF HeldJobStays
  <2>1. CASE v = w
    <3>1. m.phase = "holding" /\ m.job \in DOMAIN jobs /\ ~Locked(m.job)
      BY <2>1, <1>1
    <3>2. ASSUME NEW u \in Workers, u # w PROVE mat[u].job # m.job
      BY <3>1, <3>2, <1>1 DEF Locked, ScheduleInv, TypeOK
    <3> QED
      BY <2>1, <3>1, <3>2, <1>1
  <2>2. CASE v # w
    <3>1. mat[v].phase = "holding" /\ mat'[v] = mat[v]
      BY <2>2, <1>1
    <3>2. m.job # mat[v].job
      BY <3>1, ScheduleNullAssumption DEF Locked, ScheduleInv, TypeOK
    <3> QED
      BY <2>2, <3>1, <3>2, <1>1, HeldJob
  <2> QED
    BY <2>1, <2>2
<1>4. CursorAhead' /\ OccurrencesKnown'
  BY DEF ScheduleInv, CursorAhead, OccurrencesKnown
<1> QED
  BY <1>2, <1>3, <1>4 DEF ScheduleInv

(***************************************************************************)
(* A step that only writes rows: stored rows that change are not locked.   *)
(***************************************************************************)
LEMMA RowsStep ==
    ASSUME ScheduleInv, TypeOK',
           UNCHANGED <<occurrences, mat>>,
           DOMAIN jobs \cup deleted \subseteq DOMAIN jobs' \cup deleted',
           rescheduled \subseteq rescheduled',
           \A j \in DOMAIN jobs : Locked(j) => j \in DOMAIN jobs' /\ jobs'[j] = jobs[j],
           \A j \in DOMAIN jobs' : \/ j \in DOMAIN jobs /\ jobs'[j].next_run_at = jobs[j].next_run_at
                                   \/ j \in rescheduled'
                                   \/ j \notin DOMAIN jobs \cup deleted
    PROVE  ScheduleInv'
<1>1. HeldJobStays'
  <2> SUFFICES ASSUME NEW w \in Workers, mat[w].phase = "holding"
               PROVE  /\ mat[w].job \in DOMAIN jobs'
                      /\ ~jobs'[mat[w].job].is_paused
                      /\ jobs'[mat[w].job].next_run_at <= mat[w].db_now
                      /\ \A u \in Workers : u # w => mat[u].job # mat[w].job
    BY DEF HeldJobStays
  <2>1. Locked(mat[w].job)
    BY DEF Locked
  <2> QED
    BY <2>1, HeldJob
<1>2. CursorAhead'
  <2> SUFFICES ASSUME NEW j \in DOMAIN jobs', j \notin rescheduled',
                      NEW o \in occurrences, o[1] = j
               PROVE  o[2] < jobs'[j].next_run_at
    BY DEF CursorAhead
  <2>1. j \in DOMAIN jobs \cup deleted
    BY DEF ScheduleInv, OccurrencesKnown
  <2>2. j \in DOMAIN jobs /\ jobs'[j].next_run_at = jobs[j].next_run_at /\ j \notin rescheduled
    BY <2>1
  <2> QED
    BY <2>2 DEF ScheduleInv, CursorAhead
<1>3. OccurrencesKnown'
  BY DEF ScheduleInv, OccurrencesKnown
<1> QED
  BY <1>1, <1>2, <1>3 DEF ScheduleInv

-----------------------------------------------------------------------------
(* The materializer                                                        *)

(* Where Tick::Processed leaves a pass. *)
LEMMA ProcessedPass ==
    ASSUME TypeOK, NEW w \in Workers, mat[w].phase = "holding", Processed(w)
    PROVE  \E m \in MatState : /\ mat' = [mat EXCEPT ![w] = m]
                               /\ m.phase # "holding" /\ m.job = Null
<1>1. mat[w] \in MatState /\ mat[w].count \in 0 .. MaxPass /\ now \in 0 .. MaxTime
  BY DEF TypeOK, MatState
<1>2. CASE mat[w].count + 1 < MaxPass
  <2> DEFINE m == [phase |-> "begun", db_now |-> now, job |-> Null, count |-> mat[w].count + 1]
  <2>1. mat[w].count + 1 \in 0 .. MaxPass
    BY <1>1, <1>2, BoundsAssumption
  <2>2. m \in MatState
    BY <1>1, <2>1, PassType
  <2>3. mat' = [mat EXCEPT ![w] = m]
    BY <1>2 DEF Processed
  <2> QED
    BY <2>2, <2>3
<1>3. CASE ~(mat[w].count + 1 < MaxPass)
  <2>1. mat' = [mat EXCEPT ![w] = NoPass]
    BY <1>3 DEF Processed
  <2> QED
    BY <2>1, PassType
<1> QED
  BY <1>2, <1>3

(***************************************************************************)
(* A materializer commits: the job it holds gets a row, with or without    *)
(* its slot as an occurrence, and the lock is gone.                        *)
(***************************************************************************)
LEMMA CommitStep ==
    ASSUME ScheduleInv, NEW w \in Workers, mat[w].phase = "holding", Processed(w),
           NEW row \in JobRow, jobs' = [jobs EXCEPT ![mat[w].job] = row],
           \/ occurrences' = occurrences /\ row.next_run_at = jobs[mat[w].job].next_run_at
           \/ /\ occurrences' = occurrences \cup {Occurrence(mat[w].job)}
              /\ row.next_run_at > jobs[mat[w].job].next_run_at,
           UNCHANGED <<deleted, call, events, rescheduled, now>>
    PROVE  ScheduleInv'
<1> DEFINE j == mat[w].job
<1>1. /\ j \in DOMAIN jobs /\ j \in JobIds /\ jobs[j] \in JobRow
      /\ jobs[j].next_run_at \in Nat /\ row.next_run_at \in Nat
      /\ \A v \in Workers : v # w => mat[v].job # j
  BY HeldJob DEF JobRow
<1>2. PICK m \in MatState : /\ mat' = [mat EXCEPT ![w] = m]
                            /\ m.phase # "holding" /\ m.job = Null
  BY ProcessedPass DEF ScheduleInv
<1>3. /\ mat \in [Workers -> MatState]
      /\ mat'[w] = m /\ \A v \in Workers : v # w => mat'[v] = mat[v]
  BY <1>2 DEF ScheduleInv, TypeOK
<1>4. DOMAIN jobs' = DOMAIN jobs /\ jobs'[j] = row
      /\ \A x \in DOMAIN jobs : x # j => jobs'[x] = jobs[x]
  BY <1>1 DEF ScheduleInv, TypeOK
<1>5. Occurrence(j) = <<j, jobs[j].next_run_at>> /\ Occurrence(j) \in JobIds \X Nat
  BY <1>1 DEF Occurrence
<1>6. TypeOK'
  <2>1. jobs' \in [DOMAIN jobs' -> JobRow] /\ DOMAIN jobs' \subseteq JobIds
    BY <1>1, <1>4 DEF ScheduleInv, TypeOK
  <2>2. occurrences' \subseteq JobIds \X Nat
    BY <1>5 DEF ScheduleInv, TypeOK
  <2>3. /\ mat' \in [Workers -> MatState]
        /\ \A v \in Workers : mat'[v].phase = "holding" <=> mat'[v].job \in JobIds
    BY <1>2, <1>3, ScheduleNullAssumption DEF ScheduleInv, TypeOK
  <2> QED
    BY <2>1, <2>2, <2>3 DEF ScheduleInv, TypeOK
<1>7. HeldJobStays'
  <2> SUFFICES ASSUME NEW v \in Workers, mat'[v].phase = "holding"
               PROVE  /\ mat'[v].job \in DOMAIN jobs'
                      /\ ~jobs'[mat'[v].job].is_paused
                      /\ jobs'[mat'[v].job].next_run_at <= mat'[v].db_now
                      /\ \A u \in Workers : u # v => mat'[u].job # mat'[v].job
    BY DEF HeldJobStays
  <2>1. v # w /\ mat'[v] = mat[v] /\ mat[v].phase = "holding"
    BY <1>2, <1>3
  <2>2. mat[v].job # j /\ mat[v].job # Null
    BY <1>1, <2>1, HeldJob, ScheduleNullAssumption
  <2> QED
    BY <1>2, <1>3, <1>4, <2>1, <2>2, HeldJob
<1>8. CursorAhead'
  <2> SUFFICES ASSUME NEW x \in DOMAIN jobs, x \notin rescheduled,
                      NEW o \in occurrences', o[1] = x
               PROVE  o[2] < jobs'[x].next_run_at
    BY <1>4 DEF CursorAhead
  <2>1. CASE o \in occurrences
    <3>1. o[2] < jobs[x].next_run_at /\ o[2] \in Nat
      BY <2>1 DEF ScheduleInv, CursorAhead, TypeOK
    <3> QED
      BY <3>1, <1>1, <1>4
  <2>2. CASE o \notin occurrences
    <3>1. o = <<j, jobs[j].next_run_at>> /\ row.next_run_at > jobs[j].next_run_at
      BY <2>2, <1>5
    <3> QED
      BY <3>1, <1>1, <1>4
  <2> QED
    BY <2>1, <2>2
<1>9. OccurrencesKnown'
  BY <1>1, <1>4, <1>5 DEF ScheduleInv, OccurrencesKnown
<1> QED
  BY <1>6, <1>7, <1>8, <1>9 DEF ScheduleInv

LEMMA MaterializerInv ==
    ASSUME ScheduleInv, NEW w \in Workers, MaterializerStep(w) \/ PassLost(w)
    PROVE  ScheduleInv'
<1>0. mat[w] \in MatState /\ now \in 0 .. MaxTime /\ events \in 0 .. MaxEvents
  BY DEF ScheduleInv, TypeOK
<1>1. CASE PassStart(w)
  <2> DEFINE m == [NoPass EXCEPT !.phase = "begun", !.db_now = now]
  <2>1. m \in MatState /\ m.phase = "begun" /\ m.job = Null
    BY <1>0, PassType DEF NoPass, MatState
  <2> QED
    BY <1>0, <1>1, <2>1, PassStep DEF PassStart
<1>2. CASE SelectDue(w)
  <2>1. PICK j \in Due(mat[w].db_now) :
          mat' = [mat EXCEPT ![w].phase = "holding", ![w].job = j]
    BY <1>2 DEF SelectDue, SelectAmong
  <2> DEFINE m == [mat[w] EXCEPT !.phase = "holding", !.job = j]
  <2>2. j \in DOMAIN jobs /\ j \in JobIds /\ ~Locked(j) /\ ~jobs[j].is_paused
        /\ jobs[j].next_run_at <= mat[w].db_now
    BY <2>1 DEF Due, ScheduleInv, TypeOK
  <2>3. m \in MatState /\ m.phase = "holding" /\ m.job = j /\ m.db_now = mat[w].db_now
    BY <1>0, <2>2 DEF MatState
  <2>4. mat' = [mat EXCEPT ![w] = m]
    BY <2>1
  <2> QED
    BY <1>0, <1>2, <2>2, <2>3, <2>4, PassStep DEF SelectDue, SelectAmong
<1>3. CASE PassIdle(w)
  BY <1>0, <1>3, PassType, PassStep DEF PassIdle
<1>4. CASE Materialize(w)
  <2> DEFINE j == mat[w].job
             next == next_after(jobs[j].cron, mat[w].db_now)
             row == [jobs[j] EXCEPT !.next_run_at = next]
  <2>1. /\ mat[w].phase = "holding" /\ HasNext(jobs[j].cron, mat[w].db_now)
        /\ occurrences' = occurrences \cup {Occurrence(j)}
        /\ jobs' = [jobs EXCEPT ![j].next_run_at = next]
        /\ Processed(w) /\ UNCHANGED <<deleted, call, events, rescheduled, now>>
    BY <1>4 DEF Materialize
  <2>2. /\ j \in DOMAIN jobs /\ jobs[j] \in JobRow /\ mat[w].db_now \in 0 .. MaxTime
        /\ jobs[j].next_run_at <= mat[w].db_now
        /\ jobs[j].cron \in Crons /\ jobs[j].next_run_at \in Nat
    BY <2>1, HeldJob DEF JobRow
  <2>3. next \in Nat /\ next > jobs[j].next_run_at
    BY <2>1, <2>2, NextLater, BoundsAssumption
  <2>4. row \in JobRow /\ row.next_run_at = next
    BY <2>2, <2>3, RowFields DEF JobRow
  <2>5. jobs' = [jobs EXCEPT ![j] = row]
    BY <2>1
  <2> QED
    BY <2>1, <2>3, <2>4, <2>5, CommitStep
<1>5. CASE NextAfterFails(w)
  BY <1>0, <1>5, PassType, PassStep DEF NextAfterFails
<1>6. CASE PauseCorrupt(w)
  <2> DEFINE j == mat[w].job
             row == [jobs[j] EXCEPT !.is_paused = TRUE]
  <2>1. /\ mat[w].phase = "holding" /\ Processed(w)
        /\ jobs' = [jobs EXCEPT ![j].is_paused = TRUE]
        /\ UNCHANGED <<deleted, occurrences, call, events, rescheduled, now>>
    BY <1>6 DEF PauseCorrupt
  <2>2. jobs[j] \in JobRow
    BY <2>1, HeldJob
  <2>3. row \in JobRow /\ row.next_run_at = jobs[j].next_run_at
    BY <2>2, RowFields DEF JobRow
  <2>4. jobs' = [jobs EXCEPT ![j] = row]
    BY <2>1
  <2> QED
    BY <2>1, <2>3, <2>4, CommitStep
<1>7. CASE PassLost(w)
  <2>1. events' \in 0 .. MaxEvents
    BY <1>0, <1>7, BoundsAssumption DEF PassLost
  <2> QED
    BY <2>1, <1>7, PassType, PassStep DEF PassLost
<1> QED
  BY <1>1, <1>2, <1>3, <1>4, <1>5, <1>6, <1>7 DEF MaterializerStep

-----------------------------------------------------------------------------
(* Callers, administrators and the environment                             *)

(* A stored row that nobody holds is overwritten. *)
LEMMA OverwriteInv ==
    ASSUME ScheduleInv, NEW j \in DOMAIN jobs, ~Locked(j), NEW row \in JobRow,
           jobs' = [jobs EXCEPT ![j] = row],
           \/ row.next_run_at = jobs[j].next_run_at /\ rescheduled' = rescheduled
           \/ rescheduled' = rescheduled \cup {j},
           call' \in [Callers -> Call], events' \in 0 .. MaxEvents,
           UNCHANGED <<deleted, occurrences, mat, now>>
    PROVE  ScheduleInv'
<1>1. DOMAIN jobs' = DOMAIN jobs /\ jobs'[j] = row /\ j \in JobIds
      /\ \A x \in DOMAIN jobs : x # j => jobs'[x] = jobs[x]
  BY DEF ScheduleInv, TypeOK
<1>2. TypeOK'
  BY <1>1 DEF ScheduleInv, TypeOK
<1> QED
  BY <1>1, <1>2, RowsStep

(* Ending a call, and beginning one. *)
LEMMA CallType ==
    ASSUME TypeOK, NEW c \in Callers, NEW x \in Call, call' = [call EXCEPT ![c] = x]
    PROVE  call' \in [Callers -> Call]
BY DEF TypeOK

LEMMA CallOnly ==
    ASSUME ScheduleInv, call' \in [Callers -> Call], events' \in 0 .. MaxEvents,
           UNCHANGED <<jobs, deleted, occurrences, mat, rescheduled, now>>
    PROVE  ScheduleInv'
BY DEF ScheduleInv, TypeOK, HeldJobStays, CursorAhead, OccurrencesKnown

LEMMA CallerInv ==
    ASSUME ScheduleInv, NEW c \in Callers, CallerStep(c)
    PROVE  ScheduleInv'
<1>0. /\ TypeOK /\ call[c] \in Call /\ NoCall \in Call
      /\ now \in 0 .. MaxTime /\ events \in 0 .. MaxEvents
  BY DEF ScheduleInv, TypeOK, Call, NoCall
<1>1. ASSUME NEW request \in Call, Begin(c, request)
      PROVE  ScheduleInv'
  <2>1. events' \in 0 .. MaxEvents
    BY <1>0, <1>1, BoundsAssumption DEF Begin
  <2>2. call' \in [Callers -> Call]
    BY <1>0, <1>1, CallType DEF Begin
  <2> QED
    BY <1>1, <2>1, <2>2, CallOnly DEF Begin
<1>2. CASE \E op \in {"create", "ensure_job"}, spec \in CreateJob :
             Begin(c, [op |-> op, db_now |-> now, spec |-> spec])
  <2>1. PICK op \in {"create", "ensure_job"}, spec \in CreateJob :
          Begin(c, [op |-> op, db_now |-> now, spec |-> spec])
    BY <1>2
  <2>2. [op |-> op, db_now |-> now, spec |-> spec] \in Call
    BY <1>0 DEF Call
  <2> QED
    BY <1>1, <2>1, <2>2
<1>3. CASE \E j \in JobIds : Begin(c, [op |-> "reset", db_now |-> now, job |-> j])
  <2>1. PICK j \in JobIds : Begin(c, [op |-> "reset", db_now |-> now, job |-> j])
    BY <1>3
  <2>2. [op |-> "reset", db_now |-> now, job |-> j] \in Call
    BY <1>0 DEF Call
  <2> QED
    BY <1>1, <2>1, <2>2
<1>4. ASSUME NEW j \in FreeJobIds, Insert(c, j)
      PROVE  ScheduleInv'
  <2> DEFINE spec == call[c].spec
             row == new_job(spec, call[c].db_now)
  <2>1. /\ call[c].op \in {"create", "ensure_job"} /\ HasNext(spec.cron, call[c].db_now)
        /\ jobs' = [x \in DOMAIN jobs \cup {j} |-> IF x = j THEN row ELSE jobs[x]]
        /\ Return(c) /\ UNCHANGED <<deleted, occurrences, mat, events, rescheduled, now>>
    BY <1>4 DEF Insert
  <2>2. row \in JobRow
    BY <1>0, <2>1, CallFields, NextLater DEF new_job, JobRow
  <2>3. call' \in [Callers -> Call]
    BY <1>0, <2>1, CallType DEF Return
  <2>4. j \in JobIds /\ j \notin DOMAIN jobs \cup deleted
    BY DEF FreeJobIds
  <2>5. DOMAIN jobs' = DOMAIN jobs \cup {j} /\ \A x \in DOMAIN jobs : jobs'[x] = jobs[x]
    BY <2>1, <2>4
  <2>6. TypeOK'
    BY <1>0, <2>1, <2>2, <2>3, <2>4 DEF TypeOK
  <2> QED
    BY <2>1, <2>4, <2>5, <2>6, RowsStep
<1>5. CASE EnsureExisting(c)
  <2> DEFINE spec == call[c].spec
  <2>1. PICK j \in Named(spec.name) :
          ~Locked(j) /\ jobs' = [jobs EXCEPT ![j] = Reconciled(@, spec)]
    BY <1>5 DEF EnsureExisting
  <2>2. j \in DOMAIN jobs /\ jobs[j] \in JobRow /\ spec.cron \in Crons
    BY <1>0, <1>5, CallFields DEF Named, TypeOK, EnsureExisting
  <2>3. Reconciled(jobs[j], spec) \in JobRow
        /\ Reconciled(jobs[j], spec).next_run_at = jobs[j].next_run_at
    BY <2>2, RowFields DEF Reconciled, JobRow
  <2>4. call' \in [Callers -> Call]
    BY <1>0, <1>5, CallType DEF EnsureExisting, Return
  <2> QED
    BY <1>0, <1>5, <2>1, <2>2, <2>3, <2>4, OverwriteInv DEF EnsureExisting
<1>6. CASE ResetFromNow(c)
  <2> DEFINE j == call[c].job
             next == next_after(jobs[j].cron, call[c].db_now)
             row == [jobs[j] EXCEPT !.next_run_at = next]
  <2>1. /\ j \in DOMAIN jobs /\ ~Locked(j) /\ jobs[j] \in JobRow /\ jobs[j].cron \in Crons
        /\ HasNext(jobs[j].cron, call[c].db_now) /\ call[c].db_now \in 0 .. MaxTime
    BY <1>0, <1>6, CallFields DEF ResetFromNow, TypeOK, JobRow
  <2>2. row \in JobRow
    BY <2>1, NextLater, RowFields
  <2>3. jobs' = [jobs EXCEPT ![j] = row]
    BY <1>6 DEF ResetFromNow
  <2>4. call' \in [Callers -> Call]
    BY <1>0, <1>6, CallType DEF ResetFromNow, Return
  <2> QED
    BY <1>0, <1>6, <2>1, <2>2, <2>3, <2>4, OverwriteInv DEF ResetFromNow
<1>7. CASE CallFails(c)
  <2>1. call' \in [Callers -> Call]
    BY <1>0, <1>7, CallType DEF CallFails, Return
  <2> QED
    BY <1>0, <1>7, <2>1, CallOnly DEF CallFails
<1> QED
  BY <1>2, <1>3, <1>4, <1>5, <1>6, <1>7 DEF CallerStep

LEMMA AdministerInv ==
    ASSUME ScheduleInv, NEW j \in JobIds, Administer(j)
    PROVE  ScheduleInv'
<1>0. /\ j \in DOMAIN jobs /\ ~Locked(j) /\ jobs[j] \in JobRow
      /\ events' \in 0 .. MaxEvents /\ call' \in [Callers -> Call]
      /\ UNCHANGED <<occurrences, mat, call, now>>
  BY BoundsAssumption DEF Administer, SetNextRunAt, set_paused, Delete, Corrupt, Statement,
     ScheduleInv, TypeOK
<1>1. ASSUME NEW ts \in Pins, SetNextRunAt(j, ts)
      PROVE  ScheduleInv'
  <2>1. [jobs[j] EXCEPT !.next_run_at = ts] \in JobRow
    BY <1>0, BoundsAssumption, RowFields
  <2> QED
    BY <1>0, <1>1, <2>1, OverwriteInv DEF SetNextRunAt
<1>2. ASSUME NEW paused \in BOOLEAN, set_paused(j, paused)
      PROVE  ScheduleInv'
  <2>1. /\ [jobs[j] EXCEPT !.is_paused = paused] \in JobRow
        /\ [jobs[j] EXCEPT !.is_paused = paused].next_run_at = jobs[j].next_run_at
    BY <1>0, RowFields DEF JobRow
  <2> QED
    BY <1>0, <1>2, <2>1, OverwriteInv DEF set_paused
<1>3. CASE Delete(j)
  <2>1. /\ jobs' = [x \in DOMAIN jobs \ {j} |-> jobs[x]]
        /\ deleted' = deleted \cup {j} /\ UNCHANGED rescheduled
    BY <1>3 DEF Delete
  <2>2. DOMAIN jobs' = DOMAIN jobs \ {j} /\ \A x \in DOMAIN jobs' : jobs'[x] = jobs[x]
    BY <2>1
  <2>3. TypeOK'
    BY <1>0, <2>1, <2>2 DEF ScheduleInv, TypeOK
  <2> QED
    BY <1>0, <2>1, <2>2, <2>3, RowsStep
<1>4. ASSUME NEW cron \in CorruptCrons, Corrupt(j, cron)
      PROVE  ScheduleInv'
  <2>1. /\ [jobs[j] EXCEPT !.cron = cron] \in JobRow
        /\ [jobs[j] EXCEPT !.cron = cron].next_run_at = jobs[j].next_run_at
    BY <1>0, CronsAssumption, RowFields DEF JobRow
  <2> QED
    BY <1>0, <1>4, <2>1, OverwriteInv DEF Corrupt
<1> QED
  BY <1>1, <1>2, <1>3, <1>4 DEF Administer

(* Retention and time. *)
LEMMA EnvironmentInv ==
    ASSUME ScheduleInv, (\E o \in occurrences : Prune(o)) \/ Tick
    PROVE  ScheduleInv'
<1>1. CASE \E o \in occurrences : Prune(o)
  <2>1. /\ occurrences' \subseteq occurrences
        /\ UNCHANGED <<jobs, deleted, mat, call, events, rescheduled, now>>
    BY <1>1 DEF Prune
  <2> QED
    BY <2>1 DEF ScheduleInv, TypeOK, HeldJobStays, CursorAhead, OccurrencesKnown
<1>2. CASE Tick
  <2>1. now' \in 0 .. MaxTime
    BY <1>2, BoundsAssumption DEF Tick, ScheduleInv, TypeOK
  <2> QED
    BY <1>2, <2>1 DEF Tick, ScheduleInv, TypeOK, HeldJobStays, CursorAhead, OccurrencesKnown
<1> QED
  BY <1>1, <1>2

LEMMA ScheduleStep ==
    ScheduleInv /\ [Next]_vars => ScheduleInv'
<1> SUFFICES ASSUME ScheduleInv, [Next]_vars PROVE ScheduleInv'
  OBVIOUS
<1>1. CASE \E w \in Workers : MaterializerStep(w) \/ PassLost(w)
  BY <1>1, MaterializerInv
<1>2. CASE \E c \in Callers : CallerStep(c)
  BY <1>2, CallerInv
<1>3. CASE \E j \in JobIds : Administer(j)
  BY <1>3, AdministerInv
<1>4. CASE (\E o \in occurrences : Prune(o)) \/ Tick
  BY <1>4, EnvironmentInv
<1>5. CASE UNCHANGED vars
  BY <1>5 DEF vars, ScheduleInv, TypeOK, HeldJobStays, CursorAhead, OccurrencesKnown
<1> QED
  BY <1>1, <1>2, <1>3, <1>4, <1>5 DEF Next

(* Names change hands only when a job is inserted under a free name, and   *)
(* ids only when one is deleted.                                           *)
LEMMA KeysStep ==
    ScheduleInv /\ UniqueKeys /\ [Next]_vars => UniqueKeys'
<1> SUFFICES ASSUME ScheduleInv, UniqueKeys, [Next]_vars PROVE UniqueKeys'
  OBVIOUS
<1>0. jobs \in [DOMAIN jobs -> JobRow]
  BY DEF ScheduleInv, TypeOK
<1>1. CASE UNCHANGED <<jobs, deleted>>
  BY <1>1 DEF UniqueKeys
<1>2. ASSUME NEW j \in DOMAIN jobs, NEW row, row.name = jobs[j].name,
             jobs' = [jobs EXCEPT ![j] = row], UNCHANGED deleted
      PROVE  UniqueKeys'
  <2>1. DOMAIN jobs' = DOMAIN jobs /\ \A x \in DOMAIN jobs : jobs'[x].name = jobs[x].name
    BY <1>0, <1>2
  <2> QED
    BY <1>2, <2>1 DEF UniqueKeys
<1>3. CASE \E w \in Workers : MaterializerStep(w) \/ PassLost(w)
  <2>1. ASSUME NEW w \in Workers, Materialize(w) \/ PauseCorrupt(w)
        PROVE  UniqueKeys'
    <3> DEFINE j == mat[w].job
    <3>1. j \in DOMAIN jobs /\ jobs[j] \in JobRow
      BY <2>1, HeldJob DEF Materialize, PauseCorrupt
    <3>2. CASE Materialize(w)
      BY <1>2, <3>1, <3>2 DEF Materialize, JobRow
    <3>3. CASE PauseCorrupt(w)
      BY <1>2, <3>1, <3>3 DEF PauseCorrupt, JobRow
    <3> QED
      BY <2>1, <3>2, <3>3
  <2> QED
    BY <1>1, <1>3, <2>1 DEF MaterializerStep, PassStart, SelectDue, SelectAmong, PassIdle,
       NextAfterFails, PassLost
<1>4. CASE \E c \in Callers : CallerStep(c)
  <2>1. ASSUME NEW c \in Callers, NEW j \in FreeJobIds, Insert(c, j)
        PROVE  UniqueKeys'
    <3> DEFINE row == new_job(call[c].spec, call[c].db_now)
    <3>1. /\ jobs' = [x \in DOMAIN jobs \cup {j} |-> IF x = j THEN row ELSE jobs[x]]
          /\ Named(call[c].spec.name) = {} /\ deleted' = deleted
          /\ row.name = call[c].spec.name
      BY <2>1 DEF Insert, new_job
    <3>2. j \notin DOMAIN jobs /\ j \notin deleted
      BY DEF FreeJobIds
    <3>3. \A x \in DOMAIN jobs : jobs[x].name # row.name
      BY <3>1 DEF Named
    <3> QED
      BY <3>1, <3>2, <3>3 DEF UniqueKeys
  <2>2. ASSUME NEW c \in Callers, EnsureExisting(c)
        PROVE  UniqueKeys'
    <3>1. PICK j \in Named(call[c].spec.name) :
            jobs' = [jobs EXCEPT ![j] = Reconciled(jobs[j], call[c].spec)]
      BY <2>2 DEF EnsureExisting
    <3>2. j \in DOMAIN jobs /\ Reconciled(jobs[j], call[c].spec).name = jobs[j].name
      BY <1>0 DEF Named, Reconciled, JobRow
    <3> QED
      BY <1>2, <2>2, <3>1, <3>2 DEF EnsureExisting
  <2>3. ASSUME NEW c \in Callers, ResetFromNow(c)
        PROVE  UniqueKeys'
    BY <1>0, <1>2, <2>3 DEF ResetFromNow, JobRow
  <2> QED
    BY <1>1, <1>4, <2>1, <2>2, <2>3 DEF CallerStep, Begin, CallFails
<1>5. CASE \E j \in JobIds : Administer(j)
  <2>1. ASSUME NEW j \in JobIds, Delete(j)
        PROVE  UniqueKeys'
    <3>1. /\ jobs' = [x \in DOMAIN jobs \ {j} |-> jobs[x]]
          /\ deleted' = deleted \cup {j}
      BY <2>1 DEF Delete
    <3> QED
      BY <3>1 DEF UniqueKeys
  <2>2. ASSUME NEW j \in JobIds, NEW ts \in Pins, SetNextRunAt(j, ts)
        PROVE  UniqueKeys'
    BY <1>0, <1>2, <2>2 DEF SetNextRunAt, Statement, JobRow
  <2>3. ASSUME NEW j \in JobIds, NEW paused \in BOOLEAN, set_paused(j, paused)
        PROVE  UniqueKeys'
    BY <1>0, <1>2, <2>3 DEF set_paused, Statement, JobRow
  <2>4. ASSUME NEW j \in JobIds, NEW cron \in CorruptCrons, Corrupt(j, cron)
        PROVE  UniqueKeys'
    BY <1>0, <1>2, <2>4 DEF Corrupt, Statement, JobRow
  <2> QED
    BY <1>5, <2>1, <2>2, <2>3, <2>4 DEF Administer
<1>6. CASE (\E o \in occurrences : Prune(o)) \/ Tick \/ UNCHANGED vars
  BY <1>1, <1>6 DEF Prune, Tick, vars
<1> QED
  BY <1>3, <1>4, <1>5, <1>6 DEF Next

-----------------------------------------------------------------------------
(* The theorems                                                            *)

(* The invariant ScheduleInv holds in every reachable state: rows, passes  *)
(* and calls are well formed, held jobs stay, cursors are ahead.           *)
THEOREM ScheduleInvariant == Spec => []ScheduleInv
<1>1. Init => ScheduleInv
  <2> SUFFICES ASSUME Init PROVE ScheduleInv
    OBVIOUS
  <2>1. /\ DOMAIN jobs = {} /\ occurrences = {} /\ deleted = {} /\ rescheduled = {}
        /\ \A w \in Workers : mat[w] = NoPass
    BY DEF Init
  <2>2. TypeOK
    BY <2>1, PassType, BoundsAssumption, ScheduleNullAssumption
    DEF Init, TypeOK, Call, NoCall
  <2> QED
    BY <2>1, <2>2, PassType DEF ScheduleInv, HeldJobStays, CursorAhead, OccurrencesKnown
<1> QED
  BY <1>1, ScheduleStep, PTL DEF Spec

(* Ids of deleted jobs are not reused and names stay unique, although a    *)
(* row is inserted long after its name was asked for.                      *)
THEOREM KeysStayUnique == Spec => []UniqueKeys
<1>1. Init => UniqueKeys
  BY DEF Init, UniqueKeys
<1> QED
  BY <1>1, KeysStep, ScheduleInvariant, PTL DEF Spec

(* Every row, pass and call of the schedules keeps its type. *)
THEOREM SchedulesTyped == Spec => []TypeOK
<1>1. ScheduleInv => TypeOK
  BY DEF ScheduleInv
<1> QED
  BY <1>1, ScheduleInvariant, PTL

(* What a materializer read under the lock of SELECT_DUE stays so until it *)
(* commits, and no two materializers hold one job.                         *)
THEOREM HeldJobsStay == Spec => []HeldJobStays
<1>1. ScheduleInv => HeldJobStays
  BY DEF ScheduleInv
<1> QED
  BY <1>1, ScheduleInvariant, PTL

(* No slot of a job that nobody rescheduled is materialized twice: the     *)
(* cursor lies after all its occurrences.                                  *)
THEOREM CursorsAhead == Spec => []CursorAhead
<1>1. ScheduleInv => CursorAhead
  BY DEF ScheduleInv
<1> QED
  BY <1>1, ScheduleInvariant, PTL

-----------------------------------------------------------------------------
(* Action properties                                                       *)

(* Who may move the cursor of job j, and who may make it active. *)
MovesCursor(j) ==
    \/ <<j, jobs[j].next_run_at>> \in occurrences'
    \/ \E c \in Callers : ResetFromNow(c) /\ call[c].job = j
    \/ \E ts \in Pins : SetNextRunAt(j, ts)

RowChange(j) ==
    /\ jobs'[j].next_run_at # jobs[j].next_run_at => MovesCursor(j)
    /\ jobs[j].is_paused /\ ~jobs'[j].is_paused => set_paused(j, FALSE)

(* One row is overwritten and the others stay. *)
LEMMA OneRow ==
    ASSUME TypeOK, NEW k \in DOMAIN jobs, NEW row, jobs' = [jobs EXCEPT ![k] = row],
           NEW j \in DOMAIN jobs, j # k
    PROVE  RowChange(j)
BY DEF TypeOK, RowChange

(***************************************************************************)
(* What a step does to a stored row: its cursor moves, or it becomes       *)
(* active, only as RowChange says; and every new occurrence is the slot of *)
(* an active job.                                                          *)
(***************************************************************************)
LEMMA JobStep ==
    ASSUME ScheduleInv, Next
    PROVE  /\ \A j \in DOMAIN jobs \cap DOMAIN jobs' : RowChange(j)
           /\ \A o \in occurrences' \ occurrences :
                o[1] \in DOMAIN jobs /\ ~jobs[o[1]].is_paused
<1> DEFINE Goal == /\ \A j \in DOMAIN jobs \cap DOMAIN jobs' : RowChange(j)
                   /\ \A o \in occurrences' \ occurrences :
                        o[1] \in DOMAIN jobs /\ ~jobs[o[1]].is_paused
<1>0. TypeOK /\ jobs \in [DOMAIN jobs -> JobRow]
  BY DEF ScheduleInv, TypeOK
<1>1. CASE UNCHANGED jobs /\ occurrences' \subseteq occurrences
  BY <1>1 DEF RowChange
<1>2. ASSUME NEW w \in Workers, Materialize(w)
      PROVE  Goal
  <2> DEFINE j == mat[w].job
             next == next_after(jobs[j].cron, mat[w].db_now)
             row == [jobs[j] EXCEPT !.next_run_at = next]
  <2>1. j \in DOMAIN jobs /\ jobs[j] \in JobRow /\ ~jobs[j].is_paused
    BY <1>2, HeldJob DEF Materialize
  <2>2. /\ jobs' = [jobs EXCEPT ![j] = row]
        /\ occurrences' = occurrences \cup {<<j, jobs[j].next_run_at>>}
    BY <1>2 DEF Materialize, Occurrence
  <2>3. RowChange(j)
    BY <2>1, <2>2 DEF RowChange, MovesCursor
  <2>4. \A x \in DOMAIN jobs : x # j => RowChange(x)
    BY <1>0, <2>1, <2>2, OneRow
  <2> QED
    BY <2>1, <2>2, <2>3, <2>4
<1>3. ASSUME NEW w \in Workers, PauseCorrupt(w)
      PROVE  Goal
  <2> DEFINE j == mat[w].job
             row == [jobs[j] EXCEPT !.is_paused = TRUE]
  <2>1. j \in DOMAIN jobs /\ jobs[j] \in JobRow
    BY <1>3, HeldJob DEF PauseCorrupt
  <2>2. jobs' = [jobs EXCEPT ![j] = row] /\ occurrences' = occurrences
    BY <1>3 DEF PauseCorrupt
  <2>3. jobs'[j].next_run_at = jobs[j].next_run_at /\ jobs'[j].is_paused
    BY <2>1, <2>2 DEF JobRow
  <2>4. RowChange(j)
    BY <2>3 DEF RowChange
  <2>5. \A x \in DOMAIN jobs : x # j => RowChange(x)
    BY <1>0, <2>1, <2>2, OneRow
  <2> QED
    BY <2>1, <2>2, <2>4, <2>5
<1>4. ASSUME NEW c \in Callers, NEW j \in FreeJobIds, Insert(c, j)
      PROVE  Goal
  <2>1. occurrences' = occurrences /\ \A x \in DOMAIN jobs : jobs'[x] = jobs[x]
    BY <1>4 DEF Insert, FreeJobIds
  <2> QED
    BY <2>1 DEF RowChange
<1>5. ASSUME NEW c \in Callers, EnsureExisting(c)
      PROVE  Goal
  <2>1. PICK j \in Named(call[c].spec.name) :
          jobs' = [jobs EXCEPT ![j] = Reconciled(jobs[j], call[c].spec)]
    BY <1>5 DEF EnsureExisting
  <2>2. j \in DOMAIN jobs /\ jobs[j] \in JobRow /\ occurrences' = occurrences
    BY <1>0, <1>5 DEF Named, EnsureExisting
  <2>3. /\ jobs'[j].next_run_at = jobs[j].next_run_at
        /\ jobs'[j].is_paused = jobs[j].is_paused
    BY <2>1, <2>2 DEF Reconciled, JobRow
  <2>4. RowChange(j)
    BY <2>3 DEF RowChange
  <2>5. \A x \in DOMAIN jobs : x # j => RowChange(x)
    BY <1>0, <2>1, <2>2, OneRow
  <2> QED
    BY <2>1, <2>2, <2>4, <2>5
<1>6. ASSUME NEW c \in Callers, ResetFromNow(c)
      PROVE  Goal
  <2> DEFINE j == call[c].job
             row == [jobs[j] EXCEPT !.next_run_at = next_after(jobs[j].cron, call[c].db_now)]
  <2>1. j \in DOMAIN jobs /\ jobs[j] \in JobRow /\ occurrences' = occurrences
        /\ jobs' = [jobs EXCEPT ![j] = row]
    BY <1>0, <1>6 DEF ResetFromNow
  <2>2. RowChange(j)
    BY <1>6, <2>1 DEF RowChange, MovesCursor, JobRow
  <2>3. \A x \in DOMAIN jobs : x # j => RowChange(x)
    BY <1>0, <2>1, OneRow
  <2> QED
    BY <2>1, <2>2, <2>3
<1>7. ASSUME NEW j \in JobIds, NEW ts \in Pins, SetNextRunAt(j, ts)
      PROVE  Goal
  <2> DEFINE row == [jobs[j] EXCEPT !.next_run_at = ts]
  <2>1. j \in DOMAIN jobs /\ jobs[j] \in JobRow /\ occurrences' = occurrences
        /\ jobs' = [jobs EXCEPT ![j] = row]
    BY <1>0, <1>7 DEF SetNextRunAt, Statement
  <2>2. RowChange(j)
    BY <1>7, <2>1 DEF RowChange, MovesCursor, JobRow
  <2>3. \A x \in DOMAIN jobs : x # j => RowChange(x)
    BY <1>0, <2>1, OneRow
  <2> QED
    BY <2>1, <2>2, <2>3
<1>8. ASSUME NEW j \in JobIds, NEW paused \in BOOLEAN, set_paused(j, paused)
      PROVE  Goal
  <2> DEFINE row == [jobs[j] EXCEPT !.is_paused = paused]
  <2>1. j \in DOMAIN jobs /\ jobs[j] \in JobRow /\ occurrences' = occurrences
        /\ jobs' = [jobs EXCEPT ![j] = row]
    BY <1>0, <1>8 DEF set_paused, Statement
  <2>2. jobs'[j].next_run_at = jobs[j].next_run_at /\ jobs'[j].is_paused = paused
    BY <2>1 DEF JobRow
  <2>3. paused = TRUE \/ paused = FALSE
    OBVIOUS
  <2>4. RowChange(j)
    BY <1>8, <2>2, <2>3 DEF RowChange
  <2>5. \A x \in DOMAIN jobs : x # j => RowChange(x)
    BY <1>0, <2>1, OneRow
  <2> QED
    BY <2>1, <2>4, <2>5
<1>9. ASSUME NEW j \in JobIds, Delete(j)
      PROVE  Goal
  <2>1. occurrences' = occurrences /\ \A x \in DOMAIN jobs' : jobs'[x] = jobs[x]
    BY <1>9 DEF Delete, Statement
  <2> QED
    BY <2>1 DEF RowChange
<1>10. ASSUME NEW j \in JobIds, NEW cron \in CorruptCrons, Corrupt(j, cron)
       PROVE  Goal
  <2> DEFINE row == [jobs[j] EXCEPT !.cron = cron]
  <2>1. j \in DOMAIN jobs /\ jobs[j] \in JobRow /\ occurrences' = occurrences
        /\ jobs' = [jobs EXCEPT ![j] = row]
    BY <1>0, <1>10 DEF Corrupt, Statement
  <2>2. jobs'[j].next_run_at = jobs[j].next_run_at /\ jobs'[j].is_paused = jobs[j].is_paused
    BY <2>1 DEF JobRow
  <2>3. RowChange(j)
    BY <2>2 DEF RowChange
  <2>4. \A x \in DOMAIN jobs : x # j => RowChange(x)
    BY <1>0, <2>1, OneRow
  <2> QED
    BY <2>1, <2>3, <2>4
<1>11. CASE \E w \in Workers : MaterializerStep(w) \/ PassLost(w)
  BY <1>1, <1>2, <1>3, <1>11 DEF MaterializerStep, PassStart, SelectDue, SelectAmong, PassIdle,
     NextAfterFails, PassLost
<1>12. CASE \E c \in Callers : CallerStep(c)
  BY <1>1, <1>4, <1>5, <1>6, <1>12 DEF CallerStep, Begin, CallFails
<1>13. CASE \E j \in JobIds : Administer(j)
  BY <1>7, <1>8, <1>9, <1>10, <1>13 DEF Administer
<1>14. CASE (\E o \in occurrences : Prune(o)) \/ Tick
  BY <1>1, <1>14 DEF Prune, Tick
<1> QED
  BY <1>11, <1>12, <1>13, <1>14 DEF Next

(* Only a materializer, which inserts the run of that slot in the same     *)
(* step, or an explicit reschedule moves a job past a due slot: jobs.rs's  *)
(* cursor invariant, through ensure_job, pause, resume and stale clocks.   *)
THEOREM CursorsMoveProperly == Spec => CursorInvariant
<1>1. ScheduleInv /\ [Next]_vars =>
        [\A j \in DOMAIN jobs \cap DOMAIN jobs' :
           /\ jobs[j].next_run_at <= now
           /\ jobs'[j].next_run_at # jobs[j].next_run_at
           => \/ <<j, jobs[j].next_run_at>> \in occurrences'
              \/ \E c \in Callers : ResetFromNow(c) /\ call[c].job = j
              \/ \E ts \in Pins : SetNextRunAt(j, ts)]_vars
  BY JobStep DEF RowChange, MovesCursor
<1> QED
  BY <1>1, ScheduleInvariant, PTL DEF Spec, CursorInvariant

(* A paused job makes no occurrence and only resume makes it active again. *)
THEOREM PausedJobsStayQuiet == Spec => PausedIsQuiet
<1>1. ScheduleInv /\ [Next]_vars =>
        [\A j \in DOMAIN jobs : jobs[j].is_paused =>
           /\ \A o \in occurrences' \ occurrences : o[1] # j
           /\ (j \in DOMAIN jobs' /\ ~jobs'[j].is_paused) => set_paused(j, FALSE)]_vars
  BY JobStep DEF RowChange
<1> QED
  BY <1>1, ScheduleInvariant, PTL DEF Spec, PausedIsQuiet
=============================================================================
