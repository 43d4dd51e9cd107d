----------------------------- MODULE RowValues -----------------------------
(***************************************************************************)
(* The values of a job or task on their way through the program: what a    *)
(* caller asks for, the constructors of src/models.rs and src/ids.rs, the  *)
(* columns they become, the CHECK constraints of the schema, and the       *)
(* conversions that read the columns back.                                 *)
(*                                                                         *)
(* One row is followed. Integers keep their bounds: the widths of i32 and  *)
(* i64 and the units of time are constants, so that both sides of every    *)
(* bound are reached with small numbers.                                   *)
(***************************************************************************)
EXTENDS Integers

CONSTANTS
    MAX_IDENTIFIER_LEN,  \* 255
    I32Max, I64Max,      \* the largest i32 and i64
    MaxSeconds,          \* bound: whole seconds of the durations asked for
    MicrosPerSecond, NanosPerMicro, MicrosPerDay,
    Crons,               \* cron expressions, as text
    Parses(_),           \* does croner parse the text
    Null

ASSUME UnitsAssumption ==
    /\ {MAX_IDENTIFIER_LEN, I32Max, I64Max, MicrosPerSecond, MicrosPerDay} \subseteq Nat \ {0}
    /\ NanosPerMicro \in Nat /\ NanosPerMicro > 3
    /\ MaxSeconds \in Nat
    /\ \E c \in Crons : Parses(c)

VARIABLES
    asked,   \* the values a caller got past the constructors, by field
    row,     \* the row followed, of scheduler_jobs or scheduler_runs, or Null
    edits,   \* columns of it edited in SQL since the program wrote it
    answer   \* what the last operation returned

vars == <<asked, row, edits, answer>>

-----------------------------------------------------------------------------
(* What a caller may pass *)

(* A text: its length in characters, whether whitespace surrounds it (ASCII *)
(* or other), and whether it contains the character NUL.                    *)
Texts == {t \in [len : 0 .. MAX_IDENTIFIER_LEN + 1,
                 pad : {"none", "ascii", "unicode"}, nul : BOOLEAN] :
            t.len >= (IF t.pad = "none" THEN 0 ELSE 1) + (IF t.nul THEN 1 ELSE 0)}

Durations == [secs : 0 .. MaxSeconds, nanos : 0 .. MicrosPerSecond * NanosPerMicro - 1]

Raw == [name |-> Texts, key |-> Texts \cup {Null}, cron |-> Crons,
        lease |-> Durations, attempts |-> 0 .. 2 * I32Max + 1, backoff |-> Durations]
Fields == DOMAIN Raw

-----------------------------------------------------------------------------
(* The constructors: TryFrom of the domain types *)

validate_identifier(s) ==
    IF s.len = 0 THEN "Empty"
    ELSE IF s.pad # "none" THEN "SurroundingWhitespace"
    ELSE IF s.len > MAX_IDENTIFIER_LEN THEN "TooLong" ELSE "Ok"

MaxAttempts(v) ==
    IF v > I32Max THEN "TooLarge" ELSE IF v = 0 THEN "NonPositive" ELSE "Ok"

as_micros(d) == d.secs * MicrosPerSecond + d.nanos \div NanosPerMicro

RetryBackoffFloored(d) == IF as_micros(d) > I64Max THEN "TooLarge" ELSE "Ok"
RetryBackoff(d) ==
    IF d.nanos % NanosPerMicro # 0 THEN "PrecisionLoss"
    ELSE IF as_micros(d) > I64Max THEN "TooLarge" ELSE "Ok"

LeaseDurationZeroToo(d) == RetryBackoff(d)
LeaseDuration(d) ==
    IF RetryBackoff(d) = "Ok" /\ as_micros(d) = 0 THEN "Zero" ELSE RetryBackoff(d)

Constructor(field, v) ==
    CASE field \in {"name", "key"} -> IF v = Null THEN "Ok" ELSE validate_identifier(v)
      [] field = "cron" -> IF Parses(v) THEN "Ok" ELSE "Cron"
      [] field = "lease" -> LeaseDuration(v)
      [] field = "attempts" -> MaxAttempts(v)
      [] field = "backoff" -> RetryBackoff(v)

-----------------------------------------------------------------------------
(* The columns and their CHECK constraints *)

Interval == [months : {-12, -1, 0, 1, 12}, days : -1 .. 1, micros : -1 .. I64Max]
Pure(micros) == [months |-> 0, days |-> 0, micros |-> micros]
to_pg_interval(d) == Pure(as_micros(d))

(* PostgreSQL compares intervals by their length, a month as 30 days. *)
Length(iv) == (iv.months * 30 + iv.days) * MicrosPerDay + iv.micros
Year(iv) == IF iv.months >= 0 THEN iv.months \div 12 ELSE -((-iv.months) \div 12)
Month(iv) == iv.months - 12 * Year(iv)

NoCalendarButYears(iv) == Month(iv) = 0 /\ iv.days = 0
NoCalendar(iv) == Year(iv) = 0 /\ Month(iv) = 0 /\ iv.days = 0

LeaseCheck(iv) == Length(iv) > 0 /\ NoCalendar(iv)
BackoffCheck(iv) == Length(iv) >= 0 /\ NoCalendar(iv)

LengthCheck(s) == s.len \in 1 .. MAX_IDENTIFIER_LEN
(* [[:space:]] is the ASCII whitespace. *)
NameCheck(s) == LengthCheck(s) /\ s.pad # "ascii"

(* scheduler_jobs has no deduplication_key, scheduler_runs no cron. *)
Checks(x) ==
    /\ NameCheck(x.name)
    /\ (x.key # Null => LengthCheck(x.key))
    /\ LeaseCheck(x.lease)
    /\ x.attempts >= 1
    /\ BackoffCheck(x.backoff)

(* PostgreSQL stores no NUL in a text. *)
Encodes(x) == ~x.name.nul /\ (x.key # Null => ~x.key.nul)

-----------------------------------------------------------------------------
(* The read boundary *)

backoff_from_pg_interval(iv) ==
    IF iv.months # 0 \/ iv.days # 0 THEN "CalendarComponent"
    ELSE IF iv.micros < 0 THEN "Negative" ELSE "Ok"
lease_from_pg_interval(iv) ==
    IF iv = Pure(0) THEN "Zero" ELSE backoff_from_pg_interval(iv)
from_db_i32(i) == IF i > 0 THEN "Ok" ELSE "NonPositive"

(* Job::try_from: the first conversion that fails makes the row corrupt. *)
Job(x) ==
    IF ~Parses(x.cron) THEN "CorruptCron"
    ELSE IF lease_from_pg_interval(x.lease) # "Ok" THEN "CorruptLease"
    ELSE IF from_db_i32(x.attempts) # "Ok" THEN "CorruptAttempts"
    ELSE IF backoff_from_pg_interval(x.backoff) # "Ok" THEN "CorruptBackoff" ELSE "Ok"

(* ClaimedRun: a lease that does not convert is SchedulerError::Invariant. *)
ClaimedRun(x) == IF lease_from_pg_interval(x.lease) = "Ok" THEN "Ok" ELSE "Invariant"

HeartbeatInMicros(lease) ==
    IF lease \div 3 = 0 THEN NanosPerMicro ELSE (lease \div 3) * NanosPerMicro
(* The heartbeat period of a lease of so many microseconds, in nanoseconds. *)
heartbeat_interval(lease) ==
    LET third == (lease * NanosPerMicro) \div 3
    IN  IF third = 0 THEN NanosPerMicro ELSE third

-----------------------------------------------------------------------------
(* The operations                                                          *)

Construct(field, v) ==
    /\ row = Null
    /\ answer' = Constructor(field, v)
    /\ asked' = IF answer' = "Ok" THEN [asked EXCEPT ![field] = v] ELSE asked
    /\ UNCHANGED <<row, edits>>

(* new_job, and the parameters of ENQUEUE: the columns of what was asked. *)
Columns(table) ==
    [table |-> table, name |-> asked.name, key |-> IF table = "runs" THEN asked.key ELSE Null,
     cron |-> IF table = "jobs" THEN asked.cron ELSE Null,
     lease |-> to_pg_interval(asked.lease), attempts |-> asked.attempts,
     backoff |-> to_pg_interval(asked.backoff)]

Complete == \A f \in Fields \ {"key"} : asked[f] # Null

(* An INSERT or UPDATE: the text must encode and the row pass its checks.   *)
(* The job operations then return the stored row as a Job.                  *)
Refusal(x) == IF ~Encodes(x) THEN "Encoding" ELSE IF ~Checks(x) THEN "Check" ELSE "Ok"
Write(x) ==
    /\ row' = IF Refusal(x) = "Ok" THEN x ELSE row
    /\ answer' = IF Refusal(x) = "Ok" /\ x.table = "jobs" THEN Job(x) ELSE Refusal(x)
    /\ UNCHANGED asked

create == row = Null /\ Complete /\ Write(Columns("jobs")) /\ UNCHANGED edits
enqueue == row = Null /\ Complete /\ Write(Columns("runs")) /\ UNCHANGED edits

Overwritten == {"cron", "lease", "attempts", "backoff"}
(* A redeploy: DO UPDATE SET overwrites every validated column of the row   *)
(* with that name; a row whose name was edited is not it.                   *)
ensure_job ==
    /\ row # Null /\ row.table = "jobs"
    /\ row.name = asked.name
    /\ Write([c \in DOMAIN row |->
                IF c \in Overwritten THEN Columns("jobs")[c] ELSE row[c]])
    /\ edits' = {}

(* INSERT_RUN: the run takes its columns from the stored job; followed next. *)
materialize ==
    /\ row # Null /\ row.table = "jobs" /\ Parses(row.cron)
    /\ Write([row EXCEPT !.table = "runs", !.cron = Null])
    /\ UNCHANGED edits

(* jobs::get, list and the admin route; claim_batch. *)
read ==
    /\ row # Null
    /\ answer' = IF row.table = "jobs" THEN Job(row) ELSE ClaimedRun(row)
    /\ UNCHANGED <<asked, row, edits>>

ColumnValues(c) ==
    CASE c = "name" -> {t \in Texts : ~t.nul}
      [] c = "key" -> IF row.table = "runs" THEN {t \in Texts : ~t.nul} ELSE {}
      [] c = "cron" -> IF row.table = "jobs" THEN Crons ELSE {}
      [] c \in {"lease", "backoff"} -> Interval
      [] c = "attempts" -> -1 .. I32Max

(* Somebody edits a column in SQL; the constraints still hold. *)
EditBySql(c) ==
    /\ row # Null
    /\ c \notin edits
    /\ \E v \in ColumnValues(c) :
         /\ Checks([row EXCEPT ![c] = v])
         /\ row' = [row EXCEPT ![c] = v]
    /\ edits' = edits \cup {c}
    /\ answer' = "Ok"
    /\ UNCHANGED asked

Init ==
    /\ asked = [f \in Fields |-> Null]
    /\ row = Null /\ edits = {} /\ answer = "Ok"

Next ==
    \/ \E f \in Fields : \E v \in Raw[f] : Construct(f, v)
    \/ create \/ enqueue \/ ensure_job \/ materialize \/ read
    \/ \E c \in Fields : EditBySql(c)

Spec == Init /\ [][Next]_vars

-----------------------------------------------------------------------------
(* What the constructors, the constraints and the conversions promise       *)

Stored == row # Null

(* A value the constructors accept never meets a CHECK constraint, and the   *)
(* run of a stored job never meets one that the job did not: materialization *)
(* cannot fail on the values of a row, whoever wrote it.                     *)
ConstraintsNeverRefuse == answer # "Check"

Nanos(d) == d.secs * MicrosPerSecond * NanosPerMicro + d.nanos

(* A row nobody edited fits its columns and reads back as exactly what the   *)
(* caller asked for, to the nanosecond: "the persisted PG interval always    *)
(* equals what the caller asked for".                                        *)
ReadsBackAsAsked ==
    (Stored /\ edits = {}) =>
        /\ (row.table = "jobs" => Job(row) = "Ok") /\ ClaimedRun(row) = "Ok"
        /\ row.name = asked.name /\ row.attempts = asked.attempts
        /\ row.attempts <= I32Max /\ row.lease.micros <= I64Max /\ row.backoff.micros <= I64Max
        /\ row.lease.micros * NanosPerMicro = Nanos(asked.lease)
        /\ row.backoff.micros * NanosPerMicro = Nanos(asked.backoff)
        /\ (row.table = "jobs" => row.cron = asked.cron)

(* Whatever is written in SQL, only a cron expression makes a stored job     *)
(* corrupt, no task is ever claimed with a lease that does not convert, and  *)
(* a stored name that the identifier policy would refuse has whitespace      *)
(* around it that is not ASCII: the constraints and the read boundary draw   *)
(* the same line, up to that.                                                *)
OnlyCronCorrupts ==
    Stored => /\ (row.table = "jobs" => Job(row) \in {"Ok", "CorruptCron"})
              /\ ClaimedRun(row) = "Ok" /\ from_db_i32(row.attempts) = "Ok"
              /\ backoff_from_pg_interval(row.backoff) = "Ok"
              /\ validate_identifier(row.name) # "Ok" =>
                   "name" \in edits /\ row.name.pad = "unicode"

(* The heartbeat period of every claimable lease is positive and shorter     *)
(* than the lease. That a renewal comes in time is not said: the sleep that  *)
(* waits for it (worker.rs:242) counts in whole milliseconds, rounded up, so *)
(* a lease below one millisecond has always ended by its first heartbeat.    *)
HeartbeatInsideLease ==
    Stored => LET lease == row.lease.micros IN
              heartbeat_interval(lease) \in 1 .. lease * NanosPerMicro - 1

(***************************************************************************)
(* The inductive invariant behind RowValuesProofs.                         *)
(***************************************************************************)

(* What the caller holds went through the constructors. *)
AskedValid ==
    /\ asked = [f \in Fields |-> asked[f]]
    /\ \A f \in Fields : asked[f] # Null =>
         asked[f] \in Raw[f] /\ Constructor(f, asked[f]) = "Ok"

(* The columns hold what their types admit, whoever wrote them. *)
ColumnsTyped(x) ==
    /\ x = [c \in {"table"} \cup Fields |-> x[c]]
    /\ x.table \in {"jobs", "runs"}
    /\ x.name \in Texts /\ x.key \in Texts \cup {Null}
    /\ x.lease \in Interval /\ x.attempts \in Int /\ x.backoff \in Interval

(* A column nobody edited is what was asked for. *)
UneditedAsAsked ==
    /\ "name" \notin edits => row.name = asked.name
    /\ "cron" \notin edits /\ row.table = "jobs" => row.cron = asked.cron
    /\ "lease" \notin edits => row.lease = to_pg_interval(asked.lease)
    /\ "attempts" \notin edits => row.attempts = asked.attempts
    /\ "backoff" \notin edits => row.backoff = to_pg_interval(asked.backoff)

RowInv ==
    /\ AskedValid
    /\ ConstraintsNeverRefuse
    /\ Stored => Complete /\ ColumnsTyped(row) /\ Encodes(row) /\ Checks(row) /\ UneditedAsAsked
=============================================================================
