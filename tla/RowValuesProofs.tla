-------------------------- MODULE RowValuesProofs --------------------------
(***************************************************************************)
(* Theorems about RowValues, for every width of the integers and every     *)
(* unit of time: the constructors, the constraints of the schema and the   *)
(* read boundary draw the same lines.                                      *)
(***************************************************************************)
EXTENDS RowValues, TLAPS

-----------------------------------------------------------------------------
(* Arithmetic                                                              *)

(* Whole microseconds: of a duration, nothing is lost. *)
LEMMA ExactDivision ==
    ASSUME NEW a \in Nat, NEW n \in Nat, n > 0, a % n = 0
    PROVE  a \div n \in Nat /\ (a \div n) * n = a
<1>1. a \div n \in Nat
  OBVIOUS
<1>2. a = n * (a \div n) + (a % n)
  OBVIOUS
<1> QED
  BY <1>1, <1>2

LEMMA MicrosFacts ==
    ASSUME NEW d \in Durations
    PROVE  /\ as_micros(d) \in Nat
           /\ d.nanos % NanosPerMicro = 0 => as_micros(d) * NanosPerMicro = Nanos(d)
<1> DEFINE q == d.nanos \div NanosPerMicro
<1>1. /\ d.secs \in Nat /\ d.nanos \in Nat
      /\ MicrosPerSecond \in Nat /\ NanosPerMicro \in Nat /\ NanosPerMicro > 0
  BY UnitsAssumption DEF Durations
<1>2. PICK s \in Nat : s = d.secs * MicrosPerSecond
  BY <1>1
<1>3. q \in Nat
  BY <1>1
<1>4. as_micros(d) = s + q
  BY <1>2 DEF as_micros
<1>5. Nanos(d) = s * NanosPerMicro + d.nanos
  BY <1>2 DEF Nanos
<1>6. ASSUME d.nanos % NanosPerMicro = 0
      PROVE  q * NanosPerMicro = d.nanos
  BY <1>1, <1>6, ExactDivision
<1> HIDE DEF q
<1>7. (s + q) * NanosPerMicro = s * NanosPerMicro + q * NanosPerMicro
  BY <1>1, <1>3
<1> QED
  BY <1>3, <1>4, <1>5, <1>6, <1>7

(* A third of a lease, of at least a microsecond, lies inside it. *)
LEMMA ThirdInside ==
    ASSUME NEW lease \in Nat, lease > 0
    PROVE  heartbeat_interval(lease) \in 1 .. lease * NanosPerMicro - 1
<1>1. NanosPerMicro \in Nat /\ NanosPerMicro > 3
  BY UnitsAssumption
<1>2. PICK p \in Nat : p = lease * NanosPerMicro
  BY <1>1
<1>3. PICK l \in Nat : l = lease - 1
  OBVIOUS
<1>4. p = l * NanosPerMicro + NanosPerMicro /\ l * NanosPerMicro \in Nat
  BY <1>1, <1>2, <1>3
<1>5. p > 3
  BY <1>1, <1>4
<1>6. p \div 3 \in 1 .. p - 1
  BY <1>5
<1>7. heartbeat_interval(lease) = p \div 3
  BY <1>2, <1>6 DEF heartbeat_interval
<1> QED
  BY <1>2, <1>6, <1>7

(* An interval without calendar fields is as long as its microseconds. *)
LEMMA PureLength ==
    ASSUME NEW iv \in Interval, NoCalendar(iv)
    PROVE  iv.months = 0 /\ iv.days = 0 /\ Length(iv) = iv.micros
<1>1. iv.months \in Int /\ iv.days = 0 /\ iv.micros \in Int
  BY UnitsAssumption DEF Interval, NoCalendar
<1>2. Year(iv) = 0 /\ iv.months - 12 * Year(iv) = 0
  BY DEF NoCalendar, Month
<1>3. iv.months = 0
  BY <1>1, <1>2
<1>4. (iv.months * 30 + iv.days) * MicrosPerDay = 0
  BY <1>1, <1>3, UnitsAssumption
<1> QED
  BY <1>1, <1>3, <1>4 DEF Length

LEMMA PureNoCalendar ==
    ASSUME NEW m \in Nat
    PROVE  NoCalendar(Pure(m)) /\ Length(Pure(m)) = m
<1>1. Pure(m).months = 0 /\ Pure(m).days = 0 /\ Pure(m).micros = m
  BY DEF Pure
<1>2. Year(Pure(m)) = 0
  BY <1>1 DEF Year
<1>3. Month(Pure(m)) = 0
  BY <1>1, <1>2 DEF Month
<1>4. (0 * 30 + 0) * MicrosPerDay = 0
  BY UnitsAssumption
<1> QED
  BY <1>1, <1>2, <1>3, <1>4 DEF NoCalendar, Length

-----------------------------------------------------------------------------
(* What the constructors accept                                            *)

LEMMA ConstructedInterval ==
    ASSUME NEW d \in Durations, RetryBackoff(d) = "Ok"
    PROVE  /\ to_pg_interval(d) \in Interval
           /\ BackoffCheck(to_pg_interval(d))
           /\ to_pg_interval(d).micros * NanosPerMicro = Nanos(d)
           /\ LeaseDuration(d) = "Ok" => LeaseCheck(to_pg_interval(d))
<1>1. as_micros(d) \in Nat /\ as_micros(d) <= I64Max /\ d.nanos % NanosPerMicro = 0
  BY MicrosFacts, UnitsAssumption DEF RetryBackoff
<1>2. as_micros(d) * NanosPerMicro = Nanos(d)
  BY <1>1, MicrosFacts
<1>3. PICK m \in Nat : m = as_micros(d)
  BY <1>1
<1>4. to_pg_interval(d) = [months |-> 0, days |-> 0, micros |-> m]
  BY <1>3 DEF to_pg_interval, Pure
<1>5. m \in -1 .. I64Max
  BY <1>1, <1>3, UnitsAssumption
<1>6. to_pg_interval(d) \in Interval
  BY <1>4, <1>5 DEF Interval
<1>7. NoCalendar(to_pg_interval(d)) /\ Length(to_pg_interval(d)) = m
  BY <1>3, PureNoCalendar DEF to_pg_interval
<1>8. LeaseDuration(d) = "Ok" => m > 0
  BY <1>3 DEF LeaseDuration
<1> QED
  BY <1>2, <1>3, <1>4, <1>6, <1>7, <1>8 DEF BackoffCheck, LeaseCheck

LEMMA ConstructedName ==
    ASSUME NEW s \in Texts, validate_identifier(s) = "Ok"
    PROVE  NameCheck(s) /\ s.pad = "none"
<1>1. s.len \in 0 .. MAX_IDENTIFIER_LEN + 1
  BY DEF Texts
<1> QED
  BY <1>1, UnitsAssumption DEF validate_identifier, NameCheck, LengthCheck

(* The columns of what was asked for fit the table and pass its checks. *)
LEMMA ColumnsFit ==
    ASSUME AskedValid, Complete, NEW table \in {"jobs", "runs"}
    PROVE  LET x == Columns(table) IN
           /\ ColumnsTyped(x) /\ Checks(x)
           /\ x.table = table
           /\ x.attempts <= I32Max /\ validate_identifier(x.name) = "Ok"
           /\ x.lease.micros * NanosPerMicro = Nanos(asked.lease)
           /\ x.backoff.micros * NanosPerMicro = Nanos(asked.backoff)
<1>0. {"name", "key", "cron", "lease", "attempts", "backoff"} = Fields
  BY DEF Fields, Raw
<1>1. asked.name \in Texts /\ validate_identifier(asked.name) = "Ok"
  BY <1>0 DEF AskedValid, Complete, Raw, Constructor
<1>2. asked.key \in Texts \cup {Null} /\ (asked.key # Null => validate_identifier(asked.key) = "Ok")
  BY <1>0 DEF AskedValid, Raw, Constructor
<1>3. asked.lease \in Durations /\ LeaseDuration(asked.lease) = "Ok"
  BY <1>0 DEF AskedValid, Complete, Raw, Constructor
<1>4. asked.backoff \in Durations /\ RetryBackoff(asked.backoff) = "Ok"
  BY <1>0 DEF AskedValid, Complete, Raw, Constructor
<1>5. asked.attempts \in 0 .. 2 * I32Max + 1 /\ MaxAttempts(asked.attempts) = "Ok"
  BY <1>0 DEF AskedValid, Complete, Raw, Constructor
<1>6. RetryBackoff(asked.lease) = "Ok"
  BY <1>3 DEF LeaseDuration
<1>7. asked.attempts \in Int /\ asked.attempts >= 1 /\ asked.attempts <= I32Max
  BY <1>5, UnitsAssumption DEF MaxAttempts
<1> DEFINE x == Columns(table)
<1>8. /\ x.table = table /\ x.name = asked.name
      /\ x.key = (IF table = "runs" THEN asked.key ELSE Null)
      /\ x.lease = to_pg_interval(asked.lease)
      /\ x.attempts = asked.attempts /\ x.backoff = to_pg_interval(asked.backoff)
  BY DEF Columns
<1>9. x = [c \in {"table"} \cup Fields |-> x[c]]
  BY <1>0 DEF Columns
<1>10. x.lease \in Interval /\ LeaseCheck(x.lease)
       /\ x.lease.micros * NanosPerMicro = Nanos(asked.lease)
  BY <1>3, <1>6, <1>8, ConstructedInterval
<1>11. x.backoff \in Interval /\ BackoffCheck(x.backoff)
       /\ x.backoff.micros * NanosPerMicro = Nanos(asked.backoff)
  BY <1>4, <1>8, ConstructedInterval
<1>12. NameCheck(x.name) /\ (x.key # Null => LengthCheck(x.key))
  BY <1>1, <1>2, <1>8, ConstructedName DEF NameCheck
<1> HIDE DEF x
<1>13. ColumnsTyped(x)
  BY <1>1, <1>2, <1>7, <1>8, <1>9, <1>10, <1>11 DEF ColumnsTyped
<1>14. Checks(x)
  BY <1>7, <1>8, <1>10, <1>11, <1>12 DEF Checks
<1> QED
  BY <1>1, <1>7, <1>8, <1>10, <1>11, <1>13, <1>14 DEF x

-----------------------------------------------------------------------------
(* What the constraints let through                                        *)

LEMMA CheckedRowReads ==
    ASSUME NEW x, ColumnsTyped(x), Checks(x)
    PROVE  /\ lease_from_pg_interval(x.lease) = "Ok"
           /\ backoff_from_pg_interval(x.backoff) = "Ok"
           /\ from_db_i32(x.attempts) = "Ok"
           /\ Job(x) = IF Parses(x.cron) THEN "Ok" ELSE "CorruptCron"
           /\ ClaimedRun(x) = "Ok"
           /\ x.lease.micros \in Nat /\ x.lease.micros > 0
           /\ x.lease.micros <= I64Max /\ x.backoff.micros <= I64Max
<1>1. x.lease \in Interval /\ x.backoff \in Interval /\ x.attempts \in Int
  BY DEF ColumnsTyped
<1>2. NoCalendar(x.lease) /\ Length(x.lease) > 0 /\ NoCalendar(x.backoff)
      /\ Length(x.backoff) >= 0 /\ x.attempts >= 1
  BY DEF Checks, LeaseCheck, BackoffCheck
<1>3. x.lease.months = 0 /\ x.lease.days = 0 /\ x.lease.micros > 0
  BY <1>1, <1>2, PureLength
<1>4. x.backoff.months = 0 /\ x.backoff.days = 0 /\ x.backoff.micros >= 0
  BY <1>1, <1>2, PureLength
<1>5. x.lease.micros \in -1 .. I64Max /\ x.backoff.micros \in -1 .. I64Max
  BY <1>1 DEF Interval
<1>6. x.lease.micros \in Nat /\ x.lease.micros <= I64Max /\ x.backoff.micros <= I64Max
      /\ x.backoff.micros \in Int
  BY <1>3, <1>5, UnitsAssumption
<1>7. x.lease # Pure(0)
  BY <1>3, <1>6 DEF Pure
<1>8. lease_from_pg_interval(x.lease) = "Ok"
  BY <1>3, <1>6, <1>7 DEF lease_from_pg_interval, backoff_from_pg_interval
<1>9. backoff_from_pg_interval(x.backoff) = "Ok"
  BY <1>4, <1>6 DEF backoff_from_pg_interval
<1>10. from_db_i32(x.attempts) = "Ok"
  BY <1>1, <1>2 DEF from_db_i32
<1>11. Job(x) = IF Parses(x.cron) THEN "Ok" ELSE "CorruptCron"
  BY <1>8, <1>9, <1>10 DEF Job
<1>12. ClaimedRun(x) = "Ok"
  BY <1>8 DEF ClaimedRun
<1> QED
  BY <1>3, <1>6, <1>8, <1>9, <1>10, <1>11, <1>12

-----------------------------------------------------------------------------
(* Every operation                                                         *)

StoredInv == Complete /\ ColumnsTyped(row) /\ Encodes(row) /\ Checks(row) /\ UneditedAsAsked

(* No constructor answers as a constraint does. *)
LEMMA ConstructorAnswers ==
    ASSUME NEW f \in Fields, NEW v
    PROVE  Constructor(f, v) # "Check"
<1>0. f \in {"name", "key", "cron", "lease", "attempts", "backoff"}
  BY DEF Fields, Raw
<1>1. validate_identifier(v) # "Check"
  BY DEF validate_identifier
<1>2. MaxAttempts(v) # "Check"
  BY DEF MaxAttempts
<1>3. RetryBackoff(v) # "Check" /\ LeaseDuration(v) # "Check"
  BY DEF RetryBackoff, LeaseDuration
<1> QED
  BY <1>0, <1>1, <1>2, <1>3 DEF Constructor

LEMMA ConstructStep ==
    ASSUME RowInv, NEW f \in Fields, NEW v \in Raw[f], Construct(f, v)
    PROVE  RowInv'
<1>1. AskedValid'
  <2>1. CASE Constructor(f, v) # "Ok"
    BY <2>1 DEF Construct, RowInv, AskedValid
  <2>2. CASE Constructor(f, v) = "Ok"
    <3>1. asked' = [asked EXCEPT ![f] = v]
      BY <2>2 DEF Construct
    <3>2. asked = [g \in Fields |-> asked[g]]
      BY DEF RowInv, AskedValid
    <3>3. asked' = [g \in Fields |-> IF g = f THEN v ELSE asked[g]]
      BY <3>1, <3>2
    <3>4. asked' = [g \in Fields |-> asked'[g]]
      BY <3>3
    <3>5. ASSUME NEW g \in Fields, asked'[g] # Null
          PROVE  asked'[g] \in Raw[g] /\ Constructor(g, asked'[g]) = "Ok"
      BY <2>2, <3>3, <3>5 DEF RowInv, AskedValid
    <3> QED
      BY <3>4, <3>5 DEF AskedValid
  <2> QED
    BY <2>1, <2>2
<1>2. ConstraintsNeverRefuse'
  BY ConstructorAnswers DEF Construct, ConstraintsNeverRefuse
<1>3. ~Stored'
  BY DEF Construct, Stored
<1> QED
  BY <1>1, <1>2, <1>3 DEF RowInv

(* A write of a row that fits is refused at most for its encoding. *)
LEMMA WriteFits ==
    ASSUME NEW x, ColumnsTyped(x), Checks(x), Write(x)
    PROVE  /\ ConstraintsNeverRefuse'
           /\ row' = IF Encodes(x) THEN x ELSE row
           /\ asked' = asked
<1>1. Refusal(x) = IF Encodes(x) THEN "Ok" ELSE "Encoding"
  BY DEF Refusal
<1>2. Job(x) # "Check"
  BY CheckedRowReads
<1> QED
  BY <1>1, <1>2 DEF Write, ConstraintsNeverRefuse

LEMMA InsertStep ==
    ASSUME RowInv, create \/ enqueue
    PROVE  RowInv'
<1>1. PICK table \in {"jobs", "runs"} :
        row = Null /\ Complete /\ Write(Columns(table)) /\ UNCHANGED edits
  BY DEF create, enqueue
<1>2. AskedValid
  BY DEF RowInv
<1>3. PICK x : x = Columns(table)
  OBVIOUS
<1>4. ColumnsTyped(x) /\ Checks(x) /\ Write(x) /\ x.table = table
  BY <1>1, <1>2, <1>3, ColumnsFit
<1>5. ConstraintsNeverRefuse' /\ row' = (IF Encodes(x) THEN x ELSE row) /\ asked' = asked
  BY <1>4, WriteFits
<1>6. AskedValid' /\ Complete'
  BY <1>1, <1>2, <1>5 DEF AskedValid, Complete
<1>7. ASSUME Stored' PROVE StoredInv'
  <2>1. Encodes(x) /\ row' = x
    BY <1>1, <1>5, <1>7 DEF Stored
  <2>2. /\ x.name = asked.name /\ (table = "jobs" => x.cron = asked.cron)
        /\ x.lease = to_pg_interval(asked.lease) /\ x.attempts = asked.attempts
        /\ x.backoff = to_pg_interval(asked.backoff)
    BY <1>3 DEF Columns
  <2>3. UneditedAsAsked'
    BY <1>4, <1>5, <2>1, <2>2 DEF UneditedAsAsked
  <2>4. (ColumnsTyped(row) /\ Encodes(row) /\ Checks(row))'
    BY <1>4, <2>1 DEF ColumnsTyped, Encodes, Checks
  <2> QED
    BY <1>6, <2>3, <2>4 DEF StoredInv
<1> QED
  BY <1>5, <1>6, <1>7 DEF RowInv, StoredInv

(* A stored row rewritten by a row that fits and encodes. *)
LEMMA RewriteStep ==
    ASSUME RowInv, Stored, NEW x, ColumnsTyped(x), Checks(x), Encodes(x),
           ConstraintsNeverRefuse', row' = x, asked' = asked, UneditedAsAsked'
    PROVE  RowInv'
<1>1. AskedValid /\ Complete
  BY DEF RowInv
<1>2. AskedValid' /\ Complete'
  BY <1>1 DEF AskedValid, Complete
<1>3. (ColumnsTyped(row) /\ Encodes(row) /\ Checks(row))'
  BY DEF ColumnsTyped, Encodes, Checks
<1> QED
  BY <1>2, <1>3 DEF RowInv

(* The redeploy: the validated columns are the caller's, the rest stays. *)
LEMMA EnsureStep ==
    ASSUME RowInv, ensure_job
    PROVE  RowInv'
<1>0. Stored /\ AskedValid /\ Complete /\ ColumnsTyped(row) /\ Encodes(row) /\ Checks(row)
      /\ row.table = "jobs" /\ row.name = asked.name
  BY DEF ensure_job, Stored, RowInv
<1>1. PICK y : y = Columns("jobs")
  OBVIOUS
<1>2. ColumnsTyped(y) /\ Checks(y)
  BY <1>0, <1>1, ColumnsFit
<1>3. PICK x : x = [c \in DOMAIN row |-> IF c \in Overwritten THEN y[c] ELSE row[c]]
  OBVIOUS
<1>4. Write(x) /\ edits' = {}
  BY <1>1, <1>3 DEF ensure_job
<1>5. DOMAIN row = {"table"} \cup {"name", "key", "cron", "lease", "attempts", "backoff"}
      /\ DOMAIN row = {"table"} \cup Fields
  BY <1>0 DEF ColumnsTyped, Fields, Raw
<1>6. /\ x.table = row.table /\ x.name = row.name /\ x.key = row.key
      /\ x.cron = y.cron /\ x.lease = y.lease /\ x.attempts = y.attempts
      /\ x.backoff = y.backoff
  BY <1>3, <1>5 DEF Overwritten
<1>7. x = [c \in {"table"} \cup Fields |-> x[c]]
  BY <1>3, <1>5
<1>8. ColumnsTyped(x)
  BY <1>0, <1>2, <1>6, <1>7 DEF ColumnsTyped
<1>9. Checks(x) /\ Encodes(x)
  BY <1>0, <1>2, <1>6 DEF Checks, Encodes
<1>10. ConstraintsNeverRefuse' /\ row' = x /\ asked' = asked
  BY <1>4, <1>8, <1>9, WriteFits
<1>11. /\ y.cron = asked.cron /\ y.lease = to_pg_interval(asked.lease)
       /\ y.attempts = asked.attempts /\ y.backoff = to_pg_interval(asked.backoff)
  BY <1>1 DEF Columns
<1>12. UneditedAsAsked'
  BY <1>0, <1>6, <1>10, <1>11 DEF UneditedAsAsked
<1> QED
  BY <1>0, <1>8, <1>9, <1>10, <1>12, RewriteStep

(* The run of a stored job has the columns of the job. *)
LEMMA MaterializeStep ==
    ASSUME RowInv, materialize
    PROVE  RowInv'
<1>0. Stored /\ ColumnsTyped(row) /\ Encodes(row) /\ Checks(row) /\ UneditedAsAsked
  BY DEF materialize, Stored, RowInv
<1>1. PICK x : x = [row EXCEPT !.table = "runs", !.cron = Null]
  OBVIOUS
<1>2. Write(x) /\ edits' = edits
  BY <1>1 DEF materialize
<1>3. "table" \in {"table"} \cup Fields /\ "cron" \in {"table"} \cup Fields
      /\ {"name", "key", "lease", "attempts", "backoff"} \subseteq Fields
  BY DEF Fields, Raw
<1>4. PICK row0 : row0 = row
  OBVIOUS
<1>5. row0 = [c \in {"table"} \cup Fields |-> row0[c]]
  BY <1>0, <1>4 DEF ColumnsTyped
<1>6. x = [c \in {"table"} \cup Fields |->
             IF c = "cron" THEN Null ELSE IF c = "table" THEN "runs" ELSE row0[c]]
  BY <1>1, <1>3, <1>4, <1>5
<1>7. /\ x.table = "runs" /\ x.name = row.name /\ x.key = row.key /\ x.lease = row.lease
      /\ x.attempts = row.attempts /\ x.backoff = row.backoff
  BY <1>3, <1>4, <1>6
<1>8. x = [c \in {"table"} \cup Fields |-> x[c]]
  BY <1>6
<1>9. ColumnsTyped(x)
  BY <1>0, <1>7, <1>8 DEF ColumnsTyped
<1>10. Checks(x) /\ Encodes(x)
  BY <1>0, <1>7 DEF Checks, Encodes
<1>11. ConstraintsNeverRefuse' /\ row' = x /\ asked' = asked
  BY <1>2, <1>9, <1>10, WriteFits
<1>12. UneditedAsAsked'
  BY <1>0, <1>2, <1>7, <1>11 DEF UneditedAsAsked
<1> QED
  BY <1>0, <1>9, <1>10, <1>11, <1>12, RewriteStep

LEMMA ReadStep ==
    ASSUME RowInv, read
    PROVE  RowInv'
<1>0. Stored /\ ColumnsTyped(row) /\ Encodes(row) /\ Checks(row) /\ UneditedAsAsked
  BY DEF read, Stored, RowInv
<1>1. PICK x : x = row
  OBVIOUS
<1>2. ColumnsTyped(x) /\ Encodes(x) /\ Checks(x)
  BY <1>0, <1>1
<1>3. Job(x) # "Check" /\ ClaimedRun(x) # "Check"
  BY <1>2, CheckedRowReads
<1>4. ConstraintsNeverRefuse'
  BY <1>1, <1>3 DEF read, ConstraintsNeverRefuse
<1>5. row' = x /\ asked' = asked /\ edits' = edits
  BY <1>1 DEF read
<1>6. UneditedAsAsked'
  BY <1>0, <1>1, <1>5 DEF UneditedAsAsked
<1> QED
  BY <1>0, <1>2, <1>4, <1>5, <1>6, RewriteStep

(* An edit in SQL passes the constraints, and is remembered as an edit. *)
LEMMA EditStep ==
    ASSUME RowInv, NEW c \in Fields, EditBySql(c)
    PROVE  RowInv'
<1>0. Stored /\ ColumnsTyped(row) /\ Encodes(row) /\ Checks(row) /\ UneditedAsAsked
  BY DEF EditBySql, Stored, RowInv
<1>1. PICK v \in ColumnValues(c) : Checks([row EXCEPT ![c] = v]) /\ row' = [row EXCEPT ![c] = v]
  BY DEF EditBySql
<1>2. PICK x : x = [row EXCEPT ![c] = v]
  OBVIOUS
<1>3. Checks(x) /\ row' = x /\ asked' = asked /\ edits' = edits \cup {c} /\ answer' = "Ok"
  BY <1>1, <1>2 DEF EditBySql
<1>4. Fields = {"name", "key", "cron", "lease", "attempts", "backoff"}
  BY DEF Fields, Raw
<1>5. PICK row0 : row0 = row
  OBVIOUS
<1>6. row0 = [d \in {"table"} \cup Fields |-> row0[d]]
  BY <1>0, <1>5 DEF ColumnsTyped
<1>7. x = [d \in {"table"} \cup Fields |-> IF d = c THEN v ELSE row0[d]]
  BY <1>2, <1>5, <1>6
<1>8. x = [d \in {"table"} \cup Fields |-> x[d]]
  BY <1>7
<1>9. /\ x.table = row.table
      /\ x.name = IF c = "name" THEN v ELSE row.name
      /\ x.key = IF c = "key" THEN v ELSE row.key
      /\ x.cron = IF c = "cron" THEN v ELSE row.cron
      /\ x.lease = IF c = "lease" THEN v ELSE row.lease
      /\ x.attempts = IF c = "attempts" THEN v ELSE row.attempts
      /\ x.backoff = IF c = "backoff" THEN v ELSE row.backoff
  BY <1>4, <1>5, <1>7
<1>10. /\ c \in {"name", "key"} => v \in Texts /\ ~v.nul
       /\ c \in {"lease", "backoff"} => v \in Interval
       /\ c = "attempts" => v \in -1 .. I32Max
  BY <1>4 DEF ColumnValues
<1>11. c = "attempts" => v \in Int
  BY <1>10
<1>12. ColumnsTyped(x)
  BY <1>0, <1>8, <1>9, <1>10, <1>11 DEF ColumnsTyped
<1>13. Encodes(x)
  BY <1>0, <1>9, <1>10 DEF Encodes
<1>14. UneditedAsAsked'
  BY <1>0, <1>3, <1>9 DEF UneditedAsAsked
<1>15. ConstraintsNeverRefuse'
  BY <1>3 DEF ConstraintsNeverRefuse
<1> QED
  BY <1>0, <1>3, <1>12, <1>13, <1>14, <1>15, RewriteStep

LEMMA RowStep == RowInv /\ [Next]_vars => RowInv'
<1> SUFFICES ASSUME RowInv, [Next]_vars PROVE RowInv'
  OBVIOUS
<1>1. CASE UNCHANGED vars
  <2>1. asked' = asked /\ row' = row /\ edits' = edits /\ answer' = answer
    BY <1>1 DEF vars
  <2> QED
    BY <2>1 DEF RowInv, AskedValid, ConstraintsNeverRefuse, Stored, Complete, ColumnsTyped,
                Encodes, Checks, UneditedAsAsked
<1> QED
  BY <1>1, ConstructStep, InsertStep, EnsureStep, MaterializeStep, ReadStep, EditStep DEF Next

(* The inductive invariant of the rows. *)
THEOREM RowInvariant == Spec => []RowInv
<1>1. Init => RowInv
  BY DEF Init, RowInv, AskedValid, ConstraintsNeverRefuse, Stored
<1>2. RowInv /\ [Next]_vars => RowInv'
  BY RowStep
<1> QED
  BY <1>1, <1>2, PTL DEF Spec

(* No CHECK constraint of the schema refuses what the constructors of      *)
(* src/models.rs accept, and none refuses the run of a stored job.         *)
THEOREM ConstraintsAreNeverMet == Spec => []ConstraintsNeverRefuse
<1>1. RowInv => ConstraintsNeverRefuse
  BY DEF RowInv
<1> QED
  BY <1>1, RowInvariant, PTL

(* A row that only the program wrote reads back as what was asked for, to  *)
(* the nanosecond, for integers of every width and every unit of time.     *)
THEOREM RowsReadBack == Spec => []ReadsBackAsAsked
<1>1. ASSUME RowInv, Stored, edits = {}
      PROVE  /\ (row.table = "jobs" => Job(row) = "Ok") /\ ClaimedRun(row) = "Ok"
             /\ row.name = asked.name /\ row.attempts = asked.attempts
             /\ row.attempts <= I32Max
             /\ row.lease.micros <= I64Max /\ row.backoff.micros <= I64Max
             /\ row.lease.micros * NanosPerMicro = Nanos(asked.lease)
             /\ row.backoff.micros * NanosPerMicro = Nanos(asked.backoff)
             /\ (row.table = "jobs" => row.cron = asked.cron)
  <2>0. AskedValid /\ Complete /\ ColumnsTyped(row) /\ Checks(row) /\ UneditedAsAsked
    BY <1>1 DEF RowInv
  <2>1. /\ row.name = asked.name /\ (row.table = "jobs" => row.cron = asked.cron)
        /\ row.lease = to_pg_interval(asked.lease) /\ row.attempts = asked.attempts
        /\ row.backoff = to_pg_interval(asked.backoff)
    BY <1>1, <2>0 DEF UneditedAsAsked
  <2>2. PICK y : y = Columns("jobs")
    OBVIOUS
  <2>3. /\ y.attempts <= I32Max
        /\ y.lease.micros * NanosPerMicro = Nanos(asked.lease)
        /\ y.backoff.micros * NanosPerMicro = Nanos(asked.backoff)
    BY <2>0, <2>2, ColumnsFit
  <2>4. y.attempts = row.attempts /\ y.lease = row.lease /\ y.backoff = row.backoff
    BY <2>1, <2>2 DEF Columns
  <2>5. PICK x : x = row
    OBVIOUS
  <2>6. /\ Job(x) = (IF Parses(x.cron) THEN "Ok" ELSE "CorruptCron") /\ ClaimedRun(x) = "Ok"
        /\ x.lease.micros <= I64Max /\ x.backoff.micros <= I64Max
    BY <2>0, <2>5, CheckedRowReads
  <2>7. row.table = "jobs" => Parses(row.cron)
    <3>1. Parses(asked.cron)
      BY <2>0 DEF AskedValid, Complete, Fields, Raw, Constructor
    <3> QED
      BY <2>1, <3>1
  <2> QED
    BY <2>1, <2>3, <2>4, <2>5, <2>6, <2>7
<1>2. RowInv => ReadsBackAsAsked
  BY <1>1 DEF ReadsBackAsAsked
<1> QED
  BY <1>2, RowInvariant, PTL

(* Whatever is edited in SQL, the constraints leave the read boundary only *)
(* the cron expression to refuse.                                          *)
THEOREM OnlyCronIsRefused == Spec => []OnlyCronCorrupts
<1>1. ASSUME RowInv, Stored
      PROVE  /\ (row.table = "jobs" => Job(row) \in {"Ok", "CorruptCron"})
             /\ ClaimedRun(row) = "Ok" /\ from_db_i32(row.attempts) = "Ok"
             /\ backoff_from_pg_interval(row.backoff) = "Ok"
             /\ validate_identifier(row.name) # "Ok" =>
                  "name" \in edits /\ row.name.pad = "unicode"
  <2>0. AskedValid /\ Complete /\ ColumnsTyped(row) /\ Checks(row) /\ UneditedAsAsked
    BY <1>1 DEF RowInv
  <2>1. PICK x : x = row
    OBVIOUS
  <2>2. /\ Job(x) \in {"Ok", "CorruptCron"} /\ ClaimedRun(x) = "Ok"
        /\ from_db_i32(x.attempts) = "Ok" /\ backoff_from_pg_interval(x.backoff) = "Ok"
    BY <2>0, <2>1, CheckedRowReads
  <2>3. "name" \notin edits => validate_identifier(row.name) = "Ok"
    <3>1. PICK y : y = Columns("jobs")
      OBVIOUS
    <3>2. validate_identifier(y.name) = "Ok" /\ y.name = asked.name
      <4>1. y.name = asked.name
        BY <3>1 DEF Columns
      <4> QED
        BY <2>0, <3>1, <4>1, ColumnsFit
    <3> QED
      BY <2>0, <3>2 DEF UneditedAsAsked
  <2>4. validate_identifier(row.name) # "Ok" => row.name.pad = "unicode"
    <3>1. row.name.pad \in {"none", "ascii", "unicode"} /\ row.name.pad # "ascii"
          /\ row.name.len \in 1 .. MAX_IDENTIFIER_LEN
      BY <2>0 DEF ColumnsTyped, Texts, Checks, NameCheck, LengthCheck
    <3> QED
      BY <3>1, UnitsAssumption DEF validate_identifier
  <2> QED
    BY <2>1, <2>2, <2>3, <2>4
<1>2. RowInv => OnlyCronCorrupts
  BY <1>1 DEF OnlyCronCorrupts
<1> QED
  BY <1>2, RowInvariant, PTL

(* The heartbeat period of every lease that can be stored is positive and *)
(* shorter than the lease, down to a lease of one microsecond.            *)
THEOREM HeartbeatsFit == Spec => []HeartbeatInsideLease
<1>1. ASSUME RowInv, Stored
      PROVE  heartbeat_interval(row.lease.micros) \in 1 .. row.lease.micros * NanosPerMicro - 1
  <2>1. PICK x : x = row
    OBVIOUS
  <2>2. x.lease.micros \in Nat /\ x.lease.micros > 0
    BY <1>1, <2>1, CheckedRowReads DEF RowInv
  <2> QED
    BY <2>1, <2>2, ThirdInside
<1>2. RowInv => HeartbeatInsideLease
  BY <1>1 DEF HeartbeatInsideLease
<1> QED
  BY <1>2, RowInvariant, PTL
=============================================================================
