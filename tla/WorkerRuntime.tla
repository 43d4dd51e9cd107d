--------------------------- MODULE WorkerRuntime ---------------------------
(***************************************************************************)
(* The worker runtime of src/runtime/worker.rs: scheduler instances that   *)
(* poll the store, claim as many tasks as they have permits, run a handler *)
(* per task with a heartbeat, record its result once, and shut down.       *)
(*                                                                         *)
(* The module extends TaskStore: every step here is one of its steps or    *)
(* leaves its tables alone. A statement whose client died may still be     *)
(* executed by the server; it is a handler in phase "sent".                *)
(***************************************************************************)
EXTENDS TaskStore

CONSTANTS
    Workers,           \* scheduler instances
    Registered,        \* the job names each instance has handlers for
    MaxConcurrency,    \* permits of each instance (max_concurrency)
    Ahead,             \* by how much the host clock of an instance is ahead
    Mortal,            \* instances that may crash or be shut down
    Poisoned,          \* does a schedule make every materialization fail?
    MaxFailures,       \* the largest count of failed cycles (u64::MAX)
    MaxFaults          \* bound: failed calls, lost answers, panics and crashes

ASSUME RuntimeAssumption ==
    /\ Registered \in [Workers -> NameSets]
    /\ MaxConcurrency \in Nat \ {0} /\ 1 .. MaxConcurrency \subseteq Limits
    /\ Ahead \in [Workers -> Int]
    /\ Mortal \subseteq Workers
    /\ Poisoned \in BOOLEAN /\ MaxFailures \in Nat \ {0}
    /\ MaxFaults \in Nat

VARIABLES
    loop,      \* run_until_shutdown of each instance
    handlers,  \* the dispatched handlers, by lease token
    ended,     \* instances with a dispatched task that ended and is not joined
    returned,  \* what the handler of a token returned (auxiliary)
    faults     \* how many of the faults MaxFaults bounds have happened

runtimeVars == <<vars, loop, handlers, ended, returned, faults>>

-----------------------------------------------------------------------------
(***************************************************************************)
(* An instance: waiting in select!, waiting for the answer of recovery,    *)
(* waiting for the connection and the answer of claim_batch with the limit *)
(* it has read, draining, ended; and the health it publishes.              *)
(***************************************************************************)
LoopState == [phase : {"select", "recovered", "claiming", "draining", "stopped", "dead"},
              limit : 0 .. MaxConcurrency,
              status : {"Starting", "Healthy", "Degraded", "Stopped"},
              failures : 0 .. MaxFailures,
              last_error : {"none", "database", "capacity"}]

Results == {"ok", "retry", "permanent"}

(***************************************************************************)
(* A dispatched task: its handler is polled, its heartbeat is under way    *)
(* (the handler is not polled meanwhile), its result is being recorded, or *)
(* it is gone and only a statement it sent may still take effect.          *)
(***************************************************************************)
HandlerState == [worker : Workers, run : RunIds, deadline : Nat,
                 phase : {"running", "renewing", "finishing", "sent"},
                 write : {"none", "renew"} \cup Results]

HandlersOf(w) == {t \in DOMAIN handlers : handlers[t].worker = w /\ handlers[t].phase # "sent"}

AllPermits(w) == MaxConcurrency
available_permits(w) == MaxConcurrency - Cardinality(HandlersOf(w))

HostNow(w) == now + Ahead[w]

Fault == faults < MaxFaults /\ faults' = faults + 1

Without(S) == [t \in DOMAIN handlers \ S |-> handlers[t]]

(* What is left of handlers dropped where they stand. *)
Dropped(S) ==
    LET lost == {t \in S : handlers[t].phase = "running"}
    IN  [t \in DOMAIN handlers \ lost |->
           IF t \in S THEN [handlers[t] EXCEPT !.phase = "sent"] ELSE handlers[t]]

(* A dispatched task ends: its permit is free and it can be joined. *)
Ends(t) == ended' = ended \cup {handlers[t].worker}
Leave(t) == handlers' = Without({t}) /\ Ends(t)

-----------------------------------------------------------------------------
(* The loop                                                                *)

(* update_health without and with an error; the loop goes back to select!. *)
Healthy(w) ==
    loop' = [loop EXCEPT ![w] = [phase |-> "select", limit |-> 0, status |-> "Healthy",
                                 failures |-> 0, last_error |-> "none"]]

UncheckedAdd(count) == count + 1
saturating_add(count) == IF count < MaxFailures THEN count + 1 ELSE count

Degraded(w, error) ==
    loop' = [loop EXCEPT ![w] = [phase |-> "select", limit |-> 0, status |-> "Degraded",
                                 failures |-> saturating_add(loop[w].failures),
                                 last_error |-> error]]

(* claim_and_dispatch up to its first await. *)
ReadPermits(w) ==
    IF available_permits(w) = 0 THEN Healthy(w)
    ELSE loop' = [loop EXCEPT ![w].phase = "claiming", ![w].limit = available_permits(w)]

(* Every cycle joins what has ended before it looks at its permits. *)
JoinEnded(w) == ended' = ended \ {w}

(* The poll tick materializes; when that fails nothing is claimed. *)
Poll(w) ==
    /\ loop[w].phase = "select"
    /\ IF Poisoned THEN Degraded(w, "database") ELSE ReadPermits(w)
    /\ JoinEnded(w)
    /\ UNCHANGED <<vars, handlers, returned, faults>>

Joined(w) ==
    /\ loop[w].phase = "select"
    /\ w \in ended
    /\ ReadPermits(w)
    /\ JoinEnded(w)
    /\ UNCHANGED <<vars, handlers, returned, faults>>

Recover(w) ==
    /\ loop[w].phase = "select"
    /\ \E limit \in Limits : recover_expired(limit)
    /\ loop' = [loop EXCEPT ![w].phase = "recovered"]
    /\ UNCHANGED <<handlers, ended, returned, faults>>

(* There is nothing to recover, or others are at it. *)
RecoverNothing(w) ==
    /\ loop[w].phase = "select"
    /\ loop' = [loop EXCEPT ![w].phase = "recovered"]
    /\ UNCHANGED <<vars, handlers, ended, returned, faults>>

AfterRecoveryOnly(w) ==
    /\ loop[w].phase = "recovered"
    /\ Healthy(w)
    /\ JoinEnded(w)
    /\ UNCHANGED <<vars, handlers, returned, faults>>
AfterRecovery(w) ==
    /\ loop[w].phase = "recovered"
    /\ ReadPermits(w)
    /\ JoinEnded(w)
    /\ UNCHANGED <<vars, handlers, returned, faults>>

(* materialize or recover_leases fails, or recovery commits and its answer *)
(* is lost: nothing is claimed in this cycle.                              *)
TickFails(w) ==
    /\ loop[w].phase \in {"select", "recovered"}
    /\ Fault
    /\ Degraded(w, "database")
    /\ JoinEnded(w)
    /\ UNCHANGED <<vars, handlers, returned>>

NewHandler(w, t) ==
    [worker |-> w, run |-> attempts'[t].run_id, deadline |-> attempts'[t].lease_expires_at,
     phase |-> "running", write |-> "none"]

(* The claimed tasks are dispatched one by one, as long as there are permits; *)
(* names are the keys of the registry, so every task has its handler.         *)
Dispatch(w, claimed) ==
    \E spawned \in SUBSET claimed :
        /\ Cardinality(spawned) <= available_permits(w)
        /\ spawned # claimed => Cardinality(spawned) = available_permits(w)
        /\ handlers' = [t \in DOMAIN handlers \cup spawned |->
                          IF t \in spawned THEN NewHandler(w, t) ELSE handlers[t]]
        /\ IF spawned = claimed THEN Healthy(w) ELSE Degraded(w, "capacity")

ClaimAndDispatch(w) ==
    /\ loop[w].phase = "claiming"
    /\ ClaimBatch(Registered[w], loop[w].limit)
    /\ Dispatch(w, issued' \ issued)
    /\ UNCHANGED <<ended, returned, faults>>

(* Nothing to claim, or others hold what there is. *)
ClaimNothing(w) ==
    /\ loop[w].phase = "claiming"
    /\ Healthy(w)
    /\ UNCHANGED <<vars, handlers, ended, returned, faults>>

(* The call fails, or the statement does: a lease of the batch ends past   *)
(* the largest timestamptz, or had ended when the statement was through.   *)
ClaimFails(w) ==
    /\ loop[w].phase = "claiming"
    /\ IF \E busy \in SUBSET RunIds : ClaimAborts(Registered[w], loop[w].limit, busy)
       THEN UNCHANGED faults ELSE Fault
    /\ Degraded(w, "database")
    /\ UNCHANGED <<vars, handlers, ended, returned>>

(* The claim commits and its answer is lost or does not convert. *)
ClaimLost(w) ==
    /\ loop[w].phase = "claiming"
    /\ Fault
    /\ ClaimBatch(Registered[w], loop[w].limit)
    /\ Degraded(w, "database")
    /\ UNCHANGED <<handlers, ended, returned>>

-----------------------------------------------------------------------------
(* A dispatched task                                                       *)

(* The clock a statement on row r has read: see TaskStore. *)
ReadClock(r) == IF tx[r].kind = "duplicate" THEN tx[r].since .. now ELSE {now}
Locking(r) == tx' = [tx EXCEPT ![r] = NoTx]

Renew(t) ==
    LET r == handlers[t].run IN
    /\ \E at \in ReadClock(r) : renew_lease(r, t, at)
    /\ Locking(r)

RecordUnfenced(t) ==
    LET h == handlers[t] IN
    /\ h.run \in DOMAIN runs
    /\ runs' = [runs EXCEPT ![h.run] = Finished(@, "completed", "none", now)]
    /\ attempts' = Close({t}, "completed")
    /\ UNCHANGED <<issued, spent, tx, cancel, now>>
Record(t) ==
    LET h == handlers[t] IN
    /\ \E at \in ReadClock(h.run) :
         IF h.write = "ok" THEN finalize_run(h.run, t, "completed", at)
         ELSE fail_run(h.run, t, h.write = "retry", at)
    /\ Locking(h.run)

(* The write finds the row, unlocked, and it is not this token's any more. *)
Fenced(t) ==
    LET r == handlers[t].run IN
    /\ r \notin DOMAIN runs \/ Unlocked(r)
    /\ ~Owns(r, t, now)

HandlerReturns(t, result) ==
    /\ handlers[t].phase = "running"
    /\ handlers' = [handlers EXCEPT ![t].phase = "finishing", ![t].write = result]
    /\ returned' = [returned EXCEPT ![t] = result]
    /\ UNCHANGED <<vars, loop, ended, faults>>

HandlerPanicsFinalized(t) ==
    /\ handlers[t].phase = "running"
    /\ Fault
    /\ handlers' = [handlers EXCEPT ![t].phase = "finishing", ![t].write = "permanent"]
    /\ UNCHANGED <<vars, loop, ended, returned>>
(* The task unwinds: its permit is free again and nothing is recorded. *)
HandlerPanics(t) ==
    /\ handlers[t].phase = "running"
    /\ Fault
    /\ Leave(t)
    /\ UNCHANGED <<vars, loop, returned>>

Heartbeat(t) ==
    /\ handlers[t].phase = "running"
    /\ handlers' = [handlers EXCEPT ![t].phase = "renewing", ![t].write = "renew"]
    /\ UNCHANGED <<vars, loop, ended, returned, faults>>

(* After the heartbeat: the local deadline is compared with the host clock. *)
GoOn(t, deadline) ==
    IF HostNow(handlers[t].worker) >= deadline THEN Leave(t)
    ELSE /\ handlers' = [handlers EXCEPT ![t] = [@ EXCEPT !.phase = "running",
                                   !.write = "none", !.deadline = deadline]]
         /\ UNCHANGED ended

DeadlineByHost(t) ==
    HostNow(handlers[t].worker) + runs[handlers[t].run].options.lease_duration
(* The deadline a renewal answers with, as stored. *)
RenewedDeadline(t) == runs'[handlers[t].run].lease_expires_at

Renewed(t) ==
    /\ handlers[t].phase = "renewing"
    /\ Renew(t)
    /\ GoOn(t, RenewedDeadline(t))
    /\ UNCHANGED <<loop, returned, faults>>

RenewalFencedIgnored(t) ==
    /\ handlers[t].phase = "renewing"
    /\ Fenced(t)
    /\ GoOn(t, handlers[t].deadline)
    /\ UNCHANGED <<vars, loop, returned, faults>>
RenewalFenced(t) ==
    /\ handlers[t].phase = "renewing"
    /\ Fenced(t)
    /\ Leave(t)
    /\ UNCHANGED <<vars, loop, returned, faults>>

(* The renewed lease would end past the largest timestamptz. *)
RenewalRefused(t) ==
    LET r == handlers[t].run IN
    /\ Owns(r, t, now)
    /\ ~InRange(now + runs[r].options.lease_duration)

(* No connection, or the statement fails. *)
RenewalFails(t) ==
    /\ handlers[t].phase = "renewing"
    /\ IF RenewalRefused(t) THEN UNCHANGED faults ELSE Fault
    /\ GoOn(t, handlers[t].deadline)
    /\ UNCHANGED <<vars, loop, returned>>

(* The renewal commits and its answer is lost. *)
RenewalLost(t) ==
    /\ handlers[t].phase = "renewing"
    /\ Fault
    /\ Renew(t)
    /\ GoOn(t, handlers[t].deadline)
    /\ UNCHANGED <<loop, returned>>

(* finalize_handler: one try. *)
Finalize(t) ==
    /\ handlers[t].phase = "finishing"
    /\ Record(t)
    /\ Leave(t)
    /\ UNCHANGED <<loop, returned, faults>>

FinalizeFenced(t) ==
    /\ handlers[t].phase = "finishing"
    /\ Fenced(t)
    /\ Leave(t)
    /\ UNCHANGED <<vars, loop, returned, faults>>

(* The retry would be available past the largest timestamptz. *)
RetryRefused(t) ==
    LET row == runs[handlers[t].run] IN
    /\ Owns(handlers[t].run, t, now)
    /\ handlers[t].write = "retry" /\ AttemptsLeft(row)
    /\ ~InRange(now + row.options.retry_backoff)

(* The call fails; the server may still execute what it has received. *)
FinalizeFails(t) ==
    /\ handlers[t].phase = "finishing"
    /\ IF RetryRefused(t) THEN UNCHANGED faults ELSE Fault
    /\ handlers' = Dropped({t})
    /\ Ends(t)
    /\ UNCHANGED <<vars, loop, returned>>

-----------------------------------------------------------------------------
(* The end of an instance                                                  *)

Shutdown(w) ==
    /\ w \in Mortal
    /\ loop[w].phase = "select"
    /\ loop' = [loop EXCEPT ![w].phase = "draining"]
    /\ UNCHANGED <<vars, handlers, ended, returned, faults>>

StopDetaching(w) ==
    /\ loop[w].phase = "draining"
    /\ loop' = [loop EXCEPT ![w].phase = "stopped", ![w].status = "Stopped",
                            ![w].last_error = "none"]
    /\ JoinEnded(w)
    /\ UNCHANGED <<vars, handlers, returned, faults>>
(* Everything has drained, or the timeout passes and the rest is aborted. *)
Stop(w) ==
    /\ loop[w].phase = "draining"
    /\ handlers' = Dropped(HandlersOf(w))
    /\ loop' = [loop EXCEPT ![w].phase = "stopped", ![w].status = "Stopped",
                            ![w].last_error = "none"]
    /\ JoinEnded(w)
    /\ UNCHANGED <<vars, returned, faults>>

Crash(w) ==
    /\ w \in Mortal
    /\ loop[w].phase \notin {"stopped", "dead"}
    /\ Fault
    /\ handlers' = Dropped(HandlersOf(w))
    /\ loop' = [loop EXCEPT ![w].phase = "dead"]
    /\ JoinEnded(w)
    /\ UNCHANGED <<vars, returned>>

(* The server executes a statement whose client is gone, or never got it. *)
SentExecuted(t) ==
    /\ handlers[t].phase = "sent"
    /\ IF handlers[t].write = "renew" THEN Renew(t) ELSE Record(t)
    /\ handlers' = Without({t})
    /\ UNCHANGED <<loop, ended, returned, faults>>

SentLost(t) ==
    /\ handlers[t].phase = "sent"
    /\ handlers' = Without({t})
    /\ UNCHANGED <<vars, loop, ended, returned, faults>>

-----------------------------------------------------------------------------
(* Producers and callers of the store go on as in TaskStore. *)
Others ==
    /\ Produce \/ Administer
    /\ UNCHANGED <<loop, handlers, ended, returned, faults>>

RuntimeTick == Tick /\ UNCHANGED <<loop, handlers, ended, returned, faults>>

RuntimeInit ==
    /\ Init
    /\ loop = [w \in Workers |-> [phase |-> "select", limit |-> 0, status |-> "Starting",
                                  failures |-> 0, last_error |-> "none"]]
    /\ handlers = [t \in {} |-> {}]
    /\ ended = {}
    /\ returned = [t \in Tokens |-> "none"]
    /\ faults = 0

LoopStep(w) ==
    \/ Poll(w) \/ Joined(w) \/ Recover(w) \/ RecoverNothing(w) \/ AfterRecovery(w)
    \/ TickFails(w)
    \/ ClaimAndDispatch(w) \/ ClaimNothing(w) \/ ClaimFails(w) \/ ClaimLost(w)
    \/ Stop(w)

(* What the runtime does with a dispatched task, whatever its handler does. *)
DispatchStep(t) ==
    \/ Heartbeat(t)
    \/ Renewed(t) \/ RenewalFenced(t) \/ RenewalFails(t) \/ RenewalLost(t)
    \/ Finalize(t) \/ FinalizeFenced(t) \/ FinalizeFails(t)

HandlerStep(t) ==
    \/ \E result \in Results : HandlerReturns(t, result)
    \/ HandlerPanics(t)

RuntimeNext ==
    \/ \E w \in Workers : LoopStep(w) \/ Shutdown(w) \/ Crash(w)
    \/ \E t \in DOMAIN handlers :
         DispatchStep(t) \/ HandlerStep(t) \/ SentExecuted(t) \/ SentLost(t)
    \/ Others
    \/ RuntimeTick

RuntimeSpec == RuntimeInit /\ [][RuntimeNext]_runtimeVars

(***************************************************************************)
(* Fairness: time passes; the loop of an instance that is not stopped goes *)
(* on cycling and its select!, which picks among ready branches at random, *)
(* does not pass over the recovery tick for ever, nor does recovery always *)
(* run into the locks of others; timers of heartbeats fire and calls to    *)
(* the database end. Nothing is assumed of handlers, producers or callers. *)
(***************************************************************************)
FairSpec ==
    /\ RuntimeSpec
    /\ WF_runtimeVars(RuntimeTick)
    /\ \A w \in Workers : WF_runtimeVars(LoopStep(w)) /\ SF_runtimeVars(Recover(w))
    /\ \A t \in Tokens : WF_runtimeVars(t \in DOMAIN handlers /\ DispatchStep(t))

(***************************************************************************)
(* The same for ticks that find nothing to recover and for claims: one     *)
(* that is tried again and again is not always in the way of others.       *)
(***************************************************************************)
UncontendedClaim(w) ==
    \/ /\ loop[w].phase = "claiming"
       /\ ClaimAmong(Registered[w], loop[w].limit, {})
       /\ Dispatch(w, issued' \ issued)
       /\ UNCHANGED <<ended, returned, faults>>
    \/ ClaimFails(w) /\ ClaimAborts(Registered[w], loop[w].limit, {})

ClaimingSpec ==
    /\ FairSpec
    /\ \A w \in Workers :
         SF_runtimeVars(Recover(w) \/ RecoverNothing(w)) /\ SF_runtimeVars(UncontendedClaim(w))

-----------------------------------------------------------------------------
(* What the runtime promises                                               *)

(* Loops and handlers keep their types; a handler has a statement under    *)
(* way exactly when it is not being polled.                                *)
RuntimeTypeOK ==
    /\ TypeOK
    /\ loop \in [Workers -> LoopState]
    /\ DOMAIN handlers \subseteq issued
    /\ handlers \in [DOMAIN handlers -> HandlerState]
    /\ \A t \in DOMAIN handlers :
         /\ handlers[t].phase = "running" <=> handlers[t].write = "none"
         /\ handlers[t].phase = "renewing" => handlers[t].write = "renew"
         /\ handlers[t].phase = "finishing" => handlers[t].write \in Results
    /\ ended \subseteq Workers
    /\ returned \in [Tokens -> Results \cup {"none"}]
    /\ faults \in 0 .. MaxFaults

(* The permits bound the handlers of an instance, and the error "claimed   *)
(* more tasks than worker capacity" cannot occur although the permits are  *)
(* counted before the connection is awaited: whatever handlers end in the  *)
(* meantime, what the claim may return fits beside those that go on.       *)
Capacity ==
    \A w \in Workers :
        /\ Cardinality(HandlersOf(w)) <= MaxConcurrency
        /\ loop[w].last_error # "capacity"
        /\ loop[w].phase = "claiming" =>
             Cardinality(HandlersOf(w)) + loop[w].limit <= MaxConcurrency

(* An attempt is completed or failed only with what its own handler        *)
(* returned: panics, crashes, aborts and lost leases record nothing.       *)
OutcomeEarned ==
    \A t \in DOMAIN attempts :
        /\ attempts[t].outcome = "completed" => returned[t] = "ok"
        /\ attempts[t].outcome = "failed" => returned[t] \in {"retry", "permanent"}

(* A handler never believes in a later deadline than the store has on      *)
(* record, renewals with lost answers and host clocks that differ          *)
(* included: it gives up before another worker may take over, as far as    *)
(* its clock is right.                                                     *)
LocalDeadline ==
    \A t \in DOMAIN handlers \cap DOMAIN attempts :
        handlers[t].deadline <= attempts[t].lease_expires_at

(* Two handlers of one task overlap only after the lease of the older one  *)
(* has expired: at-least-once, never concurrent under a live lease.        *)
OverlapAfterExpiry ==
    \A t, u \in DOMAIN handlers \cap DOMAIN attempts :
        /\ t # u /\ handlers[t].run = handlers[u].run
        /\ handlers[t].phase # "sent" /\ handlers[u].phase # "sent"
        /\ attempts[t].attempt_number < attempts[u].attempt_number
        => attempts[t].outcome = "expired" /\ attempts[t].lease_expires_at <= now

(* run_until_shutdown returns with no handler left running: shutdown       *)
(* cancels work, it does not detach it.                                    *)
StoppedIsQuiet == \A w \in Workers : loop[w].status = "Stopped" => HandlersOf(w) = {}

(* The runtime uses the store only through its operations: every step is a *)
(* step of TaskStore or leaves the tables alone, so what TaskStore         *)
(* guarantees holds with instances, crashes and late statements.           *)
StoreSpec == Spec

(***************************************************************************)
(* The parts of the inductive invariants behind WorkerRuntimeProofs that   *)
(* are no promises by themselves.                                          *)
(***************************************************************************)

(* What is on record of a transaction is only where it has begun, and a    *)
(* producer has held a row no longer than until now.                       *)
TxClock ==
    \A r \in RunIds : tx[r].since <= now /\ (tx[r].kind = "none" => tx[r] = NoTx)

(* No lease reaches further than a full one from the clock that a          *)
(* statement on its row may still have read: renewals never shorten it.    *)
LeaseClock ==
    \A r \in DOMAIN runs : runs[r].state = "running" =>
        runs[r].lease_expires_at <= runs[r].options.lease_duration +
            (IF tx[r].kind = "duplicate" THEN tx[r].since ELSE now)

(* An instance that claims has a free permit; one that published Stopped   *)
(* has left its loop.                                                      *)
LoopPhases ==
    \A w \in Workers :
        /\ loop[w].phase = "claiming" => loop[w].limit > 0
        /\ loop[w].status = "Stopped" => loop[w].phase = "stopped"

(* A dispatched task writes what its handler returned, to its own attempt, *)
(* once.                                                                   *)
WritesEarned ==
    /\ \A t \in DOMAIN handlers :
         returned[t] = IF handlers[t].write \in Results THEN handlers[t].write ELSE "none"
    /\ \A t \in Tokens \ issued : returned[t] = "none"
    /\ \A t \in DOMAIN handlers \cap DOMAIN attempts :
         /\ attempts[t].run_id = handlers[t].run
         /\ attempts[t].outcome \notin {"completed", "failed"}

FiniteWork == IsFiniteSet(DOMAIN runs) /\ IsFiniteSet(DOMAIN handlers)

(* What makes every step of the runtime a step of the store. *)
CompositionInv == StoreInv /\ TxClock /\ RuntimeTypeOK /\ LoopPhases

(* What the promises rest on, in addition. *)
RuntimeInv ==
    /\ CompositionInv /\ LeaseClock /\ FiniteWork
    /\ Capacity /\ StoppedIsQuiet
    /\ WritesEarned /\ OutcomeEarned /\ LocalDeadline

Held(t) == \E r \in DOMAIN runs : Holds(t, r)
Polled(t) == t \in DOMAIN handlers /\ handlers[t].phase \in {"running", "renewing"}

(* A handler whose lease is lost, to recovery or to cancellation, is       *)
(* stopped, whatever its clock says.                                       *)
LeaseLossNoticed == \A t \in Tokens : Polled(t) /\ ~Held(t) ~> ~Polled(t)

LeaseLapsed(t) == \E r \in DOMAIN runs : Holds(t, r) /\ runs[r].lease_expires_at <= now

(* A task nobody works on, because its worker crashed, panicked, was shut  *)
(* down, lost the answer of its claim or failed to record the result, does *)
(* not stay running after its lease has expired, also when it has no       *)
(* attempt left.                                                           *)
OrphansRecovered ==
    \A t \in Tokens : LeaseLapsed(t) /\ t \notin DOMAIN handlers ~> ~Held(t)

(* The instances that stay up and have a handler for r. *)
Serving(r) == {w \in Workers \ Mortal : runs[r].options.job_name \in Registered[w]}
Ready(r) ==
    /\ r \in Committed
    /\ runs[r].state = "pending" /\ runs[r].available_at <= now
    /\ Serving(r) # {}
(* The claim of r cannot be refused because of its lease. *)
LeaseFits(r) ==
    /\ InRange(now + runs[r].options.lease_duration)
    /\ runs[r].options.lease_duration > ClaimGap

(* Every task that is due is claimed, though a schedule may make every     *)
(* materialization fail: at-least-once starts with once. Only two things   *)
(* may keep it waiting: handlers that occupy every permit of the instances *)
(* that serve it, and a due task whose lease, for ending past the largest  *)
(* timestamptz or for being no longer than the claim takes, fails the      *)
(* claim of the batch it is in.                                            *)
ClaimableIsClaimed ==
    \A r \in RunIds : Ready(r) /\ LeaseFits(r) ~>
        \/ ~Ready(r)
        \/ \A w \in Serving(r) : available_permits(w) = 0
        \/ \E x \in RunIds : Ready(x) /\ ~LeaseFits(x)
=============================================================================
