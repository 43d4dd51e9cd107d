--------------------------- MODULE ConnectionPool ---------------------------
(***************************************************************************)
(* How one scheduler instance uses its connection pool. The loop, every    *)
(* heartbeat and every finalization take a connection from the pool the    *)
(* application gave to the builder, and its handlers may take theirs from  *)
(* the same pool. Two facts about async code make this more than counting: *)
(*   - while a heartbeat awaits its connection, select! does not poll the  *)
(*     handler, and a handler that is not polled neither uses nor returns  *)
(*     a connection, not even one the pool has just assigned to it;        *)
(*   - the loop looks at the shutdown token in select! only, never while   *)
(*     it awaits a connection.                                             *)
(***************************************************************************)
EXTENDS Integers, FiniteSets

CONSTANTS
    Handlers,         \* the handlers that may run at once (max_concurrency)
    PoolSize,         \* connections of the pool
    SharingSets       \* which handlers may use the scheduler's pool themselves

ASSUME PoolAssumption == PoolSize \in Nat \ {0}
ASSUME HandlersAssumption == SharingSets \subseteq SUBSET Handlers /\ "loop" \notin Handlers

VARIABLES
    pool,      \* who holds a connection, and who waits for one in which order
    loop,      \* where run_until_shutdown stands
    task,      \* where the dispatch of each handler stands
    ended,     \* has a dispatched handler ended that is not joined yet?
    cancelled, \* the shutdown token
    setup      \* what the application has chosen: the handlers that share the
               \* pool, and whether acquire fails after a while (bb8, and
               \* deadpool if told to)

vars == <<pool, loop, task, ended, cancelled>>

Loop == <<"loop", "runtime">>
Runtime(h) == <<h, "runtime">>   \* the heartbeat or the finalization of h
App(h) == <<h, "app">>           \* the handler itself
Clients == {Loop} \cup {Runtime(h) : h \in Handlers} \cup {App(h) : h \in setup.sharing}

-----------------------------------------------------------------------------
(* The pool: who holds a connection, who waits for one, and who waits      *)
(* ahead of whom. First come, first served: a connection that is returned  *)
(* is assigned to the first waiter at once, whether it is polled or not.   *)

EmptyPool == [held |-> {}, waiting |-> {}, ahead |-> {}]

Acquired(p, c) ==
    IF Cardinality(p.held) < PoolSize
    THEN [held |-> p.held \cup {c}, waiting |-> p.waiting, ahead |-> p.ahead]
    ELSE [held |-> p.held, waiting |-> p.waiting \cup {c},
          ahead |-> p.ahead \cup (p.waiting \X {c})]

(* The first `free' of those who wait, or all of them. *)
Served(waiting, ahead, free) ==
    {F \in SUBSET waiting :
        /\ Cardinality(F) <= free
        /\ Cardinality(F) < free => F = waiting
        /\ \A c \in F, d \in waiting \ F : <<d, c>> \notin ahead}

(* What becomes of the pool (there is one outcome) when the clients in S   *)
(* return what they hold and wait no longer.                               *)
Dropped(p, S) ==
    LET kept == p.held \ S
        rest == p.waiting \ S
    IN  {[held |-> kept \cup served, waiting |-> rest \ served,
          ahead |-> p.ahead \cap ((rest \ served) \X (rest \ served))] :
            served \in Served(rest, p.ahead, PoolSize - Cardinality(kept))}

Holds(c) == c \in pool.held
Waits(c) == c \in pool.waiting
TimedOutRetried(c) == FALSE
TimedOut(c) == setup.timeouts /\ Waits(c)

-----------------------------------------------------------------------------
(* The loop                                                                *)

(* A tick of select!: materialize or recover_leases asks for a connection. *)
TickBegins ==
    /\ loop = "select"
    /\ pool' = Acquired(pool, Loop)
    /\ loop' = "ticking"
    /\ UNCHANGED <<task, ended, cancelled>>

(* It has run its statements, without or with an error, and the loop joins *)
(* what has ended before it goes on.                                       *)
TickEnds ==
    /\ loop = "ticking"
    /\ Holds(Loop)
    /\ pool' \in Dropped(pool, {Loop})
    /\ loop' \in {"permits", "select"}
    /\ ended' = FALSE
    /\ UNCHANGED <<task, cancelled>>

(* A joined handler leads to the permits directly. *)
Joined ==
    /\ loop = "select"
    /\ ended
    /\ loop' = "permits"
    /\ ended' = FALSE
    /\ UNCHANGED <<pool, task, cancelled>>

Idle == {h \in Handlers : task[h] = "idle"}

ClaimBegins ==
    /\ loop = "permits"
    /\ IF Idle = {} THEN loop' = "select" /\ UNCHANGED pool
       ELSE loop' = "claiming" /\ pool' = Acquired(pool, Loop)
    /\ UNCHANGED <<task, ended, cancelled>>

ClaimEnds ==
    /\ loop = "claiming"
    /\ Holds(Loop)
    /\ pool' \in Dropped(pool, {Loop})
    /\ loop' = "select"
    /\ \E spawned \in SUBSET Idle :
         task' = [h \in Handlers |-> IF h \in spawned THEN "running" ELSE task[h]]
    /\ UNCHANGED <<ended, cancelled>>

LoopTimesOut ==
    /\ TimedOut(Loop)
    /\ pool' \in Dropped(pool, {Loop})
    /\ loop' = "select"
    /\ ended' = (ended /\ loop = "claiming")
    /\ UNCHANGED <<task, cancelled>>

Shutdown ==
    /\ ~cancelled
    /\ cancelled' = TRUE
    /\ UNCHANGED <<pool, loop, task, ended>>

DrainBegins ==
    /\ loop = "select"
    /\ cancelled
    /\ loop' = "draining"
    /\ UNCHANGED <<pool, task, ended, cancelled>>

StopWhenDrained ==
    /\ loop = "draining"
    /\ Idle = Handlers
    /\ loop' = "stopped"
    /\ ended' = FALSE
    /\ UNCHANGED <<pool, task, cancelled>>
StopDetached ==
    /\ loop = "draining"
    /\ loop' = "stopped"
    /\ task' = [h \in Handlers |-> "idle"]
    /\ ended' = FALSE
    /\ UNCHANGED <<pool, cancelled>>
(* Everything has ended, or the timeout passes and the rest is aborted     *)
(* where it stands, dropping the connections and the waits it has.         *)
Stop ==
    /\ loop = "draining"
    /\ loop' = "stopped"
    /\ pool' \in Dropped(pool, Clients)
    /\ task' = [h \in Handlers |-> "idle"]
    /\ ended' = FALSE
    /\ UNCHANGED cancelled

-----------------------------------------------------------------------------
(* A dispatched handler, polled while its task is "running"                *)

To(h, phase) ==
    /\ task' = [task EXCEPT ![h] = phase]
    /\ ended' = (ended \/ phase = "idle")
    /\ UNCHANGED <<loop, cancelled>>

UseBegins(h) ==
    /\ task[h] = "running" /\ h \in setup.sharing
    /\ ~Holds(App(h)) /\ ~Waits(App(h))
    /\ pool' = Acquired(pool, App(h))
    /\ UNCHANGED <<loop, task, ended, cancelled>>

UseEnds(h) ==
    /\ task[h] = "running"
    /\ Holds(App(h)) \/ TimedOut(App(h))
    /\ pool' \in Dropped(pool, {App(h)})
    /\ UNCHANGED <<loop, task, ended, cancelled>>

Returns(h) ==
    /\ task[h] = "running"
    /\ \E p \in Dropped(pool, {App(h)}) : pool' = Acquired(p, Runtime(h))
    /\ To(h, "finishing")

Panics(h) ==
    /\ task[h] = "running"
    /\ pool' \in Dropped(pool, {App(h)})
    /\ To(h, "idle")

Heartbeat(h) ==
    /\ task[h] = "running"
    /\ pool' = Acquired(pool, Runtime(h))
    /\ To(h, "renewing")

(* Renewed, or failed before the deadline: the handler is polled again. *)
RenewalGoesOn(h) ==
    /\ task[h] = "renewing"
    /\ Holds(Runtime(h)) \/ TimedOut(Runtime(h))
    /\ pool' \in Dropped(pool, {Runtime(h)})
    /\ To(h, "running")

(* Fenced, or past the deadline: the handler is dropped. *)
RenewalGivesUp(h) ==
    /\ task[h] = "renewing"
    /\ Holds(Runtime(h)) \/ TimedOut(Runtime(h))
    /\ pool' \in Dropped(pool, {Runtime(h), App(h)})
    /\ To(h, "idle")

Finalized(h) ==
    /\ task[h] = "finishing"
    /\ Holds(Runtime(h)) \/ TimedOut(Runtime(h))
    /\ pool' \in Dropped(pool, {Runtime(h)})
    /\ To(h, "idle")

-----------------------------------------------------------------------------
Init ==
    /\ pool = EmptyPool
    /\ loop = "select"
    /\ task = [h \in Handlers |-> "idle"]
    /\ ended = FALSE
    /\ cancelled = FALSE
    /\ setup \in [sharing : SharingSets, timeouts : BOOLEAN]

LoopStep ==
    \/ TickBegins \/ TickEnds \/ Joined \/ ClaimBegins \/ ClaimEnds \/ LoopTimesOut
    \/ DrainBegins \/ Stop

(* What the runtime does once it has its connection, or the timeout. *)
RuntimeStep(h) == RenewalGoesOn(h) \/ RenewalGivesUp(h) \/ Finalized(h)

Next ==
    /\ \/ LoopStep \/ Shutdown
       \/ \E h \in Handlers :
            \/ UseBegins(h) \/ UseEnds(h) \/ Returns(h) \/ Panics(h)
            \/ Heartbeat(h) \/ RuntimeStep(h)
    /\ UNCHANGED setup

Spec == Init /\ [][Next]_<<vars, setup>>

(***************************************************************************)
(* Fairness: statements end and so do timeouts; select! takes the shutdown *)
(* branch some time (it picks among ready branches at random); the         *)
(* heartbeat timer fires; a handler that is polled and has its connection  *)
(* returns it.                                                             *)
(***************************************************************************)
FairSpec ==
    /\ Spec
    /\ WF_vars(LoopStep) /\ SF_vars(DrainBegins)
    /\ \A h \in Handlers :
         WF_vars(RuntimeStep(h)) /\ WF_vars(Heartbeat(h)) /\ SF_vars(UseEnds(h))

-----------------------------------------------------------------------------
(* What the instance promises                                              *)

(* Who has something to do with a connection. *)
Entitled(c) ==
    \/ c = Loop /\ loop \in {"ticking", "claiming"}
    \/ \E h \in Handlers : c = Runtime(h) /\ task[h] \in {"renewing", "finishing"}
    \/ \E h \in setup.sharing : c = App(h) /\ task[h] \in {"running", "renewing"}

(* The pool is not overdrawn, and nobody has two places in it. *)
Sound(p) ==
    /\ Cardinality(p.held) <= PoolSize
    /\ p.held \cap p.waiting = {}
    /\ \A c \in p.waiting : <<c, c>> \notin p.ahead

(* The runtime takes part in the pool only while it has a statement to     *)
(* run, once, and the pool is never overdrawn: a connection or a place in  *)
(* the queue that a heartbeat, a finalization, a failed cycle or an        *)
(* aborted handler left behind would slowly drain the application's pool.  *)
ConnectionsReturned ==
    /\ \A c \in pool.held \cup pool.waiting : Entitled(c)
    /\ Sound(pool)

(* Every connection belongs to a handler that is not polled because its    *)
(* own heartbeat waits for one, and no wait ever fails.                    *)
Wedged ==
    /\ ~setup.timeouts
    /\ Cardinality(pool.held) = PoolSize
    /\ \A c \in pool.held :
         \E h \in setup.sharing : c = App(h) /\ task[h] = "renewing" /\ Waits(Runtime(h))

(* Nobody of the runtime waits for a connection for ever, with one         *)
(* exception: handlers that share a pool without timeouts can all be       *)
(* suspended by their own heartbeats, with every connection among them.    *)
WaitersServed ==
    \A c \in {Loop} \cup {Runtime(h) : h \in Handlers} : Waits(c) ~> ~Waits(c) \/ Wedged

(* Shutdown ends: handlers are drained until the timeout and the rest is   *)
(* aborted, whatever they wait for, unless the pool is wedged while the    *)
(* loop waits for a connection, where it does not see the token.           *)
ShutdownEnds == cancelled ~> loop = "stopped" \/ (Wedged /\ Waits(Loop))

(***************************************************************************)
(* The inductive invariant behind ConnectionPoolProofs: ConnectionsReturned *)
(* and what it takes for granted about the pool, the tasks and the setup.  *)
(***************************************************************************)
Tidy(p) ==
    IsFiniteSet(p.held) /\ IsFiniteSet(p.waiting) /\ p.ahead \subseteq p.waiting \X p.waiting

PoolInv ==
    /\ Tidy(pool)
    /\ task = [h \in Handlers |-> task[h]]
    /\ setup.sharing \subseteq Handlers
    /\ ConnectionsReturned
=============================================================================
