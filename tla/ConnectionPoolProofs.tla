------------------------ MODULE ConnectionPoolProofs ------------------------
(***************************************************************************)
(* Theorems about ConnectionPool, for any number of handlers and any size  *)
(* of the pool: no connection and no place in the queue is ever left       *)
(* behind.                                                                 *)
(***************************************************************************)
EXTENDS ConnectionPool, FiniteSetTheorems, TLAPS

-----------------------------------------------------------------------------
(* The pool                                                                *)

(* Who takes part in a pool. *)
Members(p) == p.held \cup p.waiting

LEMMA AcquireKeeps ==
    ASSUME NEW p, Tidy(p), Sound(p), NEW c, c \notin Members(p), NEW q, q = Acquired(p, c)
    PROVE  Tidy(q) /\ Sound(q) /\ Members(q) = Members(p) \cup {c}
<1>0. PoolSize \in Nat /\ Cardinality(p.held) \in Nat
  BY PoolAssumption, FS_CardinalityType DEF Tidy
<1>1. CASE Cardinality(p.held) < PoolSize
  <2>1. q.held = p.held \cup {c} /\ q.waiting = p.waiting /\ q.ahead = p.ahead
    BY <1>1 DEF Acquired
  <2>2. IsFiniteSet(p.held \cup {c}) /\ Cardinality(p.held \cup {c}) = Cardinality(p.held) + 1
    BY FS_AddElement DEF Tidy, Members
  <2>3. Tidy(q) /\ Sound(q)
    BY <1>0, <1>1, <2>1, <2>2 DEF Tidy, Sound, Members
  <2> QED
    BY <2>1, <2>3 DEF Members
<1>2. CASE ~(Cardinality(p.held) < PoolSize)
  <2>1. /\ q.held = p.held /\ q.waiting = p.waiting \cup {c}
        /\ q.ahead = p.ahead \cup (p.waiting \X {c})
    BY <1>2 DEF Acquired
  <2>2. IsFiniteSet(p.waiting \cup {c})
    BY FS_AddElement DEF Tidy
  <2>3. q.ahead \subseteq q.waiting \X q.waiting
    BY <2>1 DEF Tidy
  <2>4. ASSUME NEW d \in q.waiting PROVE <<d, d>> \notin q.ahead
    BY <2>1, <2>4 DEF Tidy, Sound, Members
  <2>5. Tidy(q) /\ Sound(q)
    BY <2>1, <2>2, <2>3, <2>4 DEF Tidy, Sound, Members
  <2> QED
    BY <2>1, <2>5 DEF Members
<1> QED
  BY <1>1, <1>2

LEMMA DropKeeps ==
    ASSUME NEW p, Tidy(p), Sound(p), NEW S, NEW q \in Dropped(p, S)
    PROVE  Tidy(q) /\ Sound(q) /\ Members(q) = Members(p) \ S
<1> DEFINE kept == p.held \ S
           rest == p.waiting \ S
           free == PoolSize - Cardinality(kept)
<1>1. PICK served \in Served(rest, p.ahead, free) :
        q = [held |-> kept \cup served, waiting |-> rest \ served,
             ahead |-> p.ahead \cap ((rest \ served) \X (rest \ served))]
  BY DEF Dropped
<1>2. served \subseteq rest /\ Cardinality(served) <= free
  BY DEF Served
<1>3. /\ q.held = kept \cup served /\ q.waiting = rest \ served
      /\ q.ahead = p.ahead \cap ((rest \ served) \X (rest \ served))
  BY <1>1
<1>4. IsFiniteSet(kept) /\ Cardinality(kept) \in Nat
  BY FS_Subset, FS_CardinalityType DEF Tidy
<1>5. IsFiniteSet(served) /\ IsFiniteSet(rest \ served) /\ Cardinality(served) \in Nat
  <2>1. served \subseteq p.waiting /\ rest \ served \subseteq p.waiting
    BY <1>2
  <2> QED
    BY <2>1, FS_Subset, FS_CardinalityType DEF Tidy
<1>6. kept \cap served = {}
  BY <1>2 DEF Sound
<1>7. IsFiniteSet(kept \cup served)
      /\ Cardinality(kept \cup served) = Cardinality(kept) + Cardinality(served)
  <2>1. Cardinality(kept \cap served) = 0
    BY <1>6, FS_EmptySet
  <2>2. /\ IsFiniteSet(kept \cup served)
        /\ Cardinality(kept \cup served)
             = Cardinality(kept) + Cardinality(served) - Cardinality(kept \cap served)
    BY <1>4, <1>5, FS_Union
  <2> HIDE DEF kept
  <2> QED
    BY <1>4, <1>5, <2>1, <2>2
<1>8. Cardinality(q.held) <= PoolSize
  <2> HIDE DEF kept
  <2> QED
    BY <1>2, <1>3, <1>4, <1>5, <1>7, PoolAssumption
<1>9. Tidy(q)
  BY <1>3, <1>5, <1>7 DEF Tidy
<1>10. Sound(q)
  BY <1>2, <1>3, <1>8 DEF Sound
<1> QED
  BY <1>2, <1>3, <1>9, <1>10 DEF Members

-----------------------------------------------------------------------------
(* Who takes part                                                          *)

(* The clients of the pool are told apart. *)
LEMMA ClientsDiffer ==
    /\ \A h \in Handlers : Loop # Runtime(h) /\ Loop # App(h)
    /\ \A g, h \in Handlers : Runtime(g) # App(h)
    /\ \A g, h \in Handlers : g # h => Runtime(g) # Runtime(h) /\ App(g) # App(h)
BY HandlersAssumption DEF Loop, Runtime, App

LEMMA Places ==
    ASSUME PoolInv
    PROVE  /\ Loop \in Members(pool) => loop \in {"ticking", "claiming"}
           /\ \A h \in Handlers :
                /\ Runtime(h) \in Members(pool) => task[h] \in {"renewing", "finishing"}
                /\ App(h) \in Members(pool) =>
                     h \in setup.sharing /\ task[h] \in {"running", "renewing"}
BY ClientsDiffer DEF PoolInv, ConnectionsReturned, Entitled, Members

(* A client keeps its reason as long as its loop or its handler does. *)
LEMMA EntitledKept ==
    ASSUME PoolInv, setup' = setup, NEW c, Entitled(c),
           c = Loop => loop' \in {"ticking", "claiming"},
           \A h \in Handlers : c \in {Runtime(h), App(h)} => task'[h] = task[h]
    PROVE  Entitled(c)'
<1>1. setup.sharing \subseteq Handlers
  BY DEF PoolInv
<1>2. CASE c = Loop /\ loop \in {"ticking", "claiming"}
  BY <1>2 DEF Entitled, Loop
<1>3. ASSUME NEW h \in Handlers, c = Runtime(h), task[h] \in {"renewing", "finishing"}
      PROVE  Entitled(c)'
  BY <1>3 DEF Entitled, Runtime
<1>4. ASSUME NEW h \in setup.sharing, c = App(h), task[h] \in {"running", "renewing"}
      PROVE  Entitled(c)'
  BY <1>1, <1>4 DEF Entitled, App
<1> QED
  BY <1>2, <1>3, <1>4 DEF Entitled

(* What a step has to show. *)
LEMMA PoolStep ==
    ASSUME PoolInv, setup' = setup, Tidy(pool'), Sound(pool'),
           task' = [h \in Handlers |-> task'[h]],
           \A c \in Members(pool') : Entitled(c)'
    PROVE  PoolInv'
<1>1. (\A c \in pool.held \cup pool.waiting : Entitled(c))'
  BY DEF Members
<1>2. Tidy(pool)' /\ Sound(pool)'
  BY DEF Tidy, Sound
<1> QED
  BY <1>1, <1>2 DEF PoolInv, ConnectionsReturned

(* Pools of a step. *)
LEMMA PoolAcquires ==
    ASSUME PoolInv, NEW c, c \notin Members(pool), pool' = Acquired(pool, c)
    PROVE  Tidy(pool') /\ Sound(pool') /\ Members(pool') = Members(pool) \cup {c}
<1>1. PICK p, q : p = pool /\ q = pool'
  OBVIOUS
<1>2. Tidy(p) /\ Sound(p) /\ c \notin Members(p) /\ q = Acquired(p, c)
  BY <1>1 DEF PoolInv, ConnectionsReturned
<1>3. Tidy(q) /\ Sound(q) /\ Members(q) = Members(p) \cup {c}
  BY <1>2, AcquireKeeps
<1> QED
  BY <1>1, <1>3

LEMMA PoolDrops ==
    ASSUME PoolInv, NEW S, pool' \in Dropped(pool, S)
    PROVE  Tidy(pool') /\ Sound(pool') /\ Members(pool') = Members(pool) \ S
<1>1. PICK p, q : p = pool /\ q = pool'
  OBVIOUS
<1>2. Tidy(p) /\ Sound(p) /\ q \in Dropped(p, S)
  BY <1>1 DEF PoolInv, ConnectionsReturned
<1>3. Tidy(q) /\ Sound(q) /\ Members(q) = Members(p) \ S
  BY <1>2, DropKeeps
<1> QED
  BY <1>1, <1>3

LEMMA PoolStays ==
    ASSUME PoolInv, pool' = pool
    PROVE  Tidy(pool') /\ Sound(pool') /\ Members(pool') = Members(pool)
BY DEF PoolInv, ConnectionsReturned, Members

-----------------------------------------------------------------------------
(* The steps of the loop                                                   *)

(* A step that leaves the tasks alone: everybody but the loop keeps its    *)
(* reason.                                                                 *)
LEMMA LoopOnly ==
    ASSUME PoolInv, setup' = setup, task' = task, Tidy(pool'), Sound(pool'),
           Members(pool') \subseteq Members(pool) \cup {Loop},
           Loop \in Members(pool') => loop' \in {"ticking", "claiming"}
    PROVE  PoolInv'
<1>1. ASSUME NEW c \in Members(pool') PROVE Entitled(c)'
  <2>1. CASE c = Loop
    BY <1>1, <2>1 DEF Entitled, Loop
  <2>2. CASE c # Loop
    <3>1. Entitled(c)
      BY <1>1, <2>2 DEF PoolInv, ConnectionsReturned, Members
    <3> QED
      BY <2>2, <3>1, EntitledKept
  <2> QED
    BY <2>1, <2>2
<1> QED
  BY <1>1, PoolStep DEF PoolInv

LEMMA LoopStepInv ==
    ASSUME PoolInv, setup' = setup, LoopStep \/ Shutdown
    PROVE  PoolInv'
<1>0. Loop \in Members(pool) => loop \in {"ticking", "claiming"}
  BY Places
<1>1. CASE TickBegins
  BY <1>0, <1>1, PoolAcquires, LoopOnly DEF TickBegins
<1>2. CASE TickEnds
  BY <1>0, <1>2, PoolDrops, LoopOnly DEF TickEnds
<1>3. CASE Joined \/ DrainBegins \/ Shutdown
  BY <1>0, <1>3, PoolStays, LoopOnly DEF Joined, DrainBegins, Shutdown
<1>4. CASE ClaimBegins
  <2>1. CASE Idle = {}
    BY <1>0, <1>4, <2>1, PoolStays, LoopOnly DEF ClaimBegins
  <2>2. CASE Idle # {}
    BY <1>0, <1>4, <2>2, PoolAcquires, LoopOnly DEF ClaimBegins
  <2> QED
    BY <2>1, <2>2
<1>5. CASE ClaimEnds
  <2>1. PICK spawned \in SUBSET Idle :
          task' = [h \in Handlers |-> IF h \in spawned THEN "running" ELSE task[h]]
    BY <1>5 DEF ClaimEnds
  <2>2. Tidy(pool') /\ Sound(pool') /\ Members(pool') = Members(pool) \ {Loop}
    BY <1>5, PoolDrops DEF ClaimEnds
  <2>3. ASSUME NEW h \in Handlers, Runtime(h) \in Members(pool) \/ App(h) \in Members(pool)
        PROVE  task'[h] = task[h]
    <3>1. task[h] # "idle"
      BY <2>3, Places
    <3> QED
      BY <2>1, <3>1 DEF Idle
  <2>4. ASSUME NEW c \in Members(pool') PROVE Entitled(c)'
    <3>1. c \in Members(pool) /\ c # Loop
      BY <2>2, <2>4
    <3>2. Entitled(c)
      BY <3>1 DEF PoolInv, ConnectionsReturned, Members
    <3> QED
      BY <2>3, <3>1, <3>2, EntitledKept
  <2>5. task' = [h \in Handlers |-> task'[h]]
    BY <2>1
  <2> QED
    BY <2>2, <2>4, <2>5, PoolStep
<1>6. CASE LoopTimesOut
  BY <1>0, <1>6, PoolDrops, LoopOnly DEF LoopTimesOut
<1>7. CASE Stop
  <2>1. Tidy(pool') /\ Sound(pool') /\ Members(pool') = Members(pool) \ Clients
    BY <1>7, PoolDrops DEF Stop
  <2>2. Members(pool) \subseteq Clients
    BY DEF PoolInv, ConnectionsReturned, Members, Entitled, Clients
  <2>3. task' = [h \in Handlers |-> task'[h]]
    BY <1>7 DEF Stop
  <2> QED
    BY <2>1, <2>2, <2>3, PoolStep
<1> QED
  BY <1>1, <1>2, <1>3, <1>4, <1>5, <1>6, <1>7 DEF LoopStep

-----------------------------------------------------------------------------
(* The steps of a dispatched handler                                       *)

(* The handler h goes on to another phase: everybody else keeps its reason. *)
LEMMA HandlerOnly ==
    ASSUME PoolInv, setup' = setup, NEW h \in Handlers, NEW phase,
           task' = [task EXCEPT ![h] = phase], loop' = loop, Tidy(pool'), Sound(pool'),
           Members(pool') \subseteq Members(pool) \cup {Runtime(h), App(h)},
           Runtime(h) \in Members(pool') => phase \in {"renewing", "finishing"},
           App(h) \in Members(pool') => h \in setup.sharing /\ phase \in {"running", "renewing"}
    PROVE  PoolInv'
<1>1. task = [g \in Handlers |-> task[g]]
  BY DEF PoolInv
<1>2. task' = [g \in Handlers |-> IF g = h THEN phase ELSE task[g]]
  BY <1>1
<1>3. task' = [g \in Handlers |-> task'[g]]
  BY <1>2
<1>4. ASSUME NEW c \in Members(pool') PROVE Entitled(c)'
  <2>1. CASE c = Runtime(h)
    BY <1>2, <1>4, <2>1 DEF Entitled, Runtime
  <2>2. CASE c = App(h)
    BY <1>2, <1>4, <2>2 DEF Entitled, App
  <2>3. CASE c \notin {Runtime(h), App(h)}
    <3>1. c \in Members(pool) /\ Entitled(c)
      BY <1>4, <2>3 DEF PoolInv, ConnectionsReturned, Members
    <3>2. c = Loop => loop' \in {"ticking", "claiming"}
      BY <3>1, Places
    <3>3. \A g \in Handlers : c \in {Runtime(g), App(g)} => task'[g] = task[g]
      BY <1>2, <2>3
    <3> QED
      BY <3>1, <3>2, <3>3, EntitledKept
  <2> QED
    BY <2>1, <2>2, <2>3
<1> QED
  BY <1>3, <1>4, PoolStep

LEMMA HandlerStepInv ==
    ASSUME PoolInv, setup' = setup, NEW h \in Handlers,
           \/ UseBegins(h) \/ UseEnds(h) \/ Returns(h) \/ Panics(h)
           \/ Heartbeat(h) \/ RuntimeStep(h)
    PROVE  PoolInv'
<1>0. /\ Runtime(h) \in Members(pool) => task[h] \in {"renewing", "finishing"}
      /\ App(h) \in Members(pool) => h \in setup.sharing /\ task[h] \in {"running", "renewing"}
  BY Places
<1>1. Runtime(h) # App(h)
  BY ClientsDiffer
<1>2. ASSUME task' = task PROVE task' = [task EXCEPT ![h] = task[h]]
  BY <1>2 DEF PoolInv
<1>3. CASE UseBegins(h)
  <2>1. task[h] = "running" /\ h \in setup.sharing /\ task' = task /\ loop' = loop
    BY <1>3 DEF UseBegins
  <2>2. Tidy(pool') /\ Sound(pool') /\ Members(pool') = Members(pool) \cup {App(h)}
    BY <1>3, PoolAcquires DEF UseBegins, Holds, Waits, Members
  <2> QED
    BY <1>0, <1>1, <1>2, <2>1, <2>2, HandlerOnly
<1>4. CASE UseEnds(h)
  <2>1. task' = task /\ loop' = loop
    BY <1>4 DEF UseEnds
  <2>2. Tidy(pool') /\ Sound(pool') /\ Members(pool') = Members(pool) \ {App(h)}
    BY <1>4, PoolDrops DEF UseEnds
  <2> QED
    BY <1>0, <1>2, <2>1, <2>2, HandlerOnly
<1>5. CASE Returns(h)
  <2>1. task[h] = "running" /\ task' = [task EXCEPT ![h] = "finishing"] /\ loop' = loop
    BY <1>5 DEF Returns, To
  <2>2. PICK p, q, r : /\ p = pool /\ q \in Dropped(p, {App(h)}) /\ r = pool'
                       /\ r = Acquired(q, Runtime(h))
    BY <1>5 DEF Returns
  <2>3. Tidy(p) /\ Sound(p)
    BY <2>2 DEF PoolInv, ConnectionsReturned
  <2>4. Tidy(q) /\ Sound(q) /\ Members(q) = Members(p) \ {App(h)}
    BY <2>2, <2>3, DropKeeps
  <2>5. Runtime(h) \notin Members(q)
    BY <1>0, <2>1, <2>2, <2>4
  <2>6. Tidy(r) /\ Sound(r) /\ Members(r) = Members(q) \cup {Runtime(h)}
    BY <2>2, <2>4, <2>5, AcquireKeeps
  <2>7. /\ Tidy(pool') /\ Sound(pool')
        /\ Members(pool') = (Members(pool) \ {App(h)}) \cup {Runtime(h)}
    BY <2>2, <2>4, <2>6
  <2> QED
    BY <1>1, <2>1, <2>7, HandlerOnly
<1>6. CASE Panics(h)
  <2>1. task[h] = "running" /\ task' = [task EXCEPT ![h] = "idle"] /\ loop' = loop
    BY <1>6 DEF Panics, To
  <2>2. Tidy(pool') /\ Sound(pool') /\ Members(pool') = Members(pool) \ {App(h)}
    BY <1>6, PoolDrops DEF Panics
  <2> QED
    BY <1>0, <2>1, <2>2, HandlerOnly
<1>7. CASE Heartbeat(h)
  <2>1. task[h] = "running" /\ task' = [task EXCEPT ![h] = "renewing"] /\ loop' = loop
    BY <1>7 DEF Heartbeat, To
  <2>2. Tidy(pool') /\ Sound(pool') /\ Members(pool') = Members(pool) \cup {Runtime(h)}
    BY <1>0, <1>7, <2>1, PoolAcquires DEF Heartbeat
  <2> QED
    BY <1>0, <1>1, <2>1, <2>2, HandlerOnly
<1>8. CASE RenewalGoesOn(h)
  <2>1. task[h] = "renewing" /\ task' = [task EXCEPT ![h] = "running"] /\ loop' = loop
    BY <1>8 DEF RenewalGoesOn, To
  <2>2. Tidy(pool') /\ Sound(pool') /\ Members(pool') = Members(pool) \ {Runtime(h)}
    BY <1>8, PoolDrops DEF RenewalGoesOn
  <2> QED
    BY <1>0, <2>1, <2>2, HandlerOnly
<1>9. CASE RenewalGivesUp(h)
  <2>1. task' = [task EXCEPT ![h] = "idle"] /\ loop' = loop
    BY <1>9 DEF RenewalGivesUp, To
  <2>2. Tidy(pool') /\ Sound(pool') /\ Members(pool') = Members(pool) \ {Runtime(h), App(h)}
    BY <1>9, PoolDrops DEF RenewalGivesUp
  <2> QED
    BY <2>1, <2>2, HandlerOnly
<1>10. CASE Finalized(h)
  <2>1. task[h] = "finishing" /\ task' = [task EXCEPT ![h] = "idle"] /\ loop' = loop
    BY <1>10 DEF Finalized, To
  <2>2. Tidy(pool') /\ Sound(pool') /\ Members(pool') = Members(pool) \ {Runtime(h)}
    BY <1>10, PoolDrops DEF Finalized
  <2> QED
    BY <1>0, <2>1, <2>2, HandlerOnly
<1> QED
  BY <1>3, <1>4, <1>5, <1>6, <1>7, <1>8, <1>9, <1>10 DEF RuntimeStep

-----------------------------------------------------------------------------
(* The inductive invariant of the pool. *)
THEOREM PoolInvariant == Spec => []PoolInv
<1>1. Init => PoolInv
  <2> SUFFICES ASSUME Init PROVE PoolInv
    OBVIOUS
  <2>1. pool.held = {} /\ pool.waiting = {} /\ pool.ahead = {}
    BY DEF Init, EmptyPool
  <2>2. Tidy(pool)
    BY <2>1, FS_EmptySet DEF Tidy
  <2>3. Sound(pool)
    BY <2>1, FS_EmptySet, PoolAssumption DEF Sound
  <2>4. setup.sharing \subseteq Handlers
    BY HandlersAssumption DEF Init
  <2>5. task = [h \in Handlers |-> task[h]]
    BY DEF Init
  <2> QED
    BY <2>1, <2>2, <2>3, <2>4, <2>5 DEF PoolInv, ConnectionsReturned
<1>2. PoolInv /\ [Next]_<<vars, setup>> => PoolInv'
  <2> SUFFICES ASSUME PoolInv, [Next]_<<vars, setup>> PROVE PoolInv'
    OBVIOUS
  <2>1. CASE Next
    BY <2>1, LoopStepInv, HandlerStepInv DEF Next
  <2>2. CASE UNCHANGED <<vars, setup>>
    <3>1. pool' = pool /\ loop' = loop /\ task' = task /\ setup' = setup
      BY <2>2 DEF vars
    <3> QED
      BY <3>1, PoolStays, LoopOnly, Places
  <2> QED
    BY <2>1, <2>2
<1> QED
  BY <1>1, <1>2, PTL DEF Spec

(* Whatever fails, panics, is fenced or aborted, the runtime leaves no     *)
(* connection and no place in the queue behind, asks for none twice and    *)
(* never has more than the pool: the guards of src/runtime/worker.rs are   *)
(* dropped on every path.                                                  *)
THEOREM NothingIsLeftBehind == Spec => []ConnectionsReturned
<1>1. PoolInv => ConnectionsReturned
  BY DEF PoolInv
<1> QED
  BY <1>1, PoolInvariant, PTL
=============================================================================
