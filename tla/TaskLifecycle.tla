--------------------------- MODULE TaskLifecycle ---------------------------
(***************************************************************************)
(* What the queue promises, without tables, attempts, leases or clocks: a  *)
(* task waits, is owned by one owner at a time, and ends once. It is owned *)
(* at most as often as its budget allows, each time by an owner that never *)
(* owned anything before, and goes back to waiting only while owners are   *)
(* left. Batches are steps of several tasks.                               *)
(***************************************************************************)
EXTENDS Naturals

CONSTANTS
    Tasks,     \* the tasks there may ever be
    Owners,    \* the ownerships there may ever be
    Budgets,   \* how often a task may be owned
    Nobody     \* the owner of a task that is not owned

VARIABLES
    task,      \* where each task stands
    used       \* the ownerships that have been given away

vars == <<task, used>>

Ends == {"completed", "failed", "cancelled"}

Task(phase, owner, claims, budget) ==
    [phase |-> phase, owner |-> owner, claims |-> claims, budget |-> budget]

Absent == Task("absent", Nobody, 0, 0)
Gone == Task("gone", Nobody, 0, 0)

(* x in another phase, owned by nobody; how often it was owned stands. *)
Moved(x, phase) == Task(phase, Nobody, task[x].claims, task[x].budget)

(* The tasks in S become what new says, all at once. *)
Become(S, new) == task' = [x \in Tasks |-> IF x \in S THEN new[x] ELSE task[x]]

Submit(x) ==
    /\ task[x] = Absent
    /\ \E max \in Budgets : Become({x}, [y \in {x} |-> Task("waiting", Nobody, 0, max)])
    /\ UNCHANGED used

Own(S) ==
    /\ \A x \in S : task[x].phase = "waiting" /\ task[x].claims < task[x].budget
    /\ \E o \in [S -> Owners \ used] :
         /\ \A x, y \in S : o[x] = o[y] => x = y
         /\ Become(S, [x \in S |-> Task("owned", o[x], task[x].claims + 1, task[x].budget)])
         /\ used' = used \cup {o[x] : x \in S}

(* Owners give tasks back, or end them; only a cancellation ends a task    *)
(* that nobody owns.                                                       *)
Released(x) ==
    {Moved(x, end) : end \in Ends}
      \cup (IF task[x].claims < task[x].budget THEN {Moved(x, "waiting")} ELSE {})

Release(S) ==
    /\ \A x \in S : task[x].phase = "owned"
    /\ \E new \in [S -> UNION {Released(x) : x \in S}] :
         (\A x \in S : new[x] \in Released(x)) /\ Become(S, new)
    /\ UNCHANGED used

Withdraw(x) ==
    /\ task[x].phase = "waiting"
    /\ Become({x}, [y \in {x} |-> Moved(x, "cancelled")])
    /\ UNCHANGED used

(* A task that has ended is forgotten; one that was never submitted, too. *)
Forget(S) ==
    /\ \A x \in S : task[x].phase \in Ends \/ task[x] = Absent
    /\ Become(S, [x \in S |-> Gone])
    /\ UNCHANGED used

Init == task = [x \in Tasks |-> Absent] /\ used = {}

Next ==
    \/ \E x \in Tasks : Submit(x) \/ Withdraw(x)
    \/ \E S \in SUBSET Tasks : Own(S) \/ Release(S) \/ Forget(S)

Spec == Init /\ [][Next]_vars
=============================================================================
