------------------------------- MODULE HydroStep -------------------------------
(***************************************************************************)
(* The execution of the hydro tasks, step after step: the loop over the    *)
(* time steps of TaskBasedRadiationHydrodynamicsSimulation.cpp, reduced to *)
(* what resets, enqueues and executes the task graph of HydroTasks.        *)
(*                                                                         *)
(* A task begins when it is available and its locks are free, and ends     *)
(* some time later; any number of tasks run together.  The graph is made   *)
(* once and used in every step.                                            *)
(***************************************************************************)
EXTENDS HydroTasks

CONSTANTS
  Executed,  \* bound: the layouts whose steps are executed
  MaxStep    \* bound: number of hydrodynamics steps

ASSUME BoundAssumption == Executed \subseteq Layouts /\ MaxStep \in Nat

VARIABLES
  layout,     \* the layout of the subgrids, fixed
  children,   \* _children of every task, fixed
  step,       \* number of the step
  parents,    \* _number_of_unfinished_parents of every task
  available,  \* the tasks in a queue
  running,    \* the tasks a thread executes, with their locks taken
  finished    \* the tasks that were executed in this step

vars == <<layout, children, step, parents, available, running, finished>>

Tasks == DOMAIN children

Init ==
  /\ layout \in Layouts
  /\ children = ChildrenOf(layout)
  /\ step = 0
  /\ parents = [x \in Tasks |-> 0]
  /\ available = {}
  /\ running = {}
  /\ finished = {}

(* The threads leave the loop over the tasks when number_of_tasks is 0:    *)
(* no task is available or executed any more.                              *)
NoTasksLeft == available = {} /\ running = {}

(* reset_hydro_tasks on every subgrid; the tasks without parents are       *)
(* enqueued.                                                               *)
StartStep ==
  /\ layout \in Executed
  /\ step < MaxStep
  /\ NoTasksLeft
  /\ step' = step + 1
  /\ parents' = [x \in Tasks |-> NumberOfParents(layout, x)]
  /\ available' = {x \in Tasks : parents'[x] = 0}
  /\ finished' = {}
  /\ UNCHANGED <<layout, children, running>>

(* Task::lock_dependency succeeds: the first lock is free, and the second  *)
(* one is after the first one was taken.                                   *)
LockedSubgrids == UNION {ToSet(Dependencies(layout, y)) : y \in running}

CanLock(x) ==
  LET d == Dependencies(layout, x) IN
  \A i \in DOMAIN d : d[i] \notin LockedSubgrids \cup {d[j] : j \in 1 .. i - 1}

Begin(x) ==
  /\ x \in available
  /\ CanLock(x)
  /\ available' = available \ {x}
  /\ running' = running \cup {x}
  /\ UNCHANGED <<layout, children, step, parents, finished>>

(* The task is done: unlock it, and decrement the counters of its children *)
(* (twice for a child that is listed twice); the ones that get to zero     *)
(* become available.                                                       *)
Count(s, e) == Cardinality({i \in DOMAIN s : s[i] = e})

End(x) ==
  LET c == children[x] IN
  /\ x \in running
  /\ running' = running \ {x}
  /\ finished' = finished \cup {x}
  /\ parents' = [y \in Tasks |-> parents[y] - Count(c, y)]
  /\ available' = available \cup {y \in ToSet(c) : parents'[y] = 0}
  /\ UNCHANGED <<layout, children, step>>

(* The simulation ends after its last step. *)
Stop ==
  /\ step = MaxStep \/ layout \notin Executed
  /\ NoTasksLeft
  /\ UNCHANGED vars

(* A task whose locks are not free stays in its queue, while the threads   *)
(* keep looking for work.                                                  *)
Spin ==
  /\ running = {}
  /\ available # {}
  /\ \A x \in available : ~ CanLock(x)
  /\ UNCHANGED vars

Next ==
  \/ StartStep
  \/ \E x \in Tasks : Begin(x) \/ End(x)
  \/ Stop
  \/ Spin

Spec == Init /\ [][Next]_vars

(* The threads do not stop while there is a task they can execute.         *)
FairSpec == Spec /\ WF_vars(Next)

-----------------------------------------------------------------------------
(* No two tasks work on the same subgrid at the same time. *)
Exclusive ==
  \A x, y \in running :
    x # y => Touches(layout, x) \cap Touches(layout, y) = {}

(* Any two tasks that work on a common subgrid in different phases are     *)
(* ordered by the graph: what a subgrid is subject to does not depend on   *)
(* the schedule.                                                           *)
PhaseOf(k) ==
  CASE k \in Gradient -> 1 [] k = Limiter -> 2 [] k = Predict -> 3
    [] k \in Flux -> 4 [] k = Conserved -> 5 [] k = Primitive -> 6

Reaches ==
  LET Below(S) == S \cup UNION {ToSet(children[x]) : x \in S}
  IN  [x \in Tasks |-> Below(Below(Below(Below(Below({x})))))]

PhasesOrdered ==
  step = 0 =>
  LET reaches == Reaches IN
  \A x, y \in Tasks :
    (/\ Touches(layout, x) \cap Touches(layout, y) # {}
     /\ PhaseOf(x[2]) < PhaseOf(y[2])) => y \in reaches[x]

(* When the threads find no more tasks all of them were executed. *)
NoneLeftOut == step > 0 /\ NoTasksLeft => finished = Tasks

(* Every step of the simulation ends, with all tasks executed. *)
StepsComplete == layout \in Executed => <>[](step = MaxStep /\ finished = Tasks)
=============================================================================
