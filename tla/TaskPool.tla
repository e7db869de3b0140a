------------------------------- MODULE TaskPool -------------------------------
(***************************************************************************)
(* What the task-based parts of the program promise about a graph of       *)
(* tasks, whatever threads, queues and locks there are: every task is      *)
(* executed once, after all its parents, and never together with a task    *)
(* that needs one of its locks.                                            *)
(***************************************************************************)
EXTENDS FiniteSets

CONSTANTS
  Task,      \* the tasks
  LocksOf,   \* [Task -> set of locks]
  ParentsOf  \* [Task -> set of tasks]

VARIABLES
  running,   \* the tasks that are executed
  finished   \* the tasks that were executed

vars == <<running, finished>>

Init ==
  /\ running = {}
  /\ finished = {}

Begin(x) ==
  /\ x \notin running \cup finished
  /\ ParentsOf[x] \subseteq finished
  /\ \A y \in running : LocksOf[x] \cap LocksOf[y] = {}
  /\ running' = running \cup {x}
  /\ UNCHANGED finished

End(x) ==
  /\ x \in running
  /\ running' = running \ {x}
  /\ finished' = finished \cup {x}

Next == \E x \in Task : Begin(x) \/ End(x)

Spec == Init /\ [][Next]_vars
=============================================================================
