---------------------------- MODULE HydroScheduler ----------------------------
(***************************************************************************)
(* The hydro task graph of HydroTasks executed by the threads of           *)
(* TaskScheduler: the composition that the hydro loop of                   *)
(* TaskBasedRadiationHydrodynamicsSimulation.cpp is.  A configuration sets *)
(* the constants of TaskScheduler to the definitions of this module.       *)
(***************************************************************************)
EXTENDS TaskScheduler, HydroTasks

CONSTANTS
  Layout,    \* the layout of the subgrids
  Selection  \* bound: the tasks that are taken along

ASSUME CompositionAssumption ==
  Layout \in Layouts /\ Selection \subseteq HydroTask(Layout)

AllLocks     == Subgrids(Layout)
SomeDeps     == [x \in Selection |-> Dependencies(Layout, x)]
SomeSubgrid  == [x \in Selection |-> x[1]]
SomeChildren ==
  LET all == ChildrenOf(Layout)
  IN  [x \in Selection |-> SelectSeq(all[x], LAMBDA y : y \in Selection)]
=============================================================================
