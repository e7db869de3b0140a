------------------------------ MODULE HydroTasks ------------------------------
(***************************************************************************)
(* The task graph of one hydrodynamics step (make_hydro_tasks,             *)
(* set_dependencies, reset_hydro_tasks and execute_task of                 *)
(* TaskBasedRadiationHydrodynamicsSimulation.cpp, the neighbour relations  *)
(* of DensitySubGridCreator.hpp).  HydroStep executes it step after step,  *)
(* HydroScheduler with the threads and locks of TaskScheduler.             *)
(*                                                                         *)
(* A task is a pair of a subgrid and a slot.  Sweeps over the face of a    *)
(* subgrid exist in the slot of the subgrid on the negative side; the slot *)
(* of the other one is empty, except at an outer boundary of the grid.     *)
(***************************************************************************)
EXTENDS Integers, Sequences, FiniteSets, SequencesExt

CONSTANT
  Layouts    \* the subgrid layouts: [n: <<nx, ny, nz>>, periodic: <<x, y, z>>]

Axis == 1 .. 3

ASSUME LayoutsAssumption ==
  \A L \in Layouts :
    /\ L.n \in Seq(Nat \ {0}) /\ Len(L.n) = 3
    /\ L.periodic \in Seq(BOOLEAN) /\ Len(L.periodic) = 3

Outside == -1   \* NEIGHBOUR_OUTSIDE

Slot      == 0 .. 17
Positive  == {1, 3, 5, 10, 12, 14}   \* the face on the positive side of an axis
Negative  == {2, 4, 6, 11, 13, 15}   \* the face on its negative side
Gradient  == 0 .. 6
Limiter   == 7
Predict   == 8
Flux      == 9 .. 15
Conserved == 16
Primitive == 17

AxisOf(k) == IF k < 7 THEN (k + 1) \div 2 ELSE (k - 8) \div 2

-----------------------------------------------------------------------------
(* The layout of the subgrids. *)
Subgrids(L) == 0 .. L.n[1] * L.n[2] * L.n[3] - 1

Position(L, i) ==
  << i \div (L.n[2] * L.n[3]), (i \div L.n[3]) % L.n[2], i % L.n[3] >>

Index(L, p) == p[1] * L.n[2] * L.n[3] + p[2] * L.n[3] + p[3]

(* The neighbour over the face in direction d of axis a. *)
Neighbour(L, i, a, d) ==
  LET p == Position(L, i)
      c == p[a] + d
  IN  CASE c \in 0 .. L.n[a] - 1          -> Index(L, [p EXCEPT ![a] = c])
        [] c = -1 /\ L.periodic[a]        -> Index(L, [p EXCEPT ![a] = L.n[a] - 1])
        [] c = L.n[a] /\ L.periodic[a]    -> Index(L, [p EXCEPT ![a] = 0])
        [] OTHER                          -> Outside

(* The tasks: the slot of a negative face is NO_TASK, unless there is no   *)
(* neighbour on that side.                                                 *)
HydroTask(L) ==
  {x \in Subgrids(L) \X Slot :
     x[2] \in Negative => Neighbour(L, x[1], AxisOf(x[2]), -1) = Outside}

(* The other subgrid a task works on (its buffer), for sweeps over a face. *)
Partner(L, x) ==
  IF x[2] \in Positive THEN Neighbour(L, x[1], AxisOf(x[2]), 1) ELSE Outside

Touches(L, x) == {x[1], Partner(L, x)} \ {Outside}

FaultSingleDependency(L, x) ==   \* Seeded fault: no extra dependency
  <<x[1]>>

(* The locks of a task: "avoid dining philosophers by sorting the          *)
(* dependencies on subgrid index".                                         *)
FaultUnsortedDependencies(L, x) ==   \* Seeded fault: own subgrid first
  IF Partner(L, x) = Outside THEN <<x[1]>> ELSE <<x[1], Partner(L, x)>>

Dependencies(L, x) ==
  LET i == x[1]
      p == Partner(L, x)
  IN  IF p = Outside THEN <<i>> ELSE IF i < p THEN <<i, p>> ELSE <<p, i>>

-----------------------------------------------------------------------------
(* set_dependencies.  The sweep in slot k that contributes to subgrid i:   *)
(* an empty slot stands for the positive face of the negative neighbour.   *)
FaultOwnSlot(L, i, k) ==   \* Seeded fault: the own positive face instead
  IF <<i, k>> \in HydroTask(L) THEN <<i, k>> ELSE <<i, k - 1>>

SweepOf(L, i, k) ==
  IF <<i, k>> \in HydroTask(L)
  THEN <<i, k>>
  ELSE <<Neighbour(L, i, AxisOf(k), -1), k - 1>>

(* The (parent, child) pairs in the order in which add_child is called.    *)
FaultNoFaceFlux(L, i) ==   \* Seeded fault: the prediction unlocks inner fluxes only
  LET g == [j \in 1 .. 7 |-> SweepOf(L, i, j - 1)]
      f == [j \in 1 .. 7 |-> SweepOf(L, i, j + 8)]
  IN  [j \in 1 .. 7 |-> <<g[j], <<i, Limiter>> >>]
      \o << << <<i, Limiter>>, <<i, Predict>> >>, << <<i, Predict>>, f[1]>> >>
      \o [j \in 1 .. 7 |-> <<f[j], <<i, Conserved>> >>]
      \o << << <<i, Conserved>>, <<i, Primitive>> >> >>


Edges(L, i) ==
  LET g == [j \in 1 .. 7 |-> SweepOf(L, i, j - 1)]
      f == [j \in 1 .. 7 |-> SweepOf(L, i, j + 8)]
  IN  [j \in 1 .. 7 |-> <<g[j], <<i, Limiter>> >>]
      \o << << <<i, Limiter>>, <<i, Predict>> >> >>
      \o [j \in 1 .. 7 |-> << <<i, Predict>>, f[j]>>]
      \o [j \in 1 .. 7 |-> <<f[j], <<i, Conserved>> >>]
      \o << << <<i, Conserved>>, <<i, Primitive>> >> >>

AllEdges(L) ==
  FlattenSeq([i \in 1 .. Cardinality(Subgrids(L)) |-> Edges(L, i - 1)])

(* Task::add_child appends to the children of the parent. *)
ChildrenOf(L) ==
  LET edges == AllEdges(L)
      after[k \in 0 .. Len(edges)] ==
        IF k = 0 THEN [x \in HydroTask(L) |-> <<>>]
        ELSE [after[k - 1] EXCEPT ![edges[k][1]] = Append(@, edges[k][2])]
  IN after[Len(edges)]

(* reset_hydro_tasks: the number of unfinished parents. *)

NumberOfParents(L, x) ==
  CASE x[2] \in Gradient                                           -> 0
    [] x[2] \in {Limiter, Conserved}                               -> 7
    [] x[2] \in Flux \cap Positive /\ Partner(L, x) # Outside      -> 2
    [] OTHER                                                       -> 1
=============================================================================
