----------------------------- MODULE HydroSweeps -----------------------------
(***************************************************************************)
(* What the tasks of HydroStep do with the cells: the sweeps of            *)
(* HydroDensitySubGrid.hpp.  A sweep visits pairs of cells on both sides   *)
(* of an interface, and finds them with strides in the arrays of the cells *)
(* of its subgrids.  The gradient and flux sweeps are two copies of the    *)
(* same loops.                                                             *)
(*                                                                         *)
(* The direction of an interaction is an axis and a side.  A visit is      *)
(* [task, at, axis, side, left, right]: "at" are the loop indices, a cell  *)
(* is <<subgrid, index>>, and the right cell of a boundary is Boundary.    *)
(***************************************************************************)
EXTENDS HydroStep

CONSTANT Cells   \* cells of a subgrid along the axes, _number_of_cells[0..2]

ASSUME CellsAssumption == Cells \in Seq(Nat \ {0}) /\ Len(Cells) = 3

Boundary == <<Outside, 0>>   \* in place of a cell

(* _number_of_cells[3], and the distance in the array of two cells that    *)
(* are next to each other along an axis.                                   *)
CellsPerLayer == Cells[2] * Cells[3]

Stride == <<CellsPerLayer, Cells[3], 1>>

CellIndex(p) == p[1] * Stride[1] + p[2] * Stride[2] + p[3] * Stride[3]

LocalCells == {<<x, y, z>> : x \in 0 .. Cells[1] - 1, y \in 0 .. Cells[2] - 1,
                             z \in 0 .. Cells[3] - 1}

-----------------------------------------------------------------------------
(* The three loops over the interfaces inside a subgrid. *)
InnerVisits(x) ==
  UNION {{[task |-> x, at |-> p, axis |-> a, side |-> 1,
           left |-> <<x[1], CellIndex(p)>>,
           right |-> <<x[1], CellIndex([p EXCEPT ![a] = @ + 1])>>] :
          p \in {q \in LocalCells : q[a] < Cells[a] - 1}} : a \in Axis}

(* The table of start indices, increments and lengths of a face. *)
Face(a) ==
  LET rows    == IF a = 3 THEN 2 ELSE 3
      columns == IF a = 1 THEN 2 ELSE 1
  IN  [start |-> (Cells[a] - 1) * Stride[a],
       rowIncrement |-> Stride[rows], rowLength |-> Cells[rows],
       columnIncrement |-> Stride[columns], columnLength |-> Cells[columns]]

Offset(a, p) == p[1] * Face(a).columnIncrement + p[2] * Face(a).rowIncrement

FaceLoop(a) == (0 .. Face(a).columnLength - 1) \X (0 .. Face(a).rowLength - 1)

(* The loop over the interfaces with a neighbouring subgrid: the subgrid   *)
(* on the negative side is left, whoever owns the task.                    *)
OuterVisits(x, ngb, a, side) ==
  LET left  == IF side = 1 THEN x[1] ELSE ngb
      right == IF side = 1 THEN ngb ELSE x[1]
  IN  {[task |-> x, at |-> p, axis |-> a, side |-> 1,
        left |-> <<left, Face(a).start + Offset(a, p)>>,
        right |-> <<right, Offset(a, p)>>] : p \in FaceLoop(a)}

(* The loop over the interfaces with the boundary of the box. *)
GhostVisits(x, a, side) ==
  {[task |-> x, at |-> p, axis |-> a, side |-> side,
    left |-> <<x[1], (IF side = 1 THEN Face(a).start ELSE 0) + Offset(a, p)>>,
    right |-> Boundary] : p \in FaceLoop(a)}

(* execute_task: the type of a task, its buffer and its direction choose   *)
(* the sweep.                                                              *)
SideOf(k) == IF k \in Positive THEN 1 ELSE -1

FaultGhostAtStart(L, x) ==   \* Seeded fault: boundary fluxes on the positive side only
  LET a    == AxisOf(x[2])
      side == SideOf(x[2])
      ngb  == Neighbour(L, x[1], a, side)
  IN  IF x[2] = 9 THEN InnerVisits(x)
      ELSE IF ngb = Outside THEN GhostVisits(x, a, 1)
      ELSE OuterVisits(x, ngb, a, side)

FluxSweep(L, x) ==
  LET a    == AxisOf(x[2])
      side == SideOf(x[2])
      ngb  == Neighbour(L, x[1], a, side)
  IN  IF x[2] = 9 THEN InnerVisits(x)
      ELSE IF ngb = Outside THEN GhostVisits(x, a, side)
      ELSE OuterVisits(x, ngb, a, side)

GradientSweep(L, x) ==
  LET a    == AxisOf(x[2])
      side == SideOf(x[2])
      ngb  == Neighbour(L, x[1], a, side)
  IN  IF x[2] = 0 THEN InnerVisits(x)
      ELSE IF ngb = Outside THEN GhostVisits(x, a, side)
      ELSE OuterVisits(x, ngb, a, side)

-----------------------------------------------------------------------------
(* The interfaces of the cells of the box, from their positions: one on    *)
(* the positive side of every cell, with the next cell of the same or of   *)
(* another subgrid on its right, or none at the boundary; and one on the   *)
(* negative side of the cells at the negative boundary.                    *)
Interfaces(L) ==
  LET Beyond(i, p, a, side) ==
        LET c == p[a] + side
            j == IF c \in 0 .. Cells[a] - 1 THEN i ELSE Neighbour(L, i, a, side)
        IN  IF j = Outside THEN Boundary
            ELSE <<j, CellIndex([p EXCEPT ![a] = c % Cells[a]])>>
  IN  {[axis |-> a, side |-> 1, left |-> <<i, CellIndex(p)>>,
        right |-> Beyond(i, p, a, 1)] :
       i \in Subgrids(L), p \in LocalCells, a \in Axis}
      \cup
      {[axis |-> t[3], side |-> -1, left |-> <<t[1], CellIndex(t[2])>>, right |-> Boundary] :
       t \in {u \in Subgrids(L) \X LocalCells \X Axis :
                Beyond(u[1], u[2], u[3], -1) = Boundary}}

InterfaceOf(v) ==
  [axis |-> v.axis, side |-> v.side, left |-> v.left, right |-> v.right]

(* The tasks of a layout visit every interface between two cells of the    *)
(* box, or between a cell and its boundary, exactly once for the gradients *)
(* and once for the fluxes, in the same orientation: no flux is exchanged  *)
(* twice or forgotten where subgrids meet, also over a periodic boundary   *)
(* (HydroDensitySubGrid.hpp, make_hydro_tasks).  With PhasesOrdered a cell *)
(* is updated with all its fluxes.  (The graph is made once: see the first *)
(* state.)                                                                 *)
EachInterfaceOnce ==
  step = 0 =>
  LET gradients == UNION {GradientSweep(layout, x) : x \in {y \in Tasks : y[2] \in Gradient}}
      fluxes    == UNION {FluxSweep(layout, x) : x \in {y \in Tasks : y[2] \in Flux}}
  IN  \A visits \in {gradients, fluxes} :
        /\ {InterfaceOf(v) : v \in visits} = Interfaces(layout)
        /\ Cardinality(visits) = Cardinality(Interfaces(layout))
=============================================================================
