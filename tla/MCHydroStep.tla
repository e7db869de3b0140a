------------------------------ MODULE MCHydroStep ------------------------------
(* Layouts of subgrids and their cells for HydroSweeps. *)
EXTENDS HydroSweeps

(* Subgrids with different numbers of cells along their axes. *)
UnequalCells == <<2, 3, 4>>

(* Two subgrids, with outer boundaries or periodic along their axis. *)
TwoSubgrids ==
  {[n |-> <<2, 1, 1>>, periodic |-> <<x, FALSE, FALSE>>] : x \in BOOLEAN}

(* One subgrid along a periodic axis. *)
PeriodicSubgrid == {[n |-> <<1, 1, 1>>, periodic |-> <<TRUE, FALSE, FALSE>>]}

SmallestLayouts == TwoSubgrids \cup PeriodicSubgrid

(* All layouts of up to three subgrids per axis. *)
SmallLayouts ==
  [n : {<<i, j, k>> : i \in 1 .. 3, j \in 1 .. 3, k \in 1 .. 2},
   periodic : {<<x, y, z>> : x \in BOOLEAN, y \in BOOLEAN, z \in BOOLEAN}]
=============================================================================
