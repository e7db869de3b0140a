-------------------------------- MODULE GridWalk --------------------------------
(***************************************************************************)
(* One step of a photon packet from wall to wall through a grid: the       *)
(* get_wall_intersection of the AMR grid (AMRDensityGrid.hpp), and that of *)
(* the Cartesian grid (CartesianDensityGrid.cpp), whose cells are blocks.  *)
(*                                                                         *)
(* A step gives the point on the wall, the position from which the packet  *)
(* goes on (these differ at a periodic boundary), and the next cell, None  *)
(* outside of the box.  Directions are vectors of integers; the grids of   *)
(* coordinates are so fine that all divisions below are exact.             *)
(***************************************************************************)
EXTENDS AMRGrid

Square(x) == x * x
Sign(x) == IF x > 0 THEN 1 ELSE IF x < 0 THEN -1 ELSE 0

Never == 10 ^ 4     \* DBL_MAX

(* l, the distance to the wall across an axis, in units of the direction. *)
ToWall(c, p, d) ==
  [a \in Axis |->
     IF d[a] > 0 THEN (Anchor(c)[a] + CellSide(c) - p[a]) \div d[a]
     ELSE IF d[a] < 0 THEN (p[a] - Anchor(c)[a]) \div (-d[a])
     ELSE Never]

Along(p, d, l) == [a \in Axis |-> p[a] + l * d[a]]

-----------------------------------------------------------------------------
(* AMRDensityGrid: one wall is crossed, also when the packet goes through  *)
(* an edge or a corner.                                                    *)
WallAxis(l) ==
  IF \E a \in Axis : \A b \in Axis \ {a} : Square(l[a]) < Square(l[b])
  THEN CHOOSE a \in Axis : \A b \in Axis \ {a} : Square(l[a]) < Square(l[b])
  ELSE IF Square(l[1]) \in {Square(l[2]), Square(l[3])} THEN 1 ELSE 2

FaultSwappedTest(c, next, a, s, n, periodic) ==    \* Seeded fault: < and > are swapped
  IF ~ periodic[a] THEN 0
  ELSE IF s > 0 /\ Anchor(next)[a] > Anchor(c)[a] THEN -(n[a] * Side)
  ELSE IF s < 0 /\ Anchor(next)[a] < Anchor(c)[a] THEN n[a] * Side
  ELSE 0
PeriodicCorrection(c, next, a, s, n, periodic) ==
  IF ~ periodic[a] THEN 0
  ELSE IF s > 0 /\ Anchor(next)[a] < Anchor(c)[a] THEN -(n[a] * Side)
  ELSE IF s < 0 /\ Anchor(next)[a] > Anchor(c)[a] THEN n[a] * Side
  ELSE 0

AMRStep(c, p, d, ngbs, single, n, periodic) ==
  LET l    == ToWall(c, p, d)
      a    == WallAxis(l)
      s    == Sign(d[a])
      ngb  == ngbs[c][a][s]
      wall == Along(p, d, l[a])
  IN IF ngb = None THEN [wall |-> wall, position |-> wall, next |-> None]
     ELSE [wall |-> wall,
           position |-> [wall EXCEPT ![a] = @ + PeriodicCorrection(c, ngb, a, s, n, periodic)],
           next |-> GetChild(ngb, wall, single)]

-----------------------------------------------------------------------------
(* CartesianDensityGrid: all walls that are hit at once are crossed, and   *)
(* is_inside wraps the indices and the position.                           *)
IsInside(i, p, n, periodic) ==
  [next |-> IF \E a \in Axis : ~ periodic[a] /\ i[a] \notin 0 .. n[a] - 1
            THEN None
            ELSE Block([a \in Axis |-> i[a] % n[a]]),
   position |-> [a \in Axis |->
     IF periodic[a] /\ i[a] < 0 THEN p[a] + n[a] * Side
     ELSE IF periodic[a] /\ i[a] >= n[a] THEN p[a] - n[a] * Side
     ELSE p[a]]]

CartesianStep(c, p, d, n, periodic) ==
  LET l     == ToWall(c, p, d)
      ds    == Min({l[a] : a \in Axis})
      wall  == Along(p, d, ds)
      index == [a \in Axis |-> c.block[a] + (IF l[a] = ds THEN Sign(d[a]) ELSE 0)]
      there == IsInside(index, wall, n, periodic)
  IN [wall |-> wall, position |-> there.position, next |-> there.next]
=============================================================================
