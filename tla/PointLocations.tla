---------------------------- MODULE PointLocations ----------------------------
(***************************************************************************)
(* The search for points in blocks (PointLocations.hpp).  A cubic box is   *)
(* cut into cubic blocks; an iterator visits the blocks around a position, *)
(* level by level, and knows the radius within which it has seen all       *)
(* points.  The cells of the Voronoi grid are constructed with it          *)
(* (ngbiterator), and the cell of a position is found with it              *)
(* (generalngbiterator).                                                   *)
(*                                                                         *)
(* Coordinates are integers; lengths that depend on the size of a block    *)
(* are in units of 1 / Blocks of the unit of length.                       *)
(***************************************************************************)
EXTENDS Integers, SequencesExt, FiniteSetsExt

CONSTANT Side     \* side of the box

ASSUME SideAssumption == Side \in Nat \ {0}

Axis == 1 .. 3

Square(x) == x * x
Absolute(x) == IF x < 0 THEN -x ELSE x
Distance2(p, q) == Square(p[1] - q[1]) + Square(p[2] - q[2]) + Square(p[3] - q[3])

Cube(x) == x * x * x

(* ncell_1D, the number of blocks on an axis: round(cbrt(positions / num_per_cell)) *)
BlocksFor(positions, perBlock) ==
  LET n == Cardinality(DOMAIN positions)
      desired == n \div Min({n, perBlock})
  IN CHOOSE k \in 1 .. desired :
       Cube(2 * k - 1) <= 8 * desired /\ 8 * desired < Cube(2 * k + 1)

(* The block of a position, and the points in a block: an index goes to    *)
(* the end of its block, so that they are in increasing order.             *)
BlockOf(p, blocks) ==
  <<(p[1] * blocks) \div Side, (p[2] * blocks) \div Side, (p[3] * blocks) \div Side>>

PointsIn(positions, block, blocks) ==
  {j \in DOMAIN positions : BlockOf(positions[j], blocks) = block}
Ordered(points) == SetToSortSeq(points, <)

-----------------------------------------------------------------------------
(* The iterator.  increase_indices: the order of the blocks. *)
IncreaseIndices(r) ==
  LET x == r.range[1]
      y == r.range[2]
      z == r.range[3]
      l == r.level
      To(rx, ry, rz) == [r EXCEPT !.range = <<rx, ry, rz>>]
  IN IF z < l
     THEN IF Absolute(x) < l /\ Absolute(y) < l THEN To(x, y, l) ELSE To(x, y, z + 1)
     ELSE IF y < l THEN To(x, y + 1, -l)
     ELSE IF x < l THEN To(x + 1, -l, -l)
     ELSE [range |-> <<-(l + 1), -(l + 1), -(l + 1)>>, level |-> l + 1]

IsInside(anchor, range, blocks) == \A k \in Axis : anchor[k] + range[k] \in 0 .. blocks - 1

(* set_max_range: the last block in this order. *)
FaultCornerLast(anchor, blocks) ==     \* Seeded fault: it is always the upper corner
  [k \in Axis |-> blocks - anchor[k] - 1]
MaxRange(anchor, blocks) ==
  LET Down(k)  == -anchor[k]
      Up(k)    == blocks - anchor[k] - 1
      Level(k) == Max({-Down(k), Up(k)})
      Flipped(k) == [j \in Axis |-> IF j = k THEN Down(j) ELSE Up(j)]
      After(k, j) == Level(k) > Level(j) \/ (Level(k) = Level(j) /\ Down(j) = Down(k))
  IN IF -Down(3) > Up(3) /\ After(3, 1) /\ After(3, 2) THEN Flipped(3)
     ELSE IF -Down(2) > Up(2) /\ Level(2) > Level(3) /\ After(2, 1) THEN Flipped(2)
     ELSE IF -Down(1) > Up(1) /\ Level(1) > Level(2) /\ Level(1) > Level(3) THEN Flipped(1)
     ELSE [k \in Axis |-> Up(k)]

(* The constructors: the bounds are relative to the position. *)
Iterator(p, blocks) ==
  LET anchor == BlockOf(p, blocks) IN
  [anchor |-> anchor, range |-> <<0, 0, 0>>, level |-> 0,
   maxrange |-> MaxRange(anchor, blocks),
   lower |-> [k \in Axis |-> (anchor[k] + 1) * Side - p[k] * blocks],
   upper |-> [k \in Axis |-> anchor[k] * Side - p[k] * blocks]]

(* increase_range for an iterator that is not at its last block: on to the *)
(* next block inside.  A block is at the level of its largest range.  The  *)
(* bounds of a general iterator stop at the box.                           *)
HasMore(it) == it.range # it.maxrange

Shells == {r \in [range : [Axis -> Int], level : Nat] :
             /\ \A k \in Axis : Absolute(r.range[k]) <= r.level
             /\ \E k \in Axis : Absolute(r.range[k]) = r.level}

FirstInside(anchor, blocks) ==
  LET next[r \in Shells] ==
        IF IsInside(anchor, r.range, blocks) THEN r ELSE next[IncreaseIndices(r)]
  IN next

IncreaseRange(it, blocks, general) ==
  LET from == [range |-> it.range, level |-> it.level]
      to == FirstInside(it.anchor, blocks)[IncreaseIndices(from)]
      wider == to.level > it.level
  IN [it EXCEPT
       !.range = to.range,
       !.level = to.level,
       !.lower = [k \in Axis |->
         IF wider /\ (general => it.level <= it.anchor[k]) THEN @[k] - Side ELSE @[k]],
       !.upper = [k \in Axis |->
         IF wider /\ (general => it.level + it.anchor[k] < blocks) THEN @[k] + Side ELSE @[k]]]

(* The points of the block it is at, and get_max_radius2. *)
Neighbours(it, positions, blocks) ==
  PointsIn(positions, [k \in Axis |-> it.anchor[k] + it.range[k]], blocks)

MaxRadius2(it) ==
  Square(Min({Absolute(Max({it.lower[k] : k \in Axis})), Min({it.upper[k] : k \in Axis})}))
=============================================================================
