---------------------------- MODULE VoronoiGeometry ----------------------------
(***************************************************************************)
(* The geometric tests of the Voronoi grid (ExactGeometricTests.hpp), the  *)
(* positions that are not generators (NewVoronoiBox.hpp), and circumcentres*)
(* (NewVoronoiTetrahedron.hpp).  The program maps its coordinates to       *)
(* integers, for which the tests are exact; here they are small integers   *)
(* from the start.                                                         *)
(***************************************************************************)
EXTENDS PointLocations

Minus(p, q) == <<p[1] - q[1], p[2] - q[2], p[3] - q[3]>>
Dot(p, q) == p[1] * q[1] + p[2] * q[2] + p[3] * q[3]
Cross(p, q) ==
  <<p[2] * q[3] - p[3] * q[2], p[3] * q[1] - p[1] * q[3], p[1] * q[2] - p[2] * q[1]>>
Sign(x) == IF x > 0 THEN 1 ELSE IF x < 0 THEN -1 ELSE 0

(* orient3d: negative if a, b, c, d is positively oriented. *)
Determinant(a, b, c) == Dot(a, Cross(b, c))
Orient3d(a, b, c, d) == Sign(Determinant(Minus(a, d), Minus(b, d), Minus(c, d)))

(* insphere: negative if e is inside the circumsphere of a, b, c, d. *)
InSphere(a, b, c, d, e) ==
  LET ae == Minus(a, e)
      be == Minus(b, e)
      ce == Minus(c, e)
      de == Minus(d, e)
  IN Sign(Dot(de, de) * Determinant(ae, be, ce) - Dot(ce, ce) * Determinant(de, ae, be)
          + Dot(be, be) * Determinant(ce, de, ae) - Dot(ae, ae) * Determinant(be, ce, de))

-----------------------------------------------------------------------------
(* The indices above those of the generators: the corners of the large     *)
(* tetrahedron, and the copies of the central generator in the walls.      *)
Corner == 100 .. 103
Wall   == 110 .. 115       \* left, right, front, back, bottom, top

CornerPosition(index) ==
  [k \in Axis |-> IF k = index - 100 THEN 8 * Side ELSE -Side]

WallCopy(index, p) ==
  LET axis == 1 + (index - 110) \div 2
      upper == (index - 110) % 2
  IN [p EXCEPT ![axis] = 2 * upper * Side - @]

(* get_position for a cell with generator g *)
Position(index, positions, g) ==
  IF index \in Corner THEN CornerPosition(index)
  ELSE IF index \in Wall THEN WallCopy(index, positions[g])
  ELSE positions[index]

(* get_midpoint_circumsphere: the centre is p + num / (2 den). *)
Scaled(f, p) == <<f * p[1], f * p[2], f * p[3]>>
CircumCentre(p, q, r, s) ==
  LET a == Minus(q, p)
      b == Minus(r, p)
      c == Minus(s, p)
      sum(u, v, w) == <<u[1] + v[1] + w[1], u[2] + v[2] + w[2], u[3] + v[3] + w[3]>>
  IN [num |-> sum(Scaled(Dot(c, c), Cross(a, b)), Scaled(Dot(b, b), Cross(c, a)),
                  Scaled(Dot(a, a), Cross(b, c))),
      den |-> Determinant(a, b, c)]

SameCentre(c, d) == Scaled(c.den, d.num) = Scaled(d.den, c.num)
=============================================================================
