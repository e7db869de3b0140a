----------------------------- MODULE VoronoiFlips -----------------------------
(***************************************************************************)
(* The tetrahedra of a Voronoi cell under construction and the flips that  *)
(* replace some of them by others (NewVoronoiCellConstructor.cpp,          *)
(* NewVoronoiTetrahedron.hpp).                                             *)
(*                                                                         *)
(* A tetrahedron has four vertices v, its neighbour n[k] opposite vertex   *)
(* k, and the index i[k] in that neighbour of the vertex opposite their    *)
(* common face.  As in the code indices start at 0: From0 turns a tuple    *)
(* into a function on 0, 1, ...  A cell is a record of its vertices, its   *)
(* tetrahedra and the stack of the free slots among them.                  *)
(***************************************************************************)
EXTENDS Integers, SequencesExt, FiniteSetsExt

Slot == 0 .. 3
MaxIndex == -1    \* NEWVORONOICELL_MAX_INDEX: no such tetrahedron

From0(seq) == [k \in 0 .. Len(seq) - 1 |-> seq[k + 1]]
Tetrahedron(v, n, i) == [v |-> From0(v), n |-> From0(n), i |-> From0(i)]

Inactive == Tetrahedron(<<MaxIndex, MaxIndex, MaxIndex, MaxIndex>>,
                        <<MaxIndex, MaxIndex, MaxIndex, MaxIndex>>, <<4, 4, 4, 4>>)

Active(c) == {t \in DOMAIN c.tetrahedra : c.tetrahedra[t] # Inactive}
Vertices(tet) == {tet.v[k] : k \in Slot}

(* The index of a vertex, and of a neighbour. *)
IndexOf(tet, vertex) == CHOOSE k \in Slot : tet.v[k] = vertex
get_index(tet, t) == Min({k \in Slot : tet.n[k] = t})

(* The indices of the vertices of a that are vertices of all others. *)
Common(a, others) ==
  SelectSeq(<<0, 1, 2, 3>>, LAMBDA k : \A b \in others : a.v[k] \in Vertices(b))

Swap12(seq) == [seq EXCEPT ![1] = seq[2], ![2] = seq[1]]
Indices(tet, vertices) == [k \in DOMAIN vertices |-> IndexOf(tet, vertices[k])]
VerticesAt(tet, indices) == [k \in DOMAIN indices |-> tet.v[indices[k]]]

(* A permutation abcd of 0123 that keeps the orientation. *)
positive_permutation(a, b, c, d) ==
  IF (a + 1) % 4 = b THEN c % 2 = 0
  ELSE IF (a + 2) % 4 = b THEN b * c + a * d > b * d + a * c
  ELSE d % 2 = 0

(* create_new_tetrahedra: free slots first, from the top of the stack. *)
NewTetrahedra(c, k) ==
  LET f == Len(c.free)
      size == Cardinality(DOMAIN c.tetrahedra)
  IN [m \in 1 .. k |-> IF m <= f THEN c.free[f + 1 - m] ELSE size + m - 1 - f]
FreeAfter(c, k) == SubSeq(c.free, 1, Max({0, Len(c.free) - k}))

(* The end of every flip: tetrahedron tn[k] becomes rows[k], and           *)
(* swap_neighbour is called for each <<n, i, k, j>> of outer: slot i of n, *)
(* unless there is no such neighbour, now leads to slot j of tn[k].        *)
Flip(c, tn, rows, outer, free) ==
  LET new == {tn[k] : k \in DOMAIN tn}
      Row(t) == rows[CHOOSE k \in DOMAIN tn : tn[k] = t]
      Swaps(t, j) == {o \in Range(outer) : o[1] = t /\ o[2] = j}
      Relinked(t) ==
        [c.tetrahedra[t] EXCEPT
          !.n = [j \in Slot |-> IF Swaps(t, j) = {} THEN @[j]
                                ELSE tn[(CHOOSE o \in Swaps(t, j) : TRUE)[3]]],
          !.i = [j \in Slot |-> IF Swaps(t, j) = {} THEN @[j]
                                ELSE (CHOOSE o \in Swaps(t, j) : TRUE)[4]]]
  IN [cell |-> [c EXCEPT
        !.tetrahedra = [t \in DOMAIN c.tetrahedra \cup new |->
          IF t \in new THEN Row(t)
          ELSE IF \E o \in Range(outer) : o[1] = t THEN Relinked(t)
          ELSE c.tetrahedra[t]],
        !.free = free],
      tn |-> new]

-----------------------------------------------------------------------------
(* The flips that insert the new vertex x.  It is inside tetrahedron t. *)
OneToFourRows(tn, v, n, i, x) ==
  From0(<<
    Tetrahedron(<<v[0], v[1], v[2], x>>, <<tn[3], tn[2], tn[1], n[3]>>, <<3, 3, 3, i[3]>>),
    Tetrahedron(<<v[0], v[1], x, v[3]>>, <<tn[3], tn[2], n[2], tn[0]>>, <<2, 2, i[2], 2>>),
    Tetrahedron(<<v[0], x, v[2], v[3]>>, <<tn[3], n[1], tn[1], tn[0]>>, <<1, i[1], 1, 1>>),
    Tetrahedron(<<x, v[1], v[2], v[3]>>, <<n[0], tn[2], tn[1], tn[0]>>, <<i[0], 0, 0, 0>>)>>)
OneToFourSwaps(n, i) ==
  << <<n[0], i[0], 3, 0>>, <<n[1], i[1], 2, 1>>, <<n[2], i[2], 1, 2>>, <<n[3], i[3], 0, 3>> >>
one_to_four_flip(c, x, t) ==
  LET v == c.tetrahedra[t].v
      n == c.tetrahedra[t].n
      i == c.tetrahedra[t].i
      tn == From0(<<t>> \o NewTetrahedra(c, 3))
  IN Flip(c, tn, OneToFourRows(tn, v, n, i, x), OneToFourSwaps(n, i), FreeAfter(c, 3))

(* It is on the common face of t0 and t1. *)
TwoToSixRows(tn, v, n, i) ==
  From0(<<
    Tetrahedron(<<v[0], v[1], v[2], v[5]>>, <<tn[2], tn[1], tn[3], n[4]>>, <<3, 3, 3, i[4]>>),
    Tetrahedron(<<v[0], v[5], v[2], v[3]>>, <<tn[2], n[3], tn[4], tn[0]>>, <<1, i[3], 3, 1>>),
    Tetrahedron(<<v[5], v[1], v[2], v[3]>>, <<n[0], tn[1], tn[5], tn[0]>>, <<i[0], 0, 3, 0>>),
    Tetrahedron(<<v[0], v[1], v[5], v[4]>>, <<tn[5], tn[4], n[5], tn[0]>>, <<2, 2, i[5], 2>>),
    Tetrahedron(<<v[0], v[5], v[3], v[4]>>, <<tn[5], n[2], tn[3], tn[1]>>, <<1, i[2], 1, 2>>),
    Tetrahedron(<<v[5], v[1], v[3], v[4]>>, <<n[1], tn[4], tn[3], tn[2]>>, <<i[1], 0, 0, 2>>)>>)
TwoToSixSwaps(n, i) ==
  << <<n[0], i[0], 2, 0>>, <<n[1], i[1], 5, 0>>, <<n[2], i[2], 4, 1>>,
     <<n[3], i[3], 1, 1>>, <<n[4], i[4], 0, 3>>, <<n[5], i[5], 3, 2>> >>
two_to_six_flip(c, x, t0, t1) ==
  LET a == c.tetrahedra[t0]
      b == c.tetrahedra[t1]
      shared == Common(a, {b})
      top == 6 - shared[1] - shared[2] - shared[3]
      tri == IF positive_permutation(shared[1], shared[2], top, shared[3])
             THEN shared ELSE Swap12(shared)
      trj == Indices(b, VerticesAt(a, tri))
      v == From0(VerticesAt(a, <<tri[1], tri[2], top, tri[3]>>) \o <<b.v[a.i[top]], x>>)
      n == From0(<<a.n[tri[1]], b.n[trj[1]], b.n[trj[2]], a.n[tri[2]], a.n[tri[3]], b.n[trj[3]]>>)
      i == From0(<<a.i[tri[1]], b.i[trj[1]], b.i[trj[2]], a.i[tri[2]], a.i[tri[3]], b.i[trj[3]]>>)
      tn == From0(<<t0, t1>> \o NewTetrahedra(c, 4))
  IN Flip(c, tn, TwoToSixRows(tn, v, n, i), TwoToSixSwaps(n, i), FreeAfter(c, 4))

(* It is on the common edge of the n tetrahedra ts, in their order around it. *)
n_to_2n_flip(c, x, ts) ==
  LET n == Len(ts)
      tet == [j \in 0 .. n - 1 |-> c.tetrahedra[ts[j + 1]]]
      shared == Common(tet[0], {tet[j] : j \in 1 .. n - 1})
      next == CHOOSE k \in Slot :
                k \notin Range(shared) /\ tet[0].v[k] \in Vertices(tet[1])
      last == 6 - shared[1] - shared[2] - next
      axis0 == IF positive_permutation(last, shared[1], next, shared[2])
               THEN shared ELSE Swap12(shared)
      axis == [j \in 0 .. n - 1 |-> Indices(tet[j], VerticesAt(tet[0], axis0))]
      \* vother of tetrahedron j
      other[j \in 0 .. n - 1] ==
        6 - axis[j][1] - axis[j][2]
          - (IF j = 0 THEN next ELSE tet[j - 1].i[other[j - 1]])
      v == [j \in 0 .. n - 1 |-> tet[j].v[other[j]]]
      bottom == tet[0].v[axis0[2]]
      top == tet[0].v[axis0[1]]
      tn == From0(ts \o NewTetrahedra(c, n))
      N(j, k) == tet[j].n[axis[j][k]]
      I(j, k) == tet[j].i[axis[j][k]]
      Row(j) == Tetrahedron(<<v[j], x, v[(j + 1) % n], bottom>>,
                  <<tn[2 * ((j + 1) % n)], N(j, 1), tn[2 * ((j + n - 1) % n)], tn[2 * j + 1]>>,
                  <<2, I(j, 1), 0, 1>>)
      Row1(j) == Tetrahedron(<<v[j], top, v[(j + 1) % n], x>>,
                   <<tn[2 * ((j + 1) % n) + 1], tn[2 * j], tn[2 * ((j + n - 1) % n) + 1], N(j, 2)>>,
                   <<2, 3, 0, I(j, 2)>>)
  IN Flip(c, tn, [m \in 0 .. 2 * n - 1 |-> IF m % 2 = 0 THEN Row(m \div 2) ELSE Row1(m \div 2)],
       [j \in 1 .. n |-> <<N(j - 1, 1), I(j - 1, 1), 2 * (j - 1), 1>>]
         \o [j \in 1 .. n |-> <<N(j - 1, 2), I(j - 1, 2), 2 * (j - 1) + 1, 3>>],
       FreeAfter(c, n))

-----------------------------------------------------------------------------
(* The flips that restore the empty circumspheres.  Two tetrahedra whose   *)
(* vertices at top0 and top1 face each other become three.                 *)
TwoToThreeRows(tn, v, n, i) ==
  From0(<<
    Tetrahedron(<<v[0], v[1], v[2], v[4]>>, <<tn[2], tn[1], n[5], n[4]>>, <<3, 3, i[5], i[4]>>),
    Tetrahedron(<<v[0], v[4], v[2], v[3]>>, <<tn[2], n[3], n[2], tn[0]>>, <<1, i[3], i[2], 1>>),
    Tetrahedron(<<v[4], v[1], v[2], v[3]>>, <<n[0], tn[1], n[1], tn[0]>>, <<i[0], 0, i[1], 0>>)>>)
TwoToThreeSwaps(n, i) ==
  << <<n[0], i[0], 2, 0>>, <<n[1], i[1], 2, 2>>, <<n[2], i[2], 1, 2>>,
     <<n[3], i[3], 1, 1>>, <<n[4], i[4], 0, 3>>, <<n[5], i[5], 0, 2>> >>
OrderedFace(top) ==
  LET tri == [k \in 1 .. 3 |-> (top + k) % 4]
  IN IF positive_permutation(tri[2], tri[3], top, tri[1])
     THEN tri ELSE [tri EXCEPT ![2] = tri[3], ![3] = tri[2]]
two_to_three_flip(c, t0, t1, top0, top1) ==
  LET a == c.tetrahedra[t0]
      b == c.tetrahedra[t1]
      ordered == OrderedFace(top0)
      trj == Indices(b, VerticesAt(a, ordered))
      v == From0(VerticesAt(a, <<ordered[2], ordered[3], top0, ordered[1]>>) \o <<b.v[top1]>>)
      n == From0(<<a.n[ordered[2]], b.n[trj[2]], b.n[trj[3]],
                   a.n[ordered[3]], a.n[ordered[1]], b.n[trj[1]]>>)
      i == From0(<<a.i[ordered[2]], b.i[trj[2]], b.i[trj[3]],
                   a.i[ordered[3]], a.i[ordered[1]], b.i[trj[1]]>>)
      tn == From0(<<t0, t1>> \o NewTetrahedra(c, 1))
  IN Flip(c, tn, TwoToThreeRows(tn, v, n, i), TwoToThreeSwaps(n, i), FreeAfter(c, 1))

(* The axis of the tetrahedra around it, in the first one: its two ends    *)
(* and the index of the vertex of the second one that is not on it.        *)
AxisOf(c, t0, t1, others) ==
  LET a == c.tetrahedra[t0]
      shared == Common(a, {c.tetrahedra[t] : t \in {t1} \cup others})
  IN <<shared[1], shared[2],
       CHOOSE k \in Slot : k \notin Range(shared) /\ a.v[k] \in Vertices(c.tetrahedra[t1])>>

(* Four around an axis, of which t1 and t2 are neighbours of t0 and t3,    *)
(* become four around another axis.                                        *)
FourToFourRows(tn, v, n, i) ==
  From0(<<
    Tetrahedron(<<v[0], v[3], v[5], v[2]>>, <<tn[1], n[7], n[3], tn[2]>>, <<0, i[7], i[3], 3>>),
    Tetrahedron(<<v[1], v[5], v[3], v[2]>>, <<tn[0], n[0], n[4], tn[3]>>, <<0, i[0], i[4], 3>>),
    Tetrahedron(<<v[0], v[5], v[3], v[4]>>, <<tn[3], n[2], n[6], tn[0]>>, <<0, i[2], i[6], 3>>),
    Tetrahedron(<<v[1], v[3], v[5], v[4]>>, <<tn[2], n[5], n[1], tn[1]>>, <<0, i[5], i[1], 3>>)>>)
FourToFourSwaps(n, i) ==
  << <<n[0], i[0], 1, 1>>, <<n[1], i[1], 3, 2>>, <<n[2], i[2], 2, 1>>, <<n[3], i[3], 0, 2>>,
     <<n[4], i[4], 1, 2>>, <<n[5], i[5], 3, 1>>, <<n[6], i[6], 2, 2>>, <<n[7], i[7], 0, 1>> >>
FourthOf(found) == 6 - found[1] - found[2] - found[3]
OrderedAxis(found) ==
  IF positive_permutation(found[1], found[2], FourthOf(found), found[3])
  THEN found ELSE Swap12(found)
four_to_four_flip(c, t0, t1, t2, t3) ==
  LET a == c.tetrahedra[t0]
      b == c.tetrahedra[t1]
      d == c.tetrahedra[t2]
      e == c.tetrahedra[t3]
      found == AxisOf(c, t0, t1, {t2, t3})
      rest == FourthOf(found)
      ax == OrderedAxis(found)
      ends == VerticesAt(a, <<ax[1], ax[2]>>)
      bx == Indices(b, ends)
      dx == Indices(d, ends)
      ex == Indices(e, ends)
      v == From0(VerticesAt(a, <<ax[1], ax[2], rest, ax[3]>>) \o <<b.v[a.i[rest]], d.v[a.i[ax[3]]]>>)
      n == From0(<<a.n[ax[1]], b.n[bx[1]], b.n[bx[2]], a.n[ax[2]],
                   d.n[dx[1]], e.n[ex[1]], e.n[ex[2]], d.n[dx[2]]>>)
      i == From0(<<a.i[ax[1]], b.i[bx[1]], b.i[bx[2]], a.i[ax[2]],
                   d.i[dx[1]], e.i[ex[1]], e.i[ex[2]], d.i[dx[2]]>>)
      tn == From0(<<t0, t1, t2, t3>>)
  IN Flip(c, tn, FourToFourRows(tn, v, n, i), FourToFourSwaps(n, i), c.free)

(* Three around an axis become two, and the slot of the third one is free. *)
ThreeToTwoRows(tn, v, n, i) ==
  From0(<<
    Tetrahedron(<<v[0], v[1], v[2], v[3]>>, <<n[0], n[3], tn[1], n[4]>>, <<i[0], i[3], 3, i[4]>>),
    Tetrahedron(<<v[0], v[1], v[3], v[4]>>, <<n[1], n[2], n[5], tn[0]>>, <<i[1], i[2], i[5], 2>>)>>)
ThreeToTwoSwaps(n, i) ==
  << <<n[0], i[0], 0, 0>>, <<n[1], i[1], 1, 0>>, <<n[2], i[2], 1, 1>>,
     <<n[3], i[3], 0, 1>>, <<n[4], i[4], 0, 3>>, <<n[5], i[5], 1, 2>> >>
three_to_two_flip(c, t0, t1, t2) ==
  LET a == c.tetrahedra[t0]
      b == c.tetrahedra[t1]
      d == c.tetrahedra[t2]
      found == AxisOf(c, t0, t1, {t2})
      rest == FourthOf(found)
      ax == IF positive_permutation(found[3], rest, found[1], found[2])
            THEN found ELSE Swap12(found)
      ends == VerticesAt(a, <<ax[1], ax[2]>>)
      bx == Indices(b, ends)
      dx == Indices(d, ends)
      v == From0(<<a.v[ax[3]], a.v[rest], a.v[ax[1]], b.v[a.i[rest]], a.v[ax[2]]>>)
      n == From0(<<d.n[dx[2]], d.n[dx[1]], b.n[bx[1]], b.n[bx[2]], a.n[ax[2]], a.n[ax[1]]>>)
      i == From0(<<d.i[dx[2]], d.i[dx[1]], b.i[bx[1]], b.i[bx[2]], a.i[ax[2]], a.i[ax[1]]>>)
      tn == From0(<<t0, t1>>)
      freed == [c EXCEPT !.tetrahedra[t2] = Inactive]
  IN Flip(freed, tn, ThreeToTwoRows(tn, v, n, i), ThreeToTwoSwaps(n, i), Append(c.free, t2))
=============================================================================
