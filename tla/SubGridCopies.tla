----------------------------- MODULE SubGridCopies -----------------------------
(***************************************************************************)
(* The subgrids of a distributed grid and their copies: the tables of      *)
(* DensitySubGridCreator.hpp as functions of the layout and of the copy    *)
(* levels.  A subgrid that many packets visit is copied; the copies share  *)
(* its position, and packets move from copy to copy.                       *)
(*                                                                         *)
(* A grid is [n, periodic, cells]: numbers of subgrids and of cells per    *)
(* subgrid along the axes, and the periodicity of the box.                 *)
(***************************************************************************)
EXTENDS TravelDirections, SequencesExt

Outside  == -1   \* NEIGHBOUR_OUTSIDE
NoCopies == -1   \* 0xffffffff in _copies

IsGrid(g) ==
  /\ g.n \in [Axis -> Nat \ {0}]
  /\ g.cells \in [Axis -> Nat \ {0}]
  /\ g.periodic \in [Axis -> BOOLEAN]

Original(g) == 0 .. g.n[1] * g.n[2] * g.n[3] - 1

Count(g) == g.n[1] * g.n[2] * g.n[3]

GridPosition(g, i) ==
  << i \div (g.n[2] * g.n[3]), (i \div g.n[3]) % g.n[2], i % g.n[3] >>

GridIndex(g, p) == p[1] * g.n[2] * g.n[3] + p[2] * g.n[3] + p[3]

(* The position next to p, over the boundary of the box if it is periodic. *)
Shifted(g, p, side) ==
  [a \in Axis |-> LET c == p[a] + side[a]
                  IN  IF ~ g.periodic[a] THEN c
                      ELSE IF c < 0 THEN g.n[a] - 1 ELSE IF c >= g.n[a] THEN 0 ELSE c]

OfGrid(g, p) == \A a \in Axis : p[a] \in 0 .. g.n[a] - 1

(* create_subgrid: the neighbours in all directions.  The direction of a   *)
(* neighbour is the one of a cell index that is a whole subgrid away.      *)
Sides == {<<x, y, z>> : x \in -1 .. 1, y \in -1 .. 1, z \in -1 .. 1}

NeighboursOf(g, i) ==
  LET Dir(s) == OutputDirection(g.cells, [a \in Axis |-> s[a] * g.cells[a]])
  IN  [d \in Direction |->
         LET s == CHOOSE t \in Sides : Dir(t) = d
             p == Shifted(g, GridPosition(g, i), s)
         IN  IF OfGrid(g, p) THEN GridIndex(g, p) ELSE Outside]

(* get_neighbours: over the faces. *)
FaceNeighbours(g, i) ==
  LET p == GridPosition(g, i)
      faces == {s \in Sides : Cardinality({a \in Axis : s[a] # 0}) = 1}
  IN  {GridIndex(g, q) : q \in {r \in {Shifted(g, p, s) : s \in faces} : OfGrid(g, r)}}

-----------------------------------------------------------------------------
(* "Impose copy restrictions": levels of neighbours over a face differ by  *)
(* at most one.                                                            *)
RaiseNeighbours(g, levels, i) ==
  [j \in Original(g) |->
     IF j \in FaceNeighbours(g, i) /\ levels[j] < levels[i] - 1
     THEN levels[i] - 1
     ELSE levels[j]]

Restricted(g, levels) ==
  LET top == CHOOSE m \in {levels[i] : i \in Original(g)} :
               \A i \in Original(g) : levels[i] <= m
      after[j \in 0 .. top * Count(g)] ==
        IF j = 0 THEN levels
        ELSE LET acc == after[j - 1]
                 i   == (j - 1) % Count(g)
             IN  IF acc[i] = top - ((j - 1) \div Count(g))
                 THEN RaiseNeighbours(g, acc, i) ELSE acc
  IN  after[top * Count(g)]

(* The first loop of create_copies: every original with a level has its    *)
(* copies in one block.  An offset that was set before stays.              *)
Pow2[k \in Nat] == IF k = 0 THEN 1 ELSE 2 * Pow2[k - 1]   \* 1 << k

Copied(levels, i) == Pow2[levels[i]] - 1

CopiedBefore(g, levels) ==
  LET before[i \in 0 .. Count(g)] ==
        IF i = 0 THEN 0 ELSE before[i - 1] + Copied(levels, i - 1)
  IN  before

Offsets(g, levels, old) ==
  [i \in Original(g) |->
     IF levels[i] > 0 THEN Count(g) + CopiedBefore(g, levels)[i] ELSE old[i]]

OriginalsOf(g, levels) ==
  FlattenSeq([j \in 1 .. Count(g) |-> [k \in 1 .. Copied(levels, j - 1) |-> j - 1]])

(* The second loop: the neighbour of copy k of subgrid i, whose own        *)
(* neighbour in that direction is "ngb".                                   *)
FaultEqualLevels(levels, copies, i, k, ngb) ==   \* Seeded fault: the levels are taken as equal
  IF ngb = Outside THEN Outside ELSE copies[ngb] + k - 1

CopyNeighbour(levels, copies, i, k, ngb) ==
  IF ngb = Outside THEN Outside
  ELSE IF levels[ngb] = levels[i] THEN copies[ngb] + k - 1
  ELSE IF levels[i] > levels[ngb]
  THEN LET shared == k \div Pow2[levels[i] - levels[ngb]]
       IN  IF shared > 0 THEN copies[ngb] + shared - 1 ELSE ngb
  ELSE copies[ngb] + (k - 1) * Pow2[levels[ngb] - levels[i]]

CopyNeighbours(g, levels, copies, own) ==
  [s \in 0 .. Count(g) + Len(OriginalsOf(g, levels)) - 1 |->
     IF s < Count(g) THEN own[s]
     ELSE LET i == OriginalsOf(g, levels)[s - Count(g) + 1]
              k == s - copies[i] + 1
          IN  [d \in Direction |->
                 IF d = Inside THEN s ELSE CopyNeighbour(levels, copies, i, k, own[i][d])]]

(* get_copies, and the loops of update_original_counters and               *)
(* update_copy_properties: from the offset of a subgrid on, as long as the *)
(* original is this subgrid.                                               *)
FaultAllFromOffset(g, copies, originals, i) ==   \* Seeded fault: the original is not compared
  IF copies[i] = NoCopies THEN {} ELSE copies[i] .. Count(g) + Len(originals) - 1

CopiesOf(g, copies, originals, i) ==
  IF copies[i] = NoCopies THEN {}
  ELSE {s \in copies[i] .. Count(g) + Len(originals) - 1 :
          \A t \in copies[i] .. s : originals[t - Count(g) + 1] = i}
=============================================================================
