-------------------------------- MODULE AMRGrid --------------------------------
(***************************************************************************)
(* The hierarchical grid of AMRGrid.hpp and AMRGridCell.hpp: a box of      *)
(* blocks, each of which is divided into eight cells, again and again.     *)
(*                                                                         *)
(* A cell is the block it is in and the children to take from there.  What *)
(* exists of a grid is given by its single cells, those without children:  *)
(* the others are the cells above these.  Coordinates are integers.        *)
(***************************************************************************)
EXTENDS Integers, SequencesExt, FiniteSetsExt

CONSTANTS
  MaxLevel,    \* bound: the deepest level of a cell
  Grain,       \* the side of a cell on this level
  None         \* nullptr, and AMRGRID_MAXKEY

(* A key has room for ten levels: the bit of the eleventh is shifted out   *)
(* of an int.                                                              *)
ASSUME LevelAssumption == MaxLevel \in 0 .. 10 /\ Grain \in Nat \ {0}

Axis == 1 .. 3
Direction == {-1, 1}      \* of AMRNgbPosition: left or right, front or back, bottom or top

Side == Grain * 2 ^ MaxLevel     \* of a block

(* A child number is 4 x + 2 y + z. *)
Bit(child, a) == (child \div 2 ^ (3 - a)) % 2
Flip(child, a) == child + (1 - 2 * Bit(child, a)) * 2 ^ (3 - a)
Number(bit) == 4 * bit[1] + 2 * bit[2] + bit[3]

Block(b) == [block |-> b, path |-> <<>>]
Child(c, i) == [c EXCEPT !.path = Append(@, i)]
Parent(c) == [c EXCEPT !.path = Front(@)]
Level(c) == Len(c.path)
Children(c) == {Child(c, i) : i \in 0 .. 7}

(* _box *)
CellSide(c) == Side \div 2 ^ Level(c)
Anchor(c) ==
  [a \in Axis |->
     LET from[k \in 0 .. Level(c)] ==
           IF k = 0 THEN c.block[a] * Side
           ELSE from[k - 1] + Bit(c.path[k], a) * (Side \div 2 ^ k)
     IN from[Level(c)]]
InClosedBox(p, c) ==
  LET low == Anchor(c) IN \A a \in Axis : p[a] \in low[a] .. low[a] + CellSide(c)

Blocks(n) == {<<x, y, z>> : x \in 0 .. n[1] - 1, y \in 0 .. n[2] - 1, z \in 0 .. n[3] - 1}

(* create_all_cells *)
CellsOnLevel(n, level) == {[block |-> b, path |-> p] : b \in Blocks(n), p \in [1 .. level -> 0 .. 7]}

(* Down from a cell to a single one, by a choice of a child at every cell. *)
Descend(c, single, Choice(_)) ==
  LET at[d \in 0 .. MaxLevel] ==
        IF d = 0 THEN c
        ELSE IF at[d - 1] \in single THEN at[d - 1]
             ELSE Child(at[d - 1], Choice(at[d - 1]))
  IN at[MaxLevel]

(* get_cell: the single cell of a position. *)
GetCell(p, single) ==
  LET half(c) == Number([a \in Axis |-> (2 * (p[a] - Anchor(c)[a])) \div CellSide(c)])
  IN Descend(Block([a \in Axis |-> p[a] \div Side]), single, half)

(* get_child of a position, which need not be in the cell, down to a single cell. *)
GetChild(c, p, single) ==
  LET beyond(d) == Number([a \in Axis |->
                     IF 2 * p[a] > 2 * Anchor(d)[a] + CellSide(d) THEN 1 ELSE 0])
  IN Descend(c, single, beyond)

-----------------------------------------------------------------------------
(* Keys: a block, and a number with three bits for every level, the        *)
(* deepest highest, and a last bit that ends them.                         *)
CellKey(c) ==
  LET part[k \in 0 .. Level(c)] ==
        IF k = Level(c) THEN 8 ^ k ELSE c.path[k + 1] * 8 ^ k + part[k + 1]
  IN part[0]
GetKey(p, single) ==
  LET c == GetCell(p, single) IN [block |-> c.block, cell |-> CellKey(c)]

(* operator[] *)
CellOf(key) ==
  LET levels == CHOOSE l \in 0 .. MaxLevel : key.cell \div 8 ^ l = 1
  IN [block |-> key.block,
      path |-> [k \in 1 .. levels |-> (key.cell \div 8 ^ (k - 1)) % 8]]

FirstKey(c, single) == LET zero(d) == 0 IN 8 ^ Level(Descend(c, single, zero))

(* get_next_key of a cell: from the deepest level upwards, the next child  *)
(* of the first cell that has one.                                         *)
FaultLastChild == 6      \* Seeded fault: the last child is left out
LastChild == 7

NextCellKey(block, key, single) ==
  LET leaf == CellOf([block |-> block, cell |-> key])
      next[l \in 0 .. Level(leaf)] ==
        IF l = Level(leaf) THEN None
        ELSE IF next[l + 1] # None THEN next[l + 1]
        ELSE LET i == (key \div 8 ^ l) % 8
                 above == [leaf EXCEPT !.path = SubSeq(@, 1, l)]
             IN IF i = LastChild THEN None
                ELSE FirstKey(Child(above, i + 1), single) + (key % (8 ^ l)) + (i + 1) * 8 ^ l
  IN next[0]

NextBlock(b, n) ==
  IF b[3] + 1 < n[3] THEN <<b[1], b[2], b[3] + 1>>
  ELSE IF b[2] + 1 < n[2] THEN <<b[1], b[2] + 1, 0>>
  ELSE IF b[1] + 1 < n[1] THEN <<b[1] + 1, 0, 0>>
  ELSE None

NextKey(key, single, n) ==
  LET inside == NextCellKey(key.block, key.cell, single)
      block  == NextBlock(key.block, n)
  IN IF inside # None THEN [key EXCEPT !.cell = inside]
     ELSE IF block = None THEN None
     ELSE [block |-> block, cell |-> FirstKey(Block(block), single)]

(* The cells in the order of the keys. *)
KeyOrder(single, n) ==
  LET key[i \in Nat] ==
        IF i = 1 THEN [block |-> <<0, 0, 0>>, cell |-> FirstKey(Block(<<0, 0, 0>>), single)]
        ELSE LET before == key[i - 1] IN IF before = None THEN None
                                         ELSE NextKey(before, single, n)
      count == CHOOSE i \in 1 .. 1 + Cardinality(single) :
                 key[i] # None /\ (i > Cardinality(single) \/ key[i + 1] = None)
  IN [i \in 1 .. count |-> CellOf(key[i])]

-----------------------------------------------------------------------------
(* set_ngbs: the neighbour of every cell on every side, on its own level   *)
(* or, where there is no such cell, the one that is there.                 *)
AllCells(single) ==
  UNION {{[c EXCEPT !.path = SubSeq(@, 1, k)] : k \in 0 .. Level(c)} : c \in single}

BlockNgb(b, a, s, n, periodic) ==
  LET i == b[a] + s
  IN IF i \in 0 .. n[a] - 1 THEN Block([b EXCEPT ![a] = i])
     ELSE IF periodic[a] THEN Block([b EXCEPT ![a] = i % n[a]])
     ELSE None

FaultAlwaysChild(c, i, single) ==     \* Seeded fault: a single cell has no child
  IF c = None THEN c ELSE Child(c, i)
GetChildSafe(c, i, single) == IF c = None \/ c \in single THEN c ELSE Child(c, i)

SetNgbs(single, n, periodic) ==
  LET ngb[c \in AllCells(single)] ==
        [a \in Axis |-> [s \in Direction |->
           IF Level(c) = 0 THEN BlockNgb(c.block, a, s, n, periodic)
           ELSE LET i == Last(c.path)
                IN IF (Bit(i, a) = 1) # (s = 1) THEN Child(Parent(c), Flip(i, a))
                   ELSE GetChildSafe(ngb[Parent(c)][a][s], Flip(i, a), single)]]
  IN ngb
=============================================================================
