--------------------------- MODULE MCNewVoronoiGrid ---------------------------
(***************************************************************************)
(* Small instances of NewVoronoiGrid, in a box of side 5.                  *)
(***************************************************************************)
EXTENDS NewVoronoiGrid

Grid(c) == {<<x, y, z>> : x \in c, y \in c, z \in c}

(* Three generators at right angles, and a fourth one in their plane, on   *)
(* a sphere with them and a wall, or in general position.                  *)
Fourth == {From0(<< <<1, 1, 1>>, <<3, 1, 1>>, <<1, 3, 1>>, p >>) :
             p \in {<<3, 3, 1>>, <<1, 1, 3>>, <<4, 3, 2>>}}

(* A regular lattice, and a layout in which one generator is too far away  *)
(* from another one to be looked at.                                       *)
Lattice == << <<1, 1, 1>>, <<3, 1, 1>>, <<1, 3, 1>>, <<3, 3, 1>>,
              <<1, 1, 3>>, <<3, 1, 3>>, <<1, 3, 3>>, <<3, 3, 3>> >>
FarOne == << <<1, 1, 1>>, <<2, 1, 1>>, <<1, 2, 1>>, <<1, 1, 2>>, <<4, 4, 4>> >>

BuiltLayouts == Fourth \cup {From0(Lattice), From0(FarOne)}

(* Sixteen generators are in 3 x 3 x 3 blocks. *)
SearchedLayouts == {
  From0(Lattice \o << <<4, 4, 4>>, <<4, 1, 1>>, <<1, 4, 1>>, <<1, 1, 4>>,
                      <<4, 4, 1>>, <<4, 1, 4>>, <<1, 4, 4>>, <<2, 2, 2>> >>),
  From0([k \in 1 .. 16 |-> <<1 + (k % 2), 1 + ((k \div 2) % 2), 1 + ((k \div 4) % 4)>>])}
SomeQueries == Grid({0, 2, 4})

TwoWorkers == {1, 2}
=============================================================================
