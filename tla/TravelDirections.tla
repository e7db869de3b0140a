---------------------------- MODULE TravelDirections ----------------------------
(***************************************************************************)
(* The directions in which a photon packet enters or leaves a subgrid      *)
(* (TravelDirections.hpp) and the index computations of DensitySubGrid.hpp *)
(* that depend on them.  A direction is a number: 0 is inside, 1 to 8 are  *)
(* the corners, 9 to 20 the edges, 21 to 26 the faces.  The tables list    *)
(* the cases of the switch statements in this order.                       *)
(***************************************************************************)
EXTENDS Integers, Sequences, FiniteSets

Axis == 1 .. 3

Inside    == 0
Direction == 0 .. 26

(* The case label of get_output_direction that returns a direction: two    *)
(* bits per axis, for leaving above and below.                             *)
MaskOf == <<42, 41, 38, 37, 26, 25, 22, 21,
            10, 9, 6, 5,  34, 33, 18, 17,  40, 36, 24, 20,
            32, 16, 8, 4, 2, 1>>

(* The direction of a cell index that may be out of the subgrid. *)
OutputDirection(cells, p) ==
  LET Bits(a) == IF p[a] < 0 THEN 1 ELSE IF p[a] \div cells[a] > 0 THEN 2 ELSE 0
      mask    == 16 * Bits(1) + 4 * Bits(2) + Bits(3)
  IN  IF mask = 0 THEN Inside ELSE CHOOSE d \in DOMAIN MaskOf : MaskOf[d] = mask

(* output_to_input_direction *)
FaultSwappedEdges ==   \* Seeded fault: two edges keep their labels
  <<8, 7, 6, 5, 4, 3, 2, 1,
    12, 10, 11, 9,  16, 15, 14, 13,  20, 19, 18, 17,
    22, 21, 24, 23, 26, 25>>

InputOf == <<8, 7, 6, 5, 4, 3, 2, 1,
             12, 11, 10, 9,  16, 15, 14, 13,  20, 19, 18, 17,
             22, 21, 24, 23, 26, 25>>

OutputToInput(d) == IF d = Inside THEN Inside ELSE InputOf[d]

(* update_photon_position: per direction the coordinates that are set to   *)
(* the lower (-1) or the upper (1) side of the subgrid.                    *)
Moved == << <<1, 1, 1>>, <<1, 1, -1>>, <<1, -1, 1>>, <<1, -1, -1>>,
            <<-1, 1, 1>>, <<-1, 1, -1>>, <<-1, -1, 1>>, <<-1, -1, -1>>,
            <<0, 1, 1>>, <<0, 1, -1>>, <<0, -1, 1>>, <<0, -1, -1>>,
            <<1, 0, 1>>, <<1, 0, -1>>, <<-1, 0, 1>>, <<-1, 0, -1>>,
            <<1, 1, 0>>, <<1, -1, 0>>, <<-1, 1, 0>>, <<-1, -1, 0>>,
            <<1, 0, 0>>, <<-1, 0, 0>>, <<0, 1, 0>>, <<0, -1, 0>>,
            <<0, 0, 1>>, <<0, 0, -1>> >>

UpdatePosition(cells, d, p) ==
  IF d = Inside THEN p
  ELSE [a \in Axis |-> CASE Moved[d][a] = -1 -> 0
                         [] Moved[d][a] = 1  -> cells[a]
                         [] OTHER            -> p[a]]

(* get_x_index, get_y_index and get_z_index: the directions with the first *)
(* and with the last cell along an axis.                                   *)
Lower == << {5, 6, 7, 8, 15, 16, 19, 20, 22},
            {3, 4, 7, 8, 11, 12, 18, 20, 24},
            {2, 4, 6, 8, 10, 12, 14, 16, 26} >>

Upper == << {1, 2, 3, 4, 13, 14, 17, 18, 21},
            {1, 2, 5, 6, 9, 10, 17, 19, 23},
            {1, 3, 5, 7, 9, 11, 13, 15, 25} >>

(* get_start_index, for a position given by the cells it is in. *)
StartIndex(cells, d, p) ==
  [a \in Axis |-> CASE d \in Lower[a] -> 0
                    [] d \in Upper[a] -> cells[a] - 1
                    [] OTHER          -> p[a]]

IsInside(cells, p) == \A a \in Axis : p[a] \in 0 .. cells[a] - 1
=============================================================================
