-------------------------- MODULE MCPhotonPropagation --------------------------
(* Sources and sizes for PhotonPropagation. *)
EXTENDS PhotonPropagation, TLC

NoBatches == {}

(* A full batch in the first subgrid and a small one in the last. *)
TwoBatches == {[id |-> 1, grid |-> 1, n |-> 2], [id |-> 2, grid |-> NGrid, n |-> 1]}

(* Batches of the continuous source for two blocks. *)
TwoBlocks == {[id |-> 1, block |-> NGrid + 1, n |-> 2], [id |-> 2, block |-> NGrid + 2, n |-> 1]}

(* The threads are interchangeable. *)
Symmetry == Permutations(Thread)
=============================================================================
