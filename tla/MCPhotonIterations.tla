--------------------------- MODULE MCPhotonIterations ---------------------------
(* Scenarios for PhotonIterations. *)
EXTENDS PhotonIterations

AllFlights == Sides \ {<<0, 0, 0>>}

(* Boxes of subgrids in three dimensions with all kinds of boundaries, and *)
(* a single subgrid between two periodic ones; one packet on any path.     *)
Box(n, periodic, cells, at) ==
  [program |-> "rhd", level |-> 2, batch |-> 1, reemit |-> FALSE, tracked |-> <<>>,
   grid |-> [n |-> n, periodic |-> periodic, cells |-> cells],
   distributions |-> {<<[at |-> at, number |-> 1]>>},
   packets |-> 1, flights |-> AllFlights, reach |-> 4, loops |-> 1, steps |-> 1]

Boxes ==
  {Box(<<2, 2, 2>>, <<TRUE, FALSE, FALSE>>, <<2, 1, 1>>, <<1, 0, 1>>),
   Box(<<2, 3, 2>>, <<FALSE, TRUE, FALSE>>, <<1, 1, 2>>, <<0, 2, 1>>),
   Box(<<3, 2, 1>>, <<FALSE, FALSE, TRUE>>, <<1, 2, 2>>, <<1, 1, 1>>)}

(* A chain of subgrids; sources move from step to step between one and two *)
(* subgrids, so that copies come and go.                                   *)
Chain ==
  [program |-> "rhd", level |-> 2, batch |-> 1, reemit |-> FALSE, tracked |-> <<>>,
   grid |-> [n |-> <<4, 1, 1>>, periodic |-> <<FALSE, FALSE, FALSE>>, cells |-> <<1, 1, 1>>],
   distributions |-> {<<[at |-> <<0, 0, 0>>, number |-> 2]>>,
                      <<[at |-> <<3, 0, 0>>, number |-> 2]>>,
                      <<[at |-> <<1, 0, 0>>, number |-> 0], [at |-> <<0, 0, 0>>, number |-> 1]>>},
   packets |-> 2, flights |-> {<<1, 0, 0>>, <<-1, 0, 0>>}, reach |-> 1, loops |-> 1, steps |-> 3]

(* The ionization program with two iterations, reemission and a tracker in *)
(* a subgrid with a copy.                                                  *)
Tracked ==
  [program |-> "ion", level |-> 1, batch |-> 2, reemit |-> TRUE, tracked |-> <<0, 0, 0>>,
   grid |-> [n |-> <<2, 1, 1>>, periodic |-> <<TRUE, FALSE, FALSE>>, cells |-> <<1, 1, 1>>],
   distributions |-> {<<[at |-> <<0, 0, 0>>, number |-> 3]>>},
   packets |-> 3, flights |-> {<<1, 0, 0>>}, reach |-> 1, loops |-> 2, steps |-> 1]

AllScenarios == Boxes \cup {Chain, Tracked}

OnlyTracked == {Tracked}
=============================================================================
