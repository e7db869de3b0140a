------------------------- MODULE MCIonizationSimulation -------------------------
(* Scenarios for IonizationSimulation.  Blocks have sides of 16; a cell of *)
(* the deepest level has a side of 4.                                      *)
EXTENDS IonizationSimulation

Open == <<FALSE, FALSE, FALSE>>

AllFlights == [Axis -> {-1, 0, 1}] \ {<<0, 0, 0>>}
SomeFlights ==
  {<<1, 0, 0>>, <<0, -1, 0>>, <<1, 1, 0>>, <<-1, 2, 0>>, <<1, -1, 1>>, <<-2, -1, 1>>}

Run(grid, ncell, periodic, room) ==
  [grid |-> grid, ncell |-> ncell, periodic |-> periodic, refine |-> room > 0, room |-> room,
   interval |-> 1, loops |-> 1, threads |-> 1, photons |-> 1, jobsize |-> 1, turns |-> 0,
   starts |-> {<<8, 8, 8>>, <<2, 6, 10>>}, flights |-> SomeFlights]

(* One block, refined when it is made and once more in the second          *)
(* iteration.  The packets start at the centre of the box and elsewhere.   *)
Tree == [Run("amr", <<1, 1, 1>>, Open, 22) EXCEPT !.interval = 2, !.loops = 2]

(* Several blocks, with one or eight cells each; with reemission. *)
Row == [Run("amr", <<3, 1, 2>>, Open, 13) EXCEPT !.starts = {<<20, 8, 16>>}, !.turns = 1]
Pair == [Run("amr", <<2, 4, 2>>, Open, 30) EXCEPT !.starts = {<<8, 16, 8>>},
                                                  !.flights = SomeFlights \ {<<1, 0, 0>>}]

(* Periodic boundaries, without a refinement. *)
Ring == [Run("amr", <<2, 3, 1>>, <<TRUE, TRUE, FALSE>>, 0) EXCEPT
           !.flights = {f \in AllFlights : f[3] # 0}, !.starts = {<<8, 20, 8>>}]

(* The Cartesian grid, with reemission. *)
Cartesian == [Run("cartesian", <<2, 1, 2>>, <<TRUE, FALSE, FALSE>>, 0) EXCEPT
                !.flights = {f \in AllFlights : f[2] # 0 \/ f[3] # 0}, !.turns = 1]

(* Refined cells at periodic boundaries, one or two blocks wide. *)
RingFlights == {<<1, 0, 1>>, <<0, -1, 1>>, <<1, 1, 1>>, <<-2, -1, 1>>}
RefinedRing == [Run("amr", <<2, 2, 2>>, <<TRUE, TRUE, FALSE>>, 22) EXCEPT
                  !.starts = {<<8, 8, 8>>}, !.flights = RingFlights]
WideRing == [RefinedRing EXCEPT !.ncell = <<2, 4, 2>>, !.room = 23]

(* One undivided cell that is its own neighbour. *)
OneCellRing == [Run("amr", <<1, 1, 1>>, <<TRUE, FALSE, FALSE>>, 0) EXCEPT
                  !.flights = AllFlights]

(* Two threads that share jobs and a rest; and one with jobs that become   *)
(* smaller.                                                                *)
Jobs == [Run("cartesian", <<1, 1, 1>>, Open, 0) EXCEPT !.threads = 2, !.photons = 10,
           !.jobsize = 3, !.starts = {<<8, 8, 8>>}, !.flights = {<<1, 0, 0>>}]
ManyJobs == [Jobs EXCEPT !.threads = 1, !.photons = 23, !.jobsize = 1]

AllScenarios == {Tree, Row, Pair, Ring, Cartesian, RefinedRing, WideRing, OneCellRing,
                 Jobs, ManyJobs}

(* What the comments say and the code does not do. *)
LastCells == {Run("amr", <<1, 1, 1>>, Open, 0)}
NewCells == {Run("amr", <<1, 1, 1>>, Open, 8)}
EnterRefined == {RefinedRing}
=============================================================================
