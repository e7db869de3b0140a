---------------------------- MODULE PhotonIterations ----------------------------
(***************************************************************************)
(* The photon iterations of the task-based simulations around the copies   *)
(* of subgrids: the hierarchy of copies is made (and remade when the       *)
(* sources move), the packets are divided over the copies of the subgrids  *)
(* of the sources, cross cells and subgrids, the counters of the copies    *)
(* are added to their originals, the state of the originals is computed    *)
(* from them, and the copies are updated                                   *)
(* (TaskBasedRadiationHydrodynamicsSimulation.cpp, program "rhd";          *)
(* TaskBasedIonizationSimulation.cpp, program "ion";                       *)
(* DistributedPhotonSource.hpp, TrackerManager.hpp, and the cell loop      *)
(* DensitySubGrid::interact).                                              *)
(*                                                                         *)
(* The tasks, buffers and locks that move packets between threads are in   *)
(* PhotonPropagation; here a packet moves by itself.  The intensity        *)
(* counters of the cells of a subgrid are one number, the cells crossed.   *)
(***************************************************************************)
EXTENDS SubGridCopies

CONSTANTS
  Scenarios,   \* program, grid, and inputs: see Init
  Packet,      \* the packets: at most 1 .. Cardinality(Packet)
  Flights      \* signs of the components of the flight directions

ASSUME PacketAssumption ==
  /\ Cardinality(Packet) \in Nat /\ Packet = 1 .. Cardinality(Packet)
  /\ Flights # {} /\ \A f \in Flights : \A a \in Axis : f[a] \in -1 .. 1

ASSUME ScenarioAssumption ==
  \A s \in Scenarios :
    /\ s.program \in {"rhd", "ion"}
    /\ IsGrid(s.grid)
    /\ s.level \in Nat /\ s.packets \in Nat /\ s.batch \in Nat
    /\ s.flights \subseteq Flights
    /\ \A d \in s.distributions :
         /\ d # <<>> /\ d \in Seq([at : [Axis -> Nat], number : Nat])
         /\ \A k \in DOMAIN d, a \in Axis : d[k].at[a] < s.grid.n[a] * s.grid.cells[a]

VARIABLES
  scenario,    \* the scenario, fixed
  phase,       \* what the simulation does
  loop,        \* iloop
  steps,       \* number of radiation steps
  levels,      \* the copy levels of the last update
  copies,      \* _copies
  originals,   \* _originals
  ngb,         \* _ngbs of every subgrid
  intensity,   \* mean intensity counters of every subgrid
  state,       \* ionic fractions of every subgrid: the computation they are from
  distribution,  \* the sources: [at, number]
  source,      \* DistributedPhotonSource: [subgrid, cell, total, done]
  cursor,      \* isrc
  tasks,       \* the source tasks: [source, number]
  packet,      \* the packets
  tracker,     \* values of the tracker and its duplicates
  attached,    \* the tracker of the tracked cell in every subgrid, 0 for none
  crossed      \* history: cells crossed in the subgrids of the box

tables  == <<levels, copies, originals, ngb>>
sources == <<distribution, source, cursor, tasks>>
tracked == <<tracker, attached>>
vars    == <<scenario, phase, loop, steps, tables, intensity, state, sources,
             packet, tracked, crossed>>

grid == scenario.grid

Subgrid == DOMAIN ngb

Copies(i) == CopiesOf(grid, copies, originals, i)

(* The position of a cell of a subgrid in the box, and back. *)
Base(s) ==
  LET i == IF s < Count(grid) THEN s ELSE originals[s - Count(grid) + 1]
  IN  [a \in Axis |-> GridPosition(grid, i)[a] * grid.cells[a]]

CellOf(c) == [a \in Axis |-> c[a] % grid.cells[a]]

SubgridAt(c) == GridIndex(grid, [a \in Axis |-> c[a] \div grid.cells[a]])

Idle == [status |-> "idle", subgrid |-> 0, cell |-> <<0, 0, 0>>,
         flight |-> CHOOSE f \in Flights : TRUE, turns |-> 0, seen |-> 0]

(* A scenario is a program, a grid, the level of the subgrids of sources,  *)
(* the distributions the sources may have, the batch size, whether packets *)
(* are reemitted, and the cell of a tracker or <<>>.  A distribution lists *)
(* the cell of every source and its number of packets, rounded down.       *)
(* "packets" and "loops" are the numbers of packets and iterations; its    *)
(* bounds are the flight directions, the turns of a packet ("reach") and   *)
(* the number of radiation steps ("steps").                                *)
Init ==
  /\ scenario \in Scenarios
  /\ phase = "sources"
  /\ loop = 0
  /\ steps = 0
  /\ levels = [i \in Original(grid) |-> 0]
  /\ copies = [i \in Original(grid) |-> NoCopies]
  /\ originals = <<>>
  /\ ngb = [i \in Original(grid) |-> NeighboursOf(grid, i)]
  /\ intensity = [i \in Original(grid) |-> 0]
  /\ state = [i \in Original(grid) |-> 0]
  /\ distribution = <<>>
  /\ source = <<>>
  /\ cursor = 1
  /\ tasks = <<>>
  /\ packet = [p \in Packet |-> Idle]
  /\ tracker = <<0>>
  /\ attached = [i \in Original(grid) |-> 0]
  /\ crossed = [i \in Original(grid) |-> 0]

-----------------------------------------------------------------------------
(* DistributedPhotonSource: every source is divided over the subgrid it is *)
(* in and its copies; the first ones get the remainder.  The packets that  *)
(* are lost in the rounding of the weights go, one by one, to the first    *)
(* part of a random source that did not get a remainder.                   *)
Part(src) ==
  LET i == SubgridAt(src.at) IN
  [j \in 1 .. Cardinality(Copies(i)) + 1 |-> IF j = 1 THEN i ELSE copies[i] + j - 2]

Share(n, parts, j) == (n \div parts) + (IF j <= n % parts THEN 1 ELSE 0)

PartsOf(src) ==
  LET part == Part(src) IN
  [j \in DOMAIN part |->
     [subgrid |-> part[j], cell |-> CellOf(src.at),
      total |-> Share(src.number, Len(part), j), done |-> 0]]

MakeSource ==
  LET parts == FlattenSeq([k \in DOMAIN distribution |-> PartsOf(distribution[k])])
      Size(k) == Len(Part(distribution[k]))
      Before(k) == FoldLeft(LAMBDA sum, h : sum + Size(h), 0, [h \in 1 .. k - 1 |-> h])
      overhead == [k \in DOMAIN distribution |->
                     Before(k) + (distribution[k].number % Size(k)) + 1]
      number == [k \in DOMAIN distribution |-> distribution[k].number]
      lost == 1 .. scenario.packets - MapThenSumSet(LAMBDA k : number[k], DOMAIN number)
  IN  \E who \in [lost -> DOMAIN distribution] :
        source' = [j \in DOMAIN parts |->
                     [parts[j] EXCEPT !.total =
                        @ + Cardinality({h \in lost : overhead[who[h]] = j})]]

(* The sources appear or move: update_copies for the subgrids they are in  *)
(* (create_copies in "ion", once).  New copies have the properties and     *)
(* counters of their originals.                                            *)
OfOriginal(f) ==
  [s \in DOMAIN ngb' |->
     f[IF s < Count(grid) THEN s ELSE originals'[s - Count(grid) + 1]]]

UpdateSources ==
  /\ phase = "sources"
  /\ steps < (IF scenario.program = "ion" THEN 1 ELSE scenario.steps)
  /\ distribution' \in scenario.distributions
  /\ LET at == {SubgridAt(distribution'[k].at) : k \in DOMAIN distribution'} IN
       levels' = Restricted(grid, [i \in Original(grid) |->
                                     IF i \in at THEN scenario.level ELSE 0])
  /\ copies' = Offsets(grid, levels', copies)
  /\ originals' = OriginalsOf(grid, levels')
  /\ ngb' = CopyNeighbours(grid, levels', copies', ngb)
  /\ intensity' = OfOriginal(intensity)
  /\ state' = OfOriginal(state)
  /\ attached' = [s \in DOMAIN ngb' |-> 0]
  /\ phase' = "hydro"
  /\ steps' = steps + 1
  /\ UNCHANGED <<scenario, loop, source, cursor, tasks, packet, tracker, crossed>>

(* A radiation step in which they do not move. *)
KeepSources ==
  /\ phase = "sources"
  /\ scenario.program = "rhd"
  /\ steps \in 1 .. scenario.steps - 1
  /\ phase' = "hydro"
  /\ steps' = steps + 1
  /\ UNCHANGED <<scenario, loop, tables, intensity, state, sources, packet, tracked,
                 crossed>>

(* The ionization variables of the originals are updated from the hydro    *)
(* variables ("rhd"), and the source is divided over the copies.           *)
NewSource ==
  /\ phase = "hydro"
  /\ MakeSource
  /\ cursor' = 1
  /\ loop' = 0
  /\ state' = IF scenario.program = "ion" THEN state
              ELSE [s \in Subgrid |-> IF s < Count(grid) THEN state[s] + 1 ELSE state[s]]
  /\ phase' = "reset"
  /\ UNCHANGED <<scenario, steps, tables, intensity, distribution, tasks, packet, tracked,
                 crossed>>

(* update_copy_properties: the copies get the fractions of their original, *)
(* and their counters are reset.                                           *)
OriginalFor(s) == CHOOSE i \in Original(grid) : s \in Copies(i)

IsCopy(s) == \E i \in Original(grid) : s \in Copies(i)

FaultNoSync == state   \* Seeded fault: the copies are not updated

UpdatedState ==
  [s \in Subgrid |-> IF IsCopy(s) THEN state[OriginalFor(s)] ELSE state[s]]

UpdatedIntensity == [s \in Subgrid |-> IF IsCopy(s) THEN 0 ELSE intensity[s]]

(* The start of an iteration: all counters are reset, in "ion" the         *)
(* trackers are added in the last iteration, and the source is reset.      *)
(* In "rhd" the copies are updated here.                                   *)
LastLoop == loop = scenario.loops - 1

AddTrackers ==
  IF scenario.tracked # <<>> /\ LastLoop
  THEN LET i == SubgridAt(scenario.tracked) IN
       /\ attached' = [s \in Subgrid |-> IF s \in {i} \cup Copies(i) THEN 1 ELSE 0]
       /\ tracker' = [j \in 1 .. Cardinality(Copies(i)) + 1 |-> 0]
  ELSE UNCHANGED tracked

StartIteration ==
  /\ phase = "reset"
  /\ loop < scenario.loops
  /\ intensity' = [s \in Subgrid |-> 0]
  /\ crossed' = [i \in Original(grid) |-> 0]
  /\ state' = IF scenario.program = "rhd" THEN UpdatedState ELSE state
  /\ source' = [j \in DOMAIN source |-> [source[j] EXCEPT !.done = 0]]
  /\ packet' = [p \in Packet |-> Idle]
  /\ AddTrackers
  /\ phase' = "batches"
  /\ cursor' = 1
  /\ UNCHANGED <<scenario, loop, steps, tables, distribution, tasks>>

(* get_photon_batch, for one source after the other until all packets have *)
(* a task.                                                                 *)

BatchSize(j) ==
  IF source[j].total - source[j].done < scenario.batch
  THEN source[j].total - source[j].done
  ELSE scenario.batch

Assigned == FoldLeft(LAMBDA sum, t : sum + t.number, 0, tasks)

GetPhotonBatch ==
  /\ phase = "batches"
  /\ Assigned < scenario.packets
  /\ LET n == BatchSize(cursor) IN
       /\ source' = [source EXCEPT ![cursor].done = @ + n]
       /\ tasks' = IF n > 0 THEN Append(tasks, [source |-> cursor, number |-> n]) ELSE tasks
  /\ cursor' = (cursor % Len(source)) + 1
  /\ UNCHANGED <<scenario, phase, loop, steps, tables, intensity, state, distribution, packet,
                 tracked, crossed>>

StartTransport ==
  /\ phase = "batches"
  /\ Assigned >= scenario.packets
  /\ phase' = "transport"
  /\ UNCHANGED <<scenario, loop, steps, tables, intensity, state, sources, packet,
                 tracked, crossed>>

-----------------------------------------------------------------------------
(* A source task makes its packets at the position of the source, in       *)
(* random directions.                                                      *)
Launch ==
  /\ phase = "transport"
  /\ \E t \in DOMAIN tasks :
       LET src   == source[tasks[t].source]
           first == Cardinality({p \in Packet : packet[p].status # "idle"})
           made  == first + 1 .. first + tasks[t].number
       IN  /\ \E f \in [made -> scenario.flights] :
                packet' = [p \in Packet |->
                  IF p \in made
                  THEN [status |-> "inside", subgrid |-> src.subgrid,
                        cell |-> StartIndex(grid.cells, Inside, src.cell),
                        flight |-> f[p], turns |-> 0, seen |-> 0]
                  ELSE packet[p]]
           /\ tasks' = RemoveAt(tasks, t)
  /\ UNCHANGED <<scenario, phase, loop, steps, tables, intensity, state, distribution,
                 source, cursor, tracked, crossed>>

(* One turn of the loop over the cells in interact: the packet ends in     *)
(* this cell, or crosses the faces at the least distance, several of them  *)
(* at an edge or a corner.  The intensity counters are updated in both     *)
(* cases.                                                                  *)
HasTracker(q) == attached[q.subgrid] # 0 /\ q.cell = CellOf(scenario.tracked)

NextStatus(q, status) ==
  IF ~ HasTracker(q) THEN status
  ELSE IF status = "ended" THEN "ended counted" ELSE "inside counted"

Counting(q) == q.status \in {"inside counted", "ended counted"}

Crossings(q) ==
  {[q EXCEPT !.status = "ended"]}
  \cup {[q EXCEPT !.cell = [a \in Axis |-> IF a \in S THEN q.cell[a] + q.flight[a]
                                           ELSE q.cell[a]],
                  !.turns = @ + 1] :
        S \in SUBSET {a \in Axis : q.flight[a] # 0} \ {{}}}

Cross(p) ==
  LET q == packet[p] IN
  /\ q.status = "inside"
  /\ IsInside(grid.cells, q.cell)
  /\ \A r \in Packet : Counting(packet[r]) => packet[r].subgrid # q.subgrid
  /\ \E n \in Crossings(q) :
       /\ q.turns = scenario.reach => n.status = "ended"
       /\ packet' = [packet EXCEPT ![p] =
                       [n EXCEPT !.status = NextStatus(q, @),
                                 !.seen = IF HasTracker(q) THEN tracker[attached[q.subgrid]] ELSE 0]]
  /\ intensity' = [intensity EXCEPT ![q.subgrid] = @ + 1]
  /\ crossed' = [crossed EXCEPT ![SubgridAt([a \in Axis |-> Base(q.subgrid)[a] + q.cell[a]])] = @ + 1]
  /\ UNCHANGED <<scenario, phase, loop, steps, tables, state, sources, tracked>>

(* Tracker::count_photon adds to a plain number, which it read before: the *)
(* thread has the lock of the subgrid it works on, and no other.           *)
CountPhoton(p) ==
  LET q == packet[p] IN
  /\ Counting(q)
  /\ tracker' = [tracker EXCEPT ![attached[q.subgrid]] = q.seen + 1]
  /\ packet' = [packet EXCEPT ![p].status =
                  IF @ = "ended counted" THEN "ended" ELSE "inside"]
  /\ UNCHANGED <<scenario, phase, loop, steps, tables, intensity, state, sources,
                 attached, crossed>>

(* The packet leaves the subgrid: it goes on in the neighbour in that      *)
(* direction, or leaves the box.                                           *)
Leave(p) ==
  LET q == packet[p]
      d == OutputDirection(grid.cells, q.cell)
      n == ngb[q.subgrid][d]
  IN
  /\ q.status = "inside"
  /\ ~ IsInside(grid.cells, q.cell)
  /\ packet' = [packet EXCEPT ![p] =
       IF n = Outside THEN [q EXCEPT !.status = "escaped"]
       ELSE LET relative == [a \in Axis |-> Base(q.subgrid)[a] + q.cell[a] - Base(n)[a]]
                e == OutputToInput(d)
            IN  [q EXCEPT !.subgrid = n,
                          !.cell = StartIndex(grid.cells, e,
                                     UpdatePosition(grid.cells, e, relative))]]
  /\ UNCHANGED <<scenario, phase, loop, steps, tables, intensity, state, sources,
                 tracked, crossed>>

(* A packet that reached its optical depth is done, or is reemitted in a   *)
(* new direction.                                                          *)
Absorb(p) ==
  /\ packet[p].status = "ended"
  /\ packet' = [packet EXCEPT ![p].status = "absorbed"]
  /\ UNCHANGED <<scenario, phase, loop, steps, tables, intensity, state, sources,
                 tracked, crossed>>

Reemit(p) ==
  /\ scenario.reemit
  /\ packet[p].status = "ended"
  /\ packet[p].turns < scenario.reach
  /\ \E f \in scenario.flights :
       packet' = [packet EXCEPT ![p].status = "inside", ![p].flight = f,
                                ![p].cell = StartIndex(grid.cells, Inside, @),
                                ![p].turns = @ + 1]
  /\ UNCHANGED <<scenario, phase, loop, steps, tables, intensity, state, sources,
                 tracked, crossed>>

-----------------------------------------------------------------------------
(* update_original_counters, when all packets are done. *)
SumOver(i) == MapThenSumSet(LAMBDA s : intensity[s], Copies(i))

UpdateOriginalCounters ==
  /\ phase = "transport"
  /\ tasks = <<>>
  /\ \A p \in Packet : packet[p].status \in {"idle", "absorbed", "escaped"}
  /\ intensity' = [s \in Subgrid |->
                     IF s < Count(grid) THEN intensity[s] + SumOver(s) ELSE intensity[s]]
  /\ phase' = "temperature"
  /\ UNCHANGED <<scenario, loop, steps, tables, state, sources, packet, tracked, crossed>>

(* The new state of the originals; then, in "ion", the trackers are merged *)
(* (after the last iteration) and the copies updated.                      *)
Merged == FoldLeft(LAMBDA sum, v : sum + v, 0, tracker)

CalculateTemperature ==
  /\ phase = "temperature"
  /\ state' = [s \in Subgrid |-> IF s < Count(grid) THEN state[s] + 1 ELSE state[s]]
  /\ phase' = IF scenario.program = "ion" THEN "copies" ELSE "next"
  /\ UNCHANGED <<scenario, loop, steps, tables, intensity, sources, packet, tracked,
                 crossed>>

UpdateCopyProperties ==
  /\ phase = "copies"
  /\ state' = UpdatedState
  /\ intensity' = UpdatedIntensity
  /\ tracker' = IF scenario.tracked # <<>> /\ LastLoop
                THEN [tracker EXCEPT ![1] = Merged] ELSE tracker
  /\ phase' = "next"
  /\ UNCHANGED <<scenario, loop, steps, tables, sources, packet, attached, crossed>>

NextLoop ==
  /\ phase = "next"
  /\ loop' = loop + 1
  /\ phase' = IF loop + 1 < scenario.loops THEN "reset" ELSE "sources"
  /\ UNCHANGED <<scenario, steps, tables, intensity, state, sources, packet, tracked,
                 crossed>>

(* The simulation ends. *)
End ==
  /\ phase = "sources"
  /\ steps = (IF scenario.program = "ion" THEN 1 ELSE scenario.steps)
  /\ UNCHANGED vars

Next ==
  \/ UpdateSources \/ KeepSources \/ NewSource
  \/ StartIteration \/ GetPhotonBatch \/ StartTransport
  \/ Launch
  \/ \E p \in Packet : Cross(p) \/ CountPhoton(p) \/ Leave(p) \/ Absorb(p) \/ Reemit(p)
  \/ UpdateOriginalCounters \/ CalculateTemperature \/ UpdateCopyProperties \/ NextLoop
  \/ End

Spec == Init /\ [][Next]_vars

-----------------------------------------------------------------------------
Family(i) == {i} \cup {s \in Subgrid : s >= Count(grid) /\ originals[s - Count(grid) + 1] = i}

(* The loops that start at the offset of a subgrid                         *)
(* (update_original_counters, update_copy_properties, get_copies) visit    *)
(* all its copies and no others, also for a subgrid that lost its copies   *)
(* and whose offset is stale.                                              *)
OffsetsExact ==
  \A i \in Original(grid) :
    /\ {i} \cup Copies(i) = Family(i)
    /\ Cardinality(Family(i)) = Pow2[levels[i]]

(* The neighbour of a copy is a copy, or the original, of the neighbour of *)
(* its original, for all 26 directions and any two levels; a copy is its   *)
(* own neighbour inside (create_copies).                                   *)
CopiesLinked ==
  \A i \in Original(grid) : \A s \in Family(i) \ {i} :
    /\ ngb[s][Inside] = s
    /\ \A d \in Direction \ {Inside} :
         IF ngb[i][d] = Outside THEN ngb[s][d] = Outside
         ELSE ngb[s][d] \in Family(ngb[i][d])

(* However the levels change between radiation steps, the offsets, the     *)
(* list of originals and the neighbours describe the same copies.          *)
FamiliesExact == OffsetsExact /\ CopiesLinked

(* While packets travel every copy has the ionic fractions of its          *)
(* original: the opacity a packet sees does not depend on the copy it is   *)
(* in (update_copy_properties).                                            *)
CopiesFresh ==
  phase = "transport" =>
    \A i \in Original(grid) : \A s \in Family(i) : state[s] = state[i]

(* When the temperature is computed the counters of an original are the    *)
(* cells that packets crossed in its part of the box in this iteration, in *)
(* whichever copy, each once (update_original_counters, reset_intensities).*)
CountersExact ==
  phase = "temperature" => \A i \in Original(grid) : intensity[i] = crossed[i]

(* After the trackers were normalised, the tracker has counted every       *)
(* packet that passed its cell ("This function also merges copies made by  *)
(* add_trackers", TrackerManager.hpp): here all cells are tracked ones.    *)
TrackerExact ==
  scenario.tracked # <<>> /\ phase = "next" /\ LastLoop =>
    tracker[1] = crossed[SubgridAt(scenario.tracked)]

(* The packets walk through the cells of the box as if it were not         *)
(* divided: changing the subgrid or the copy is not a step (the tables of  *)
(* create_subgrid and create_copies, TravelDirections.hpp, get_start_index *)
(* and update_photon_position).                                            *)
WalkBox == [size |-> [a \in Axis |-> grid.n[a] * grid.cells[a]], periodic |-> grid.periodic]

Place(q) ==
  CASE q.status = "idle" -> <<>>
    [] q.status = "absorbed" -> <<0>>
    [] q.status = "escaped" -> <<1>>
    [] OTHER -> [a \in Axis |->
                   LET c == Base(q.subgrid)[a] + q.cell[a]
                   IN  IF grid.periodic[a] THEN c % WalkBox.size[a] ELSE c]

Walk == INSTANCE PacketWalk WITH
  box <- WalkBox,
  place <- [p \in Packet |-> Place(packet[p])],
  flight <- [p \in Packet |-> packet[p].flight],
  turns <- [p \in Packet |-> packet[p].turns]

ImplementsWalk == Walk!Spec
=============================================================================
