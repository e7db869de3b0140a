-------------------------- MODULE IonizationSimulation --------------------------
(***************************************************************************)
(* The older program (IonizationSimulation.cpp): a density grid that is    *)
(* made, refined (AMRDensityGrid.hpp) and reset, and the iterations that   *)
(* shoot packets of photons through it.  Threads take jobs of packets from *)
(* a market (IonizationPhotonShootJobMarket.hpp) and follow every packet   *)
(* from wall to wall until it is absorbed or leaves the box; then the      *)
(* state of the cells is calculated.                                       *)
(*                                                                         *)
(* Whether a cell is refined, where a packet is absorbed and whether it is *)
(* reemitted are choices.  One process; indices start at 0.                *)
(***************************************************************************)
EXTENDS GridWalk

CONSTANTS
  Scenarios,    \* the grids and the runs to look at
  Thread        \* the threads, numbers from 1

VARIABLES
  scenario,     \* the one that is looked at, fixed
  value,        \* _values: the index of every single cell
  cells,        \* _cells: the cells in the order of their indices
  ngbs,         \* _ngbs
  stack,        \* refine_cell: [cell, child], the calls that are under way
  index,        \* the cell that is looked at next
  limit,        \* the number of cells when the refinement started
  resets,       \* _reset_count
  block,        \* the number of cells of the block of this process
  loop,         \* loop
  phase,        \* where the main thread is
  calculated,   \* the cells whose state was calculated in this iteration
  numphoton,    \* _numphoton of the market
  thread,       \* what every thread does
  shot          \* the packets that ended in this iteration, at most TooMany

gridVars == <<value, cells, ngbs, stack, index, limit, resets>>
vars == <<scenario, gridVars, block, loop, phase, calculated, numphoton, thread, shot>>

Single == DOMAIN value
Worker == 1 .. scenario.threads
TooMany == scenario.photons + 1

-----------------------------------------------------------------------------
(* The grid.  The blocks of the AMR grid: the number of cells on every     *)
(* axis divided by the largest power of two that divides them all.         *)
PowerOfTwo(n) == Max({k \in 0 .. MaxLevel : \A a \in Axis : n[a] % 2 ^ k = 0})

StartLevel(s) == IF s.grid = "amr" THEN PowerOfTwo(s.ncell) ELSE 0
BlockNumber(s) == [a \in Axis |-> s.ncell[a] \div 2 ^ StartLevel(s)]

Idle == [at |-> "idle"]

(* The constructor: the cells in the order of their keys.  (The Cartesian  *)
(* grid computes the same order.)                                          *)
Init ==
  /\ scenario \in Scenarios
  /\ LET n == BlockNumber(scenario)
         order == KeyOrder(CellsOnLevel(n, StartLevel(scenario)), n)
     IN /\ cells = order
        /\ value = [c \in ToSet(order) |-> CHOOSE i \in 0 .. Len(order) - 1 : order[i + 1] = c]
        /\ block = Len(order)
  /\ ngbs = <<>>
  /\ stack = <<>>
  /\ index = 0
  /\ limit = 0
  /\ resets = 0
  /\ loop = 0
  /\ phase = "initialize"
  /\ calculated = {}
  /\ numphoton = 0
  /\ thread = [t \in Thread |-> Idle]
  /\ shot = 0

Initialize ==
  /\ phase = "initialize"
  /\ phase' = IF scenario.grid = "amr" THEN (IF scenario.refine THEN "refine" ELSE "connect")
              ELSE "loop"
  /\ limit' = Len(cells)
  /\ index' = 0
  /\ UNCHANGED <<scenario, value, cells, ngbs, stack, resets, block, loop,
                 calculated, numphoton, thread, shot>>

(* The loop over the cells that are there when the refinement starts.      *)
Call(i, cell) == [index |-> i, cell |-> cell, child |-> None]

RefineNext ==
  /\ phase = "refine"
  /\ stack = <<>>
  /\ IF index < limit
     THEN stack' = <<Call(index, cells[index + 1])>> /\ index' = index + 1 /\ UNCHANGED phase
     ELSE phase' = "connect" /\ UNCHANGED <<stack, index>>
  /\ UNCHANGED <<scenario, value, cells, ngbs, limit, resets, block, loop,
                 calculated, numphoton, thread, shot>>

(* refine_cell: the scheme is asked about a cell. *)
Top == Last(stack)
Asked == phase = "refine" /\ stack # <<>> /\ Top.child = None

KeepCell ==
  /\ Asked
  /\ stack' = Front(stack)
  /\ UNCHANGED <<scenario, value, cells, ngbs, index, limit, resets, block, loop,
                 phase, calculated, numphoton, thread, shot>>

(* create_all_cells: the children get a value each, to be set one by one. *)
SplitCell ==
  /\ Asked
  /\ Level(Top.cell) < MaxLevel /\ Len(cells) + 7 <= scenario.room
  /\ stack' = Append(Front(stack), [Top EXCEPT !.child = 0])
  /\ value' = [c \in (Single \ {Top.cell}) \cup Children(Top.cell) |->
                 IF c \in Single THEN value[c] ELSE 0]
  /\ UNCHANGED <<scenario, cells, ngbs, index, limit, resets, block, loop,
                 phase, calculated, numphoton, thread, shot>>

(* A child: the first one takes the place of the cell in the list, the     *)
(* others are added to it.  The child is looked at before its next sibling *)
(* gets its place.                                                         *)
AddChild ==
  /\ phase = "refine" /\ stack # <<>> /\ Top.child # None
  /\ IF Top.child = 8
     THEN stack' = Front(stack) /\ UNCHANGED <<value, cells>>
     ELSE LET child == Child(Top.cell, Top.child)
              place == IF Top.child = 0 THEN Top.index ELSE Len(cells)
          IN /\ stack' = Append([stack EXCEPT ![Len(stack)].child = @ + 1],
                                Call(place, child))
             /\ value' = [value EXCEPT ![child] = place]
             /\ cells' = IF Top.child = 0 THEN [cells EXCEPT ![place + 1] = child]
                         ELSE Append(cells, child)
  /\ UNCHANGED <<scenario, ngbs, index, limit, resets, block, loop,
                 phase, calculated, numphoton, thread, shot>>

(* The end of initialize, or of reset_grid: the neighbours are set.  After *)
(* initialize the run starts, for which the block is taken anew.           *)
Connect ==
  /\ phase = "connect"
  /\ ngbs' = SetNgbs(Single, BlockNumber(scenario), scenario.periodic)
  /\ IF resets = 0
     THEN block' = Len(cells) /\ phase' = "loop"
     ELSE phase' = "shoot" /\ UNCHANGED block
  /\ UNCHANGED <<scenario, value, cells, stack, index, limit, resets, loop,
                 calculated, numphoton, thread, shot>>

-----------------------------------------------------------------------------
(* The iterations: reset_grid, which refines the grid from some iteration  *)
(* on, and set_numphoton.                                                  *)
ResetGrid ==
  /\ phase = "loop"
  /\ loop < scenario.loops
  /\ resets' = resets + 1
  /\ phase' = IF scenario.grid = "amr" /\ scenario.refine /\ resets + 1 >= scenario.interval
              THEN "refine" ELSE "shoot"
  /\ limit' = Len(cells)
  /\ index' = 0
  /\ numphoton' = scenario.photons
  /\ shot' = 0
  /\ calculated' = {}
  /\ UNCHANGED <<scenario, value, cells, ngbs, stack, block, loop, thread>>

(* get_job: the number of packets that are left is read without the lock,  *)
(* and what is taken is limited with it.                                   *)
mainVars == <<scenario, gridVars, block, loop, phase, calculated>>

JobSize(t) ==
  /\ phase = "shoot"
  /\ t \in Worker
  /\ thread[t].at = "idle"
  /\ thread' = [thread EXCEPT ![t] =
       [at |-> "take", size |-> Max({numphoton \div (10 * scenario.threads), scenario.jobsize})]]
  /\ UNCHANGED <<mainVars, numphoton, shot>>

FaultLimit(size) == IF size > numphoton THEN 0 ELSE size   \* Seeded fault: no job for the rest

JobLimit(size) == Min({size, numphoton})

TakeJob(t) ==
  /\ thread[t].at = "take"
  /\ LET size == JobLimit(thread[t].size)
     IN /\ numphoton' = numphoton - size
        /\ thread' = [thread EXCEPT ![t] =
             IF size > 0 THEN [at |-> "emit", left |-> size] ELSE [at |-> "done"]]
  /\ UNCHANGED <<mainVars, shot>>

(* interact: the cell of the position, and then the steps of the packet.   *)
(* The Cartesian grid wraps a position on the upper side of the box, which *)
(* for the AMR grid is outside.                                            *)
FirstCell(p) ==
  IF scenario.grid = "amr" THEN [position |-> p, next |-> GetCell(p, Single)]
  ELSE IsInside([a \in Axis |-> p[a] \div Side], p, scenario.ncell, scenario.periodic)

Interact(left, p, d, turns) ==
  LET first == FirstCell(p)
  IN [at |-> "walk", left |-> left, position |-> first.position, direction |-> d,
      turns |-> turns, cell |-> first.next, last |-> None]

Emit(t) ==
  /\ thread[t].at = "emit"
  /\ \E p \in scenario.starts, d \in scenario.flights :
       thread' = [thread EXCEPT ![t] = Interact(thread[t].left, p, d, 0)]
  /\ UNCHANGED <<mainVars, numphoton, shot>>

StepOf(w) ==
  IF scenario.grid = "amr"
  THEN AMRStep(w.cell, w.position, w.direction, ngbs, Single, BlockNumber(scenario),
               scenario.periodic)
  ELSE CartesianStep(w.cell, w.position, w.direction, scenario.ncell, scenario.periodic)

(* The packet crosses the cell, and may be out of the box then: the result *)
(* is end(), None.  Its optical depth may be used up exactly at the wall:  *)
(* the walk ends too, with the position on the other side and the cell     *)
(* before the wall as the last one.                                        *)
Cross(t) ==
  LET w == thread[t]
      s == StepOf(w)
  IN /\ w.at = "walk"
     /\ \E at \in IF s.next = None THEN {"stopped"} ELSE {"walk", "stopped"} :
          thread' = [thread EXCEPT ![t] =
            [w EXCEPT !.position = s.position,
                      !.cell = s.next,
                      !.last = IF s.next = None THEN None ELSE w.cell,
                      !.at = at]]
     /\ UNCHANGED <<mainVars, numphoton, shot>>

(* It is absorbed in the cell.  The AMR grid has gone on to the next cell  *)
(* by then, and returns end() if there is none.                            *)
Inner(w, wall) ==
  {q \in {Along(w.position, w.direction, l) : l \in 1 .. Side} :
     /\ \A a \in Axis : q[a] % 2 = 0
     /\ \E a \in Axis : w.direction[a] # 0 /\ Sign(wall[a] - q[a]) = Sign(w.direction[a])}

Absorb(t) ==
  LET w == thread[t]
      s == StepOf(w)
  IN /\ w.at = "walk"
     /\ \E q \in Inner(w, s.wall) :
          thread' = [thread EXCEPT ![t] =
            [w EXCEPT !.position = q,
                      !.cell = IF scenario.grid = "amr" THEN s.next ELSE w.cell,
                      !.last = IF scenario.grid = "amr" /\ s.next = None THEN None ELSE w.cell,
                      !.at = "stopped"]]
     /\ UNCHANGED <<mainVars, numphoton, shot>>

(* The packet is reemitted, or counted.  (get_cell of the AMR grid reads   *)
(* past the array of blocks for a position on the upper side of the box,   *)
(* where a packet may stop exactly: what comes then is not modelled.)      *)
HasBlock(p) ==
  scenario.grid = "amr" => \A a \in Axis : p[a] < BlockNumber(scenario)[a] * Side

Reemit(t) ==
  LET w == thread[t]
  IN /\ w.at = "stopped"
     /\ w.last # None
     /\ w.turns < scenario.turns
     /\ HasBlock(w.position)
     /\ \E d \in scenario.flights :
          thread' = [thread EXCEPT ![t] = Interact(w.left, w.position, d, w.turns + 1)]
     /\ UNCHANGED <<mainVars, numphoton, shot>>

Count(t) ==
  LET w == thread[t]
  IN /\ w.at = "stopped"
     /\ thread' = [thread EXCEPT ![t] =
          IF w.left > 1 THEN [at |-> "emit", left |-> w.left - 1] ELSE Idle]
     /\ shot' = Min({shot + 1, TooMany})
     /\ UNCHANGED <<mainVars, numphoton>>

(* calculate_temperature for the block of this process, at the end of the  *)
(* parallel region.                                                        *)
Calculate ==
  /\ phase = "shoot"
  /\ \A t \in Worker : thread[t].at = "done"
  /\ calculated' = {cells[i] : i \in 1 .. block}
  /\ thread' = [t \in Thread |-> Idle]
  /\ loop' = loop + 1
  /\ phase' = "loop"
  /\ UNCHANGED <<scenario, gridVars, block, numphoton, shot>>

End ==
  /\ phase = "loop"
  /\ loop = scenario.loops
  /\ UNCHANGED vars

Next ==
  \/ Initialize \/ RefineNext \/ KeepCell \/ SplitCell \/ AddChild \/ Connect
  \/ ResetGrid \/ Calculate \/ End
  \/ \E t \in Thread : JobSize(t) \/ TakeJob(t) \/ Emit(t) \/ Cross(t) \/ Absorb(t)
                       \/ Reemit(t) \/ Count(t)

Spec == Init /\ [][Next]_vars

(* Every thread goes on; the scheme is asked about every cell. *)
FairSpec ==
  /\ Spec
  /\ WF_vars(Initialize \/ RefineNext \/ KeepCell \/ SplitCell \/ AddChild \/ Connect
             \/ ResetGrid \/ Calculate)
  /\ \A t \in Thread : WF_vars(JobSize(t) \/ TakeJob(t) \/ Emit(t) \/ Cross(t)
                               \/ Absorb(t) \/ Reemit(t) \/ Count(t))

-----------------------------------------------------------------------------
(* Between the iterations the grid is complete: the list holds every       *)
(* single cell at its index, the keys lead through all of them once, and   *)
(* position, key and cell agree.                                           *)
Middle(c) == [a \in Axis |-> Anchor(c)[a] + CellSide(c) \div 2]

TreeExact ==
  phase = "loop" =>
    /\ Len(cells) = Cardinality(Single)
    /\ \A i \in 1 .. Len(cells) : cells[i] \in Single /\ value[cells[i]] = i - 1
    /\ LET order == KeyOrder(Single, BlockNumber(scenario))
       IN Len(order) = Len(cells) /\ ToSet(order) = Single
    /\ \A c \in Single : GetCell(Middle(c), Single) = c /\ CellOf(GetKey(Middle(c), Single)) = c

(* The neighbour of a cell: the smallest cell, of its own size or larger,  *)
(* at the other side of the wall, also across a periodic boundary.         *)
NeighboursExact ==
  phase = "loop" /\ scenario.grid = "amr" =>
    \A c \in Single, a \in Axis, s \in Direction :
      LET n == BlockNumber(scenario)
          there == [Middle(c) EXCEPT ![a] = @ + s * CellSide(c)]
          inside == there[a] \in 0 .. n[a] * Side - 1
          wrapped == [there EXCEPT ![a] = @ % (n[a] * Side)]
          around == {d \in AllCells(Single) : InClosedBox(wrapped, d) /\ Level(d) <= Level(c)}
      IN ngbs[c][a][s] =
           IF ~ inside /\ ~ scenario.periodic[a] THEN None
           ELSE CHOOSE d \in around : \A e \in around : Level(e) <= Level(d)

(* A packet that walks is in the cell whose matter it passes through, and  *)
(* one that was absorbed in its last cell (or, if its optical depth was    *)
(* used up at a periodic boundary, was there before its position was       *)
(* moved by a length of the box).                                          *)
InAnImage(p, c) ==
  \A a \in Axis : \E k \in IF scenario.periodic[a] THEN {-1, 0, 1} ELSE {0} :
    p[a] + k * BlockNumber(scenario)[a] * Side \in Anchor(c)[a] .. Anchor(c)[a] + CellSide(c)

InItsCell(t) ==
  /\ thread[t].at = "walk" =>
       thread[t].cell \in Single /\ InClosedBox(thread[t].position, thread[t].cell)
  /\ thread[t].at = "stopped" /\ thread[t].last # None =>
       InAnImage(thread[t].position, thread[t].last)

(* The next wall of a packet is a periodic boundary of an AMR grid, with   *)
(* divided cells behind it.                                                *)
EntersDivided(t) ==
  LET w == thread[t]
      a == WallAxis(ToWall(w.cell, w.position, w.direction))
      ngb == ngbs[w.cell][a][Sign(w.direction[a])]
  IN /\ scenario.grid = "amr"
     /\ ngb \notin Single \cup {None}
     /\ StepOf(w).wall[a] \in {0, BlockNumber(scenario)[a] * Side}

(* Whatever a packet does, it comes to be in the cell it is said to be in: *)
(* through walls, edges and corners, between cells of different levels,    *)
(* over a periodic boundary, after an absorption and a reemission.  There  *)
(* is one exception, in which the code is wrong (see PacketsInside): a     *)
(* packet that goes over a periodic boundary to divided cells, or did so   *)
(* and is not back in its cell yet.                                        *)
PathExact ==
  [][\A t \in Worker :
       InItsCell(t)' \/ (thread[t].at = "walk" /\ (EntersDivided(t) \/ ~ InItsCell(t)))]_vars

(* The run ends, with all packets of an iteration shot, and none twice: no *)
(* packet walks forever, no thread asks for jobs forever, and the threads  *)
(* that share the packets neither lose one nor shoot one too many.  There  *)
(* is one exception, where the code is wrong: on a periodic axis of an AMR *)
(* grid with one undivided cell, which is its own neighbour, the position  *)
(* is not corrected, and a packet may stay at the wall forever.            *)
MeetsItself ==
  \E t \in Worker : /\ thread[t].at = "walk" /\ scenario.grid = "amr"
                    /\ \E a \in Axis, s \in Direction : ngbs[thread[t].cell][a][s] = thread[t].cell

RunEnds ==
  \/ <>[](phase = "loop" /\ loop = scenario.loops /\ shot = scenario.photons)
  \/ <>MeetsItself

-----------------------------------------------------------------------------
(* Statements of the comments, which TLC finds violated (see README).      *)
(* get_wall_intersection is to "find the child cell containing the new     *)
(* position": it finds the one that contains the old position, before the  *)
(* correction at a periodic boundary.                                      *)
PacketsInside == \A t \in Worker : InItsCell(t)

(* AMRDensityGrid::interact returns "the cell the photon was last in, or   *)
(* DensityGrid::end() if the photon left the box".                         *)
LastCellRight ==
  \A t \in Worker : thread[t].at = "stopped" /\ thread[t].last = None =>
    \E a \in Axis : thread[t].position[a] \in {0, BlockNumber(scenario)[a] * Side}

(* TemperatureCalculator "calculates the temperature for every cell of a   *)
(* grid after the photon shoot loop".                                      *)
EveryCellCalculated ==
  phase = "loop" /\ loop > 0 => ToSet(cells) = calculated
=============================================================================
