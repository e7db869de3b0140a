# A TLA+ project for CMacIonize

CMacIonize is a Monte Carlo photoionization and radiation hydrodynamics code.
Its task-based algorithms split the simulation box into subgrids and let the
threads of one process execute small tasks on them. The numerics inside a task
are sequential floating-point code; what holds a simulation together is the
concurrent machinery around them: a lock-free pool of tasks and buffers, queues
with work stealing, locks of subgrids, a graph of hydrodynamics tasks, and the
exchange of buffers of photon packets that has to notice by itself when it is
finished. This project models that machinery; the tables it walks through (the
neighbours and copies of subgrids, travel directions, sweeps over cells); the
construction of an unstructured grid, which is combinatorial once its geometric
tests are exact; the hierarchical grid of the older program and the walk of
packets through it; and the two sequential parts a long run stands or falls
with: the integer time line and the restart files.

Paths below are relative to `src/src/`. `RHD` is
`TaskBasedRadiationHydrodynamicsSimulation.cpp`, `TBIS` is
`TaskBasedIonizationSimulation.cpp`, `NVCC` is `NewVoronoiCellConstructor.cpp`.

## 1. The system

### Components, their state and operations

| component | state | operations | module |
|---|---|---|---|
| task and buffer pool (`ThreadSafeVector`, used for `Task` and, through `MemorySpace`, for `PhotonBuffer`) | `_locks`, `_current_index`, `_number_taken` | `get_free_element(_safe)`, `free_element`, `clear`, `clear_fast`, `clear_after`, `get_free_elements` | `ThreadSafeVector` |
| tasks, queues, stealing (`Task`, `TaskQueue`, `ThreadLock`, `steal_task`, the hydro loop of RHD) | queues and their locks, `_number_of_unfinished_parents`, owning thread of each subgrid, `number_of_tasks` | `add_task`, `get_task`, `try_get_task`, `lock_dependency`, `unlock_dependency`, `decrement_number_of_unfinished_parents` | `TaskScheduler`, `TaskPool` |
| hydrodynamics task graph (`make_hydro_tasks`, `set_dependencies`, `reset_hydro_tasks`) | children, parents, dependencies of 18 tasks per subgrid | make once, reset every step, execute | `HydroTasks`, `HydroStep`, `HydroScheduler` |
| photon packet propagation (task contexts, `Scheduler`, `MemorySpace`, active buffers of `DensitySubGrid`) | buffers, active and largest buffer of each subgrid, continuous source buffers, `num_photon_done`, `global_run_flag` | discrete and continuous emission, flush, traversal, reemission, premature launch, termination test | `PhotonPropagation` |
| restart files (`RestartManager`) | `restart.dump`, `restart.<i>.back`, counters of the process | `get_restart_writer`, `get_restart_reader` | `RestartManager` |
| time line (`TimeLine`) and simulation loop | integer current time, step bounds, pending step | constructor, `advance`, dump, restart | `TimeLine` |
| sweeps over cells (`HydroDensitySubGrid`) | arrays of the cells of a subgrid | inner, outer and ghost sweeps for gradients and fluxes | `HydroSweeps` |
| subgrid copies (`DensitySubGridCreator`) | `_subgrids`, `_originals`, `_copies`, neighbours, counters and ionic fractions of the copies | `create_subgrid`, `create_copies`, `update_copies`, `get_copies`, `update_original_counters`, `update_copy_properties` | `SubGridCopies`, `PhotonIterations` |
| walk of a packet (`DensitySubGrid::interact`, `TravelDirections`) | position, direction, subgrid | start in a subgrid, cross a cell, leave, enter the neighbour | `TravelDirections`, `PhotonIterations`, `PacketWalk` |
| distributed photon source (`DistributedPhotonSource`) | packets and batches per source and copy | constructor, `get_photon_batch`, `reset` | `PhotonIterations` |
| trackers (`TrackerManager`, `SpectrumTracker`) | trackers and their duplicates | `add_trackers`, `count_photon`, `normalize` | `PhotonIterations` (one tracker) |
| Voronoi grid (`NewVoronoiGrid`, its job market, `NewVoronoiCellConstructor`, `PointLocations`) | generators, cells, next index of the market; tetrahedra of a cell; blocks of generators | `get_job`, `compute_cell`, `intersect`, `find_tetrahedron`, the flips, `check_tetrahedron`, `get_cell`, `get_closest_neighbour` | `NewVoronoiGrid`, `VoronoiFlips`, `VoronoiGeometry`, `PointLocations` |
| AMR grid (`AMRGrid`, `AMRGridCell`, `AMRDensityGrid`) | tree of cells, list of single cells, neighbours | constructor, keys, `refine_cell`, `set_ngbs`, `initialize`, `reset_grid` | `AMRGrid`, `IonizationSimulation` |
| walk of a packet through the AMR and the Cartesian grid | position, cell | `get_wall_intersection`, `is_inside`, `interact` | `GridWalk`, `IonizationSimulation` |
| older program (`IonizationSimulation`, its job market, `Worker`) | `_numphoton` under `Lock`, `block`, `loop` | `initialize`, `run`, `get_job`, `execute` | `IonizationSimulation` |
| other legacy job markets (`*JobMarket`) | job counters under `Lock` | `get_job`, `execute` | not modelled |
| live output, old Voronoi grids, hydro solver, ionization physics, gravity, MPI wrappers, I/O | floating-point data, files | | not modelled |

How they interact: the loop over time steps asks the time line for a step, runs
one photon iteration after the other, then one pass over the hydro tasks, then
maybe writes a restart dump. Tasks and buffers are elements of thread safe
vectors. A hydro task names the locks of the subgrids it writes; finishing it
decrements the counters of its children and puts those that get to zero into
the queue of the thread that owns their subgrid. A photon task reads a buffer,
adds packets to the active buffers of its subgrid, turns full buffers into new
tasks, and adds to the number of packets that are done; threads without a task
turn the largest partly filled buffers into tasks; and the threads leave the
loop when the pool of buffers is empty and all packets are done.

Around that loop, the creator of the subgrids copies those that many packets
will visit (the subgrids of the sources), the distributed source divides its
packets over a subgrid and its copies, packets move among the copies of
neighbouring subgrids, and after the iteration the counters of the copies are
added to their originals, whose new state goes back to the copies. The Voronoi
grid is made before a simulation starts, by threads that share a job market only.
The older program has one grid for all threads: it refines it between the
iterations, the threads take numbers of packets from a market, and a range of
cells is calculated at the end of an iteration.

### What is hard, and what makes each component correct

* **Pool.** Claiming a flag and counting it are two atomic operations, so the
  counter lags; an element must never go to two clients; `is_empty` must never
  overlook one (the photon loop stops on it); a failure must mean that the pool
  is full.
* **Scheduler.** Two locks per task, taken with try-lock while a queue is locked;
  sizes of queues that are read without locks; ownership that changes after a
  theft; `number_of_tasks` that counts a child only after it became available.
  Every task must be executed exactly once and after its parents, no thread
  may leave a task behind for good, and nobody may wait forever.
* **Hydro graph.** The number of parents of a task is written by hand in
  `reset_hydro_tasks`, the edges in `set_dependencies`; both depend on the
  neighbours of a subgrid. They must agree, and order all phases that touch a
  common subgrid.
* **Photon propagation.** Packets must be conserved through overflowing buffers,
  a buffer must have one holder, the flush must happen once, the termination
  test reads two variables one after the other, and at the end of an iteration
  progress depends on premature launches only.
* **Copies and source.** Offsets of subgrids that lost their copies stay in the
  table; levels of neighbours differ; remainders of divisions have to add up.
  Every loop over copies must visit exactly the copies there are, neighbours must
  be at the right place, the packets handed out must be those the loop waits for,
  and no counter may be lost or added twice.
* **Walk of a packet.** 27 directions, translated by five switch statements. A walk
  through subgrids and copies must be a walk through one undivided box.
* **Sweeps.** Start indices and strides per direction. Every interface of the box is
  visited once by the tasks of a graph.
* **Voronoi grid.** Flips with hand-written tables of vertices, neighbours and
  indices; degenerate positions; an early stop by radius; an unlocked test in the
  job market. The tetrahedra must fit together after every flip and be Delaunay
  at the end, a cell must be exact although most generators are never looked at,
  and every cell must be made once.
* **AMR grid and older program.** Keys are numbers whose bits are a path; a cell
  that is refined is replaced in a list while the list grows; neighbours are on
  the same level or above. Position, key, list and neighbours must agree
  after any refinement, a packet must be in the cell it is said to be in when it goes
  through edges, corners and periodic boundaries, and threads that read the number of
  packets without a lock must shoot exactly those.
* **Restart files and time line.** Crashes between the steps of a dump; unsigned
  arithmetic; steps that must fit the time that is left; a step that was
  computed before a dump and is executed after it.

The list of hazards, each at its line and with the properties that cover it, is
in `PROJECT.json`.

## 2. Modules

```
ThreadSafeVector  <- MCThreadSafeVector, ThreadSafeVector_proofs
TaskPool          <- TaskScheduler (refinement)
TaskScheduler     <- TaskScheduler_proofs
TaskScheduler, HydroTasks  <- HydroScheduler <- MCHydroScheduler
HydroTasks        <- HydroStep <- HydroStep_proofs, HydroSweeps <- MCHydroStep
PhotonPropagation <- MCPhotonPropagation, PhotonPropagation_proofs
TravelDirections  <- SubGridCopies <- PhotonIterations <- MCPhotonIterations, PhotonIterations_proofs
PacketWalk        <- PhotonIterations (refinement)
PointLocations    <- VoronoiGeometry
VoronoiGeometry, VoronoiFlips <- NewVoronoiGrid <- MCNewVoronoiGrid, NewVoronoiGrid_proofs
AMRGrid <- GridWalk <- IonizationSimulation <- MCIonizationSimulation
RestartManager    <- MCRestartManager, RestartManager_proofs
TimeLine          <- MCTimeLine, TimeLine_proofs
```

**ThreadSafeVector.** One action per atomic access: `DrawIndex` is the
`post_increment` of `_current_index`, `ClaimSucceeds`/`ClaimFails` the
compare-and-swap of a flag, `CountElement` the increment of `_number_taken`,
`ReleaseElement` and `UncountElement` the two halves of `free_element`. The
index wraps at `IndexWidth`, which stands for 2^64. The clients are the most
general legal ones: any thread may call, and any element that was handed out is
given back at most once. The operations that are not thread safe are actions
that need all threads outside the vector, as in the code between the parallel
regions; `ClearAfter` keeps the assumption its comment states. The assertion of
`get_free_element` is compiled out by default and is not a guard.

**TaskScheduler.** The hydro loop of RHD (2085-2121), for any graph of tasks with up
to two dependencies and up to seven children. One action is one access to
shared memory: lock a queue, try a lock, give it back, remove a task and unlock
the queue, read one queue size, change an owner, stop, unlock, decrement a
counter of parents, read the owner of a child's subgrid (`ChooseQueue`, without a
lock: it may change before the queue is had), lock and push the child, count. The sort of the queue sizes
is not stable: `TryQueue` takes any largest queue that was not tried.
**TaskPool** is what it promises: a pool in which a task begins when its parents
are finished and no running task shares a lock with it. The refinement mapping
(`Pool` in `TaskScheduler`) lets a task begin when its last lock is taken and
end when it is stopped.

**HydroTasks** has the graph as functions of a layout: which of the 18 slots are
tasks, their locks (`Dependencies`), their edges in the order of `add_child`
(`Edges`), and the numbers `reset_hydro_tasks` writes (`NumberOfParents`).
**HydroStep** executes the whole graph step after step, a task at a time.
**HydroScheduler** is the composition: `TaskScheduler` with the graph of
`HydroTasks`, cut down to a selection of its tasks. **HydroSweeps** adds what a
task does with cells, as the set of pairs of cells it visits: the three loops inside
a subgrid, the two loops over a face with the table of `HydroDensitySubGrid.hpp`
(start, increments, lengths), and the choice of `execute_task` among them. The
pairs are compared with the interfaces of the box, which are made from positions.

**PhotonPropagation.** One iteration of TBIS (716-895; the loop of RHD is the
same). Subgrids form a chain; a buffer record says where its packets go and
from which direction; a packet is only counted. `Traverse` distributes the
packets of a buffer in any way over the directions (an oracle for the physics)
and then does what the code does with them: fills active buffers, overflows into
new ones, makes tasks of the full ones, finds the largest. `Count` and
`FreeInput` are separate because the code does them in that order without a
lock. `ReadLargest` / `Launch` / `LaunchDone` are the premature launch with its
unlocked read, and `LaunchNothing` / `LeaveSubgrid` a subgrid that had nothing left once its lock
was taken. `EmitPacket` / `AddEmitted` and `Flush` / `AddFlushed` take a buffer and then
add its task to a queue. `TestEmpty` / `TestDone` are the two reads of the termination
test. `stale` remembers dependencies left in elements of the task vector, which
a reemission task may inherit.

**TravelDirections** and **SubGridCopies** have the tables as functions: the case
labels of `get_output_direction`, the inverse directions, positions and cells a
packet enters at; the neighbours of a subgrid in all directions, the levels with
the restriction both programs impose, and the two loops of `create_copies`.
**PhotonIterations** is the sequence of calls of the two programs around them
(`scenario.program`): `UpdateSources` (levels, `update_copies` or `create_copies`),
`NewSource` (the constructor of the distributed source), `StartIteration`,
`GetPhotonBatch` for one source after the other (an assertion that every source has packets,
compiled out by default, and the case of a source without luminosity are left out), the packets (`Launch`, `Cross`, `Leave`,
`Absorb`, `Reemit`), and the end of the iteration (`UpdateOriginalCounters`,
`CalculateTemperature`, `UpdateCopyProperties`). A packet moves by itself here: the
buffers and threads are in `PhotonPropagation`. `Cross` is one turn of the loop over
cells in `interact`; which faces it crosses is an oracle, several at once at an edge or
a corner. The fractions of a cell are the number of the computation they are
from, the counters of a subgrid one number. A tracker is a plain number that is read
in `Cross` and written in `CountPhoton`, because nothing but the lock of the
subgrid protects it. **PacketWalk** is what all this stands for: packets that walk
from cell to cell of one box. The refinement mapping adds the position of the subgrid
to the cell; a change of subgrid is a stutter.

**PointLocations**, **VoronoiGeometry**, **VoronoiFlips** and **NewVoronoiGrid.** The exact
tests of the code are on integer coordinates (mantissas of 53 bits); here they are
on small integers, and radii and centres are kept as fractions, so that nothing is
rounded. The flips are written as the code has them, as tables: the vertices,
neighbours and indices of the new tetrahedra, and the neighbours that are told
(`swap_neighbour`). One action is one step of the walk to a new vertex (`Walk`), its
insertion (`AddVertex`), or the check of one tetrahedron with the flip it leads
to (`Check`). The walk of the code has a branch for a neighbour that does not exist
(NVCC:516-540); with exact tests and generators inside the box a walk never leaves the large first
tetrahedron, and the branch is left out. `PointLocations` has the blocks of generators and the two iterators over
shells of blocks, with the exclusion radius of the code. `_max_r2` is brought up
to date only when the tetrahedron with the largest radius was changed; that it may
be larger than the current one is the choice between `Skip` and `Insert`, and
between `NextBlock` and `StoreCell`. A constructor belongs to one thread and shares
nothing but the generators with the others, so where several workers construct a cell
only the first one moves; in the job market they take turns in every order.
A search for a position (`Locate`) is a loop of its own, when the grid is complete.

**AMRGrid**, **GridWalk** and **IonizationSimulation.** A cell is its block and the
path of children that leads to it; a grid is the set of its single cells, those
without children. The keys are the numbers of the code (three bits for a level, and
a last one that ends the path), a block key and a cell key being the two halves of one
number; `NextKey` is `get_next_key`, and `KeyOrder` the loop of the constructor
over it. `SetNgbs` is the recursion of `set_ngbs` as a function on all cells.
`GridWalk` is one turn of the loops of `interact`, on integer coordinates that are fine
enough for every division: the choice of the wall, the correction at a periodic
boundary, the child that is entered. `IonizationSimulation` is the program:
`Initialize`, `ResetGrid` and `Connect` are `initialize` and `reset_grid`, and
`RefineNext`, `KeepCell`, `SplitCell` and `AddChild` the loop over the cells and the
recursion of `refine_cell`, with the stack of its calls. `JobSize` and `TakeJob` are
the two halves of `get_job`, before and under the lock. `Emit`, `Cross`, `Absorb`,
`Reemit` and `Count` are `execute` and `interact`. The answer of the refinement
scheme and the place where a packet is absorbed are choices.

**RestartManager.** One action is one change of the folder, so that a process can
be killed between any two. Counters of a process start at zero again after
`Start`; the index of the rotation is computed with the wrap of unsigned
arithmetic.

**TimeLine.** `advance` on an integer line of 2^Bits, for any sequence of requested
steps; the loop with its test, its limit of steps, dumps after a step, and
restarts from the last dump. Rounding of floating-point numbers is left out: a
physical time is a number of half integer units.

### Seeded faults

An operator `Fault...` in front of a definition is its body (or a part of it) with
one plausible slip: a missing second dependency, an offset that is taken for all
copies, a pair of edges that keep their labels. No specification uses them.
Substituted for the definition that follows, each of them breaks the property that
`PROJECT.json` lists under "mutants"; they document what each property is able to
notice.

## 3. Runs

Run `tlc -workers 2 -config <cfg> <module>` in this directory.

| run | instance | shows |
|---|---|---|
| `vector` | 3 threads, 2 elements, index wraps at 3 | exclusive use, exact counter, honest failure, progress of the search |
| `hydro_scheduler` | 2 threads, two subgrids on a periodic axis, 11 tasks | exclusive locks and queues, nothing left at exit, refinement of `TaskPool`, all tasks done |
| `hydro_step` | 144 layouts for the graph and the sweeps over subgrids of 2 x 3 x 4 cells; two subgrids (outer or periodic) and one on a periodic axis for the execution | exclusive subgrids, phases in order, no task left out, each interface visited once |
| `photons` | 2 threads, 2 subgrids, 3 packets in two batches, one reemission | conservation, one holder per buffer, active buffers, exclusive work, clean exit, room in the pool |
| `photons_continuous` | 2 threads, 2 subgrids, 3 packets, two blocks | one flush, nothing left unflushed, termination |
| `copies` | 5 scenarios: three boxes of up to 2 x 3 x 2 subgrids with copies of level 2 and a packet on any path; a chain of 4 subgrids whose sources move twice; the ionization program with 2 iterations, reemission and a tracker | tables of copies, fresh copies, exact counters, refinement of `PacketWalk` |
| `voronoi` | 2 workers, jobs of 2 cells; layouts of 4, 5 and 8 generators; 27 positions in two layouts of 16 generators (3 x 3 x 3 blocks) | tetrahedra linked and Delaunay, cells exact, each made once, closest generator found, the construction ends |
| `restart_files` | 4 dumps, 0 to 2 backups, crashes anywhere | newest dump survives, backups complete |
| `timeline` | 2^4 units, all requests, 2 crashes | alignment, nothing lost over a restart (the step pending at the end: number 6 of section 5) |
| `ionization` | 10 scenarios: AMR grids of 1 to 16 blocks, refined in every way up to 2 levels and 30 cells, once and again, open and periodic, with packets in all of them; one undivided cell on a periodic axis; a Cartesian grid; 10 packets for 2 threads, 23 for one | list, keys, positions and neighbours of the cells agree; packets come to be where their cell is; all packets are shot and the run ends; but for the exceptions in numbers 10 and 11 of section 5 |
| `hydro_periodic`, `copies_trackers` | see section 5 | a statement of the repository the code does not keep |

Why the bounds are enough: three threads and two elements make threads lose
every kind of race (two on the same element, with a third releasing it), and 3 is
not a multiple of 2, so that the wrap skips elements as 2^64 does for most
sizes. Two subgrids on a periodic axis have two common faces, the smallest
instance in which the order of locks matters; the eleven tasks contain every
kind of edge of the graph but the last, with two locks on both sides. The code
of the graph treats the axes alike, and up to three subgrids along an axis there
are subgrids with two, one and no inner neighbours. Three packets with a
capacity of two overflow a buffer; one of them alone in a buffer needs the last
threshold of the premature launch; two subgrids pass packets both ways. `NBuffer`
is chosen so that the pool never runs out, as a user has to: `get_free_buffer` has only
an assertion for a full pool, and a release build leaves it out. `Room` says what the
instance needs for that: four free buffers at any time, as many as a traversal may take
(one for each of the three directions of a chain, and one that turns out empty). Both runs
have 9 buffers, the least number for which `Room` holds in `photons`.
`MaxReemit` bounds the number of reemissions, which the physics bounds with probability one only.
The three boxes have one, two and three subgrids along an axis, periodic or not, and
one, two or no copies next to each other, so that every case of the copy table and
every direction occurs (a seeded swap of two of the 26 directions is noticed);
with a reach of four turns a packet crosses two subgrids. The chain has sources that
come and go, which is where offsets become stale. The layouts of the Voronoi run are
chosen so that all six flips occur, with new vertices inside a tetrahedron, on a
face and on an edge, and cospherical points; in `FarOne` a generator is skipped
by its distance. The grids of the run `ionization` have blocks next to each other, along one axis
and on two, cells of two levels side by side, and packets that start at corners of cells
and fly along diagonals, so that one, two and three walls are hit at once; the last
job of two threads is smaller than the others, and with 23 packets and jobs of one
the tenth part of what is left is larger at first. Four dumps are more than the rotation of two backups needs to repeat. With 16
units every combination of minimum, maximum and request occurs that differs by
powers of two.

Fairness. *Pool:* a thread inside an operation goes on (the operating system
runs every thread); no client has to ask or to give back. The property says that
*some* search succeeds: one thread may lose every race. *Scheduler:* every thread
keeps taking steps (weak), and a thread that spins on the lock of a queue, which
is released again and again, gets it at last (strong): the spin lock is not
first-come first-served, but no real schedule starves a thread forever. *Photons:*
every thread keeps taking steps, and a thread that looks for tasks again and again
while there are some it can lock finds one at last (strong), since a try-lock that
fails does so because another thread is making progress. No fairness is assumed of
the premature launch, of stealing, or of which task is taken. *Voronoi:* every worker
keeps taking steps (weak, one condition per worker, spelt out in `Spec`). *Older program:* the main thread
and every worker keep taking steps (weak); a packet may be reemitted only so often
(`turns`), as in `MaxReemit`, and a scheme that is asked again and again is bounded by the
cells there is room for. The other modules state no liveness.

## 4. Proofs

`ThreadSafeVector_proofs` proves, for every finite set of threads, every size and
every width of the index:

* `TypeCorrect`: `TypeOK`, together with `SlotOK` (a thread that works on an element
  knows which).
* `ExclusiveUse`: `Exclusive`. It is inductive given the types, once it is stated
  for the flags, the clients *and* the threads on their way to or from an
  element: that no two clients share an element is not inductive by itself,
  because a thread whose compare-and-swap succeeded is not a client yet.
* `CounterIsExact`: `CounterExact`. It needs `Exclusive`: that an element that is
  handed out or given back changes the cardinality of the set of used elements by
  one holds only if nobody else has it. `FiniteParts`, `Moves` and `Stays` say how one
  step changes the sets of threads that the counter lags by.
* `FailureIsFull`: `FailureMeansFull`, a search for an element that gives up saw a vector
  that was full up to the elements that other threads were releasing. It follows from
  `CounterExact` at the step that reads the counter.
* `CounterNeverWraps`: the unsigned counter is never decreased below zero, and is above the
  size of the vector by no more than the threads that have released an element and not
  counted it off yet, which are some of the threads. It is zero only when no client has an
  element. The upper bound rests on `Exclusive`: elements in use and elements being released
  are different.

Assumptions: `Thread` is finite, `Size` positive, `IndexWidth` at least `Size`,
`NoIndex` not a number. TLC evaluates them in the run `vector`.

`TaskScheduler_proofs` proves, for every number of threads and every graph of tasks
with at most two dependencies and seven children each:

* `LocksExclusive`: `Exclusive`, no two threads have a dependency lock in common, and a
  lock is set only while a thread has it. The invariant needs `TwoLocks`: a task that got
  both locks has two different ones. It is true because the first lock is held while the
  second is tried, and it is why `UnlockSecond` does not free the first one. (A task
  whose two dependencies are the same lock, see section 5, never gets there.) The
  lemmas `KeepLocks`, `GetLock` and `GiveLock` are the three things a step can do.
* `QueuesExclusive`: `QueueExclusive`, the lock of a queue and the cursor under it. It needs
  `Types` and `TaskOK` (what a thread has where), which are proved together with it,
  because the task under the cursor is a task only while the cursor is in the queue.

* `AllDoneAtExit`: `ExitComplete`. A child is counted after it became available, so that the
  number of tasks may fall behind and threads may leave the loop early; still, when the last
  one leaves it every task was executed. `Places` says where each task is: in one queue, in
  the hands of one thread, about to be added by one thread, or stopped. The counter of
  parents of a task is the number of its open edges (`CountersOpen`), and a task has a place
  exactly when that is zero (`Placed`). `CountOK` says by how much the number of tasks
  lags. At the exit nothing is waiting, so that every task is stopped or has an
  open edge; in a graph without cycles all are stopped.
* `PoolImplemented`: `ImplementsPool`, the scheduler implements `TaskPool`: every step is
  one of the pool or a stutter. A task begins after its parents, because it has a place only
  without open edges; once, because it has one place at a time (`HandsOnce`); and with nobody
  else at its locks, from `LocksExclusive`.

The assumptions are those on the graph in `TaskScheduler`, among them `AcyclicAssumption`: in
every nonempty set of tasks there is one without a parent in the set. The code justifies it in
`set_dependencies`, which links tasks of one phase only to tasks of later ones. TLC
evaluates the assumptions for the hydro graph in `hydro_scheduler`.

`PhotonPropagation_proofs` proves, for any number of threads, subgrids, buffers and
packets, any batches, any blocks of continuous sources and any bound on reemissions:

* `OneFlush`: `FlushOnce`, only one thread makes the flush tasks of an iteration;
* `OneHolderEach`: `OneHolder`, every buffer in use is in one active slot, or belongs to one
  task, or is in the hands of one thread. None is leaked, none is processed twice;
* `ActiveBuffersKnown`: `ActiveBuffers`, the active buffers of a subgrid nobody works on
  are neither empty nor full, lead where their slot says, and the largest one is recorded;
* `WorkExclusive`: `Exclusive`, two threads never work on the same subgrid or block.

The last three have the hypothesis `[]Room`. It is needed: with a full pool the code goes on
with the index `max_size()`, and nothing can be said of what comes then. Whether there is
room depends on the physics and on the parameters of a run (by default 50000 buffers for
10^6 packets), so that it stays a hypothesis; TLC checks `Room` in the run `photons`, whose
instance meets it. The invariant `IInv` has three parts, none of which is inductive without the
others. `Control` says what a thread has at each place of the loop, and that tasks which
are queued, taken or about to be added are different tasks. `Locking` says that a lock is set
only while one thread has it. It rests on the buffers: the lock of a traversal task is that of
the subgrid its buffer leads to, and this must not change while the task waits. `InMemory`
says who holds which buffer. It rests on the locks: the slots of a subgrid
may be read and changed in several steps only because no one else gets to them, and the
premature launch, which reads the largest size without the lock, looks again under it.
`MemoryStep` shows that a traversal, which fills up to three buffers and starts new ones, keeps
all holders apart. The assumptions (`ThreadAssumption`, `SizeAssumption`,
`SourceAssumption`, `NoneAssumption`) say that there are finitely many threads and at least
one, that sizes are natural numbers and there is at least one subgrid and one buffer, that a
source is at a subgrid or block and gives at most a buffer at once, and that `None` is none
of the values it is compared with; TLC evaluates them in `photons`.

The second part of the module goes on from there to the packets:

* `PacketsConserved`: `Conserved`, under `[]Room`. The packets of the batches that were not
  emitted, of the emissions under way, in the blocks of the continuous source, in the memory
  space, about to be counted and counted are those the sources had;
* `EndsFlushed`: `ExitFlushed`, under `[]Room` and if `Target` is the number of packets of the
  sources. The code waits for `_number_of_photons`, from which it makes the sources; only
  trackers that ask for more packets break this (number 5 of section 5). Every packet was counted, so
  that none is left in a buffer or block; a buffer in use without packets is in the hands
  of a thread that has not left;
* `EndsClean`: `ExitClean`, under the same hypotheses and without a block of a continuous
  source. With one it is false: flush tasks are left behind (number 4 of section 5).

The invariant `CInv` is `IInv` and four conjuncts. `BatchesOnce` says that a batch is in one place;
without it a batch could be emitted twice. `Amounts` says that a thread has something to count
only between the two steps that count it, and `Loaded` that only a reemission empties a
buffer, which the thread frees next: a buffer in use has a packet or a thread, so that none
is in use when all packets are counted and all threads have left. `Conserved` is the last. Each action has a lemma that says which parts
of the sum (`Balance`) it changes and by how much. `EInv` adds that a lock that is taken is had
by a thread (`LocksHad`) and that the flag goes down when all packets are counted (`Down`).
The library defines a sum by a recursive function that takes elements out of a set in
an order nobody knows; its induction theorems cannot be used here. `LeastSet`, a least
counterexample in the order of the subsets of a finite set, takes their place: from it
follow that a sum is well defined (`AddsAgree`), and how it changes with one of its terms.

`HydroStep_proofs` proves, for every set of layouts (any number of subgrids along each axis,
periodic or not) and any number of cells in a subgrid:

* `GraphOrdersPhases`: `PhasesOrdered`, two tasks of different phases that work on a common
  subgrid are ordered by the graph. `ChildrenAre` says that the children of a task are the
  ends of its edges, each as often as `set_dependencies` makes it, and `EdgeIsAt` which edges
  those are. `TouchingTask` is the core: a task touches a subgrid because the subgrid owns
  it or is the partner over a face, and both have an edge to or from a task of
  the subgrid in the phase before and after (`NextPhaseChild`);
* `AllTasksExecuted`: `NoneLeftOut`, a step that finds no more tasks has executed all of them.
  The invariant `StepOK` has three parts. `GraphOK`: the graph is that of the layout.
  `EachOnce`: a task is available, running or finished, never two of them.
  `ParentsCounted`: the counter of a task is the number of its edges from unfinished tasks,
  and the task was enqueued when that became zero. For its start the numbers that
  `reset_hydro_tasks` writes (0, 1, 2 or 7) must be the numbers of edges that
  `set_dependencies` makes (`EdgesCounted`), two functions of the code that nothing else
  connects. A task without open edges cannot be left out, and an edge cannot stay open
  because the phases have no cycle;
* `InterfacesOnce`: `EachInterfaceOnce`, the sweeps visit every interface of the box once for
  the gradients and once for the fluxes. `FaceCells` says what the table of strides of a face
  stands for, `CellIndexInjective` that an index belongs to one cell, `NeighbourBack` that the
  neighbour's neighbour on the other side is the subgrid itself (in a periodic direction with
  one subgrid too), `InterfaceVisited` and `VisitIsInterface` the two inclusions;
* `SubgridsExclusive`: `Exclusive`, because the locks of a task are exactly the
  subgrids it touches (`LocksOfSubgrids`);
* `GraphFitsScheduler`: the graph of every layout is one `TaskScheduler` assumes (at most
  two locks and seven children, finitely many tasks, no cycle), so that the theorems of
  `TaskScheduler_proofs` hold for all of them and not only for those TLC checks.

Assumptions: `LayoutsAssumption`, `BoundAssumption` and `CellsAssumption` (three positive
numbers of subgrids and cells); TLC evaluates them in `hydro_step`. The library's induction theorems
cannot be used, so an induction over a number is an argument about the least one for
which a fact fails (`LeastNumber`); what is computed along a list is a recursive function of
the number of elements that were seen (`after` in `ChildrenOf`), and an operator of the
community modules that is one inside (`FlattenSeq`) is related to it by its defining
equation (`FlattensExist`, `Concat`).

`PhotonIterations_proofs` proves, for every set of scenarios (any grid, boundaries, copy levels,
sources, numbers of packets, batches and iterations, both programs) and all flight directions:

* `CopiesDescribed`: `FamiliesExact`, however the levels change. The invariant `TablesOK` says
  where everything is: an original with a level has its copies in one block, which begins after
  those of the originals before it (`OffsetsOK`); what the list of originals says of a copy, and
  what its 27 neighbours are (`LinkedCopies`). A loop that starts at an offset and stops where the
  original changes is then a loop over a block (`LoopFindsBlock`), and one that starts
  at the stale offset of a subgrid that lost its copies is over at once. The neighbour of a copy
  is in the block of the neighbour, because the levels of two neighbours are powers
  of two of which one divides the other (`CopyNeighbourIs`);
* `CopiesUpToDate`: `CopiesFresh`. `FreshOK` says when the copies are behind: in "ion" only
  between the computation of the temperature and the update that follows it, in "rhd" from there
  until the next iteration starts, where a new state from the hydro variables is copied too;
* `CountersMatch`: `CountersExact`. `CountsOK` says that the counter of an original and those of
  its copies add up to what was crossed in its part of the box (`Split`). One more cell
  changes one term of one sum (`OneMore`). For that a packet must be in a subgrid that
  exists (`PacketsOK`), in a cell of it whose coordinates in the box belong to that
  subgrid (`CellInside`), and the sources must be in such cells (`SourcesOK`, `SourceMade`);
* `WalkImplemented`: `ImplementsWalk`, every step is one of `PacketWalk` or does not show there.
  The four tables of directions (`OutputDirection`, `OutputToInput`, the lower and upper
  bounds of `get_start_index`, the moves of `update_photon_position`) agree on what a side is
  (`DirectionOf`, `EntersOpposite`); with this a packet that leaves can be followed along each
  axis on its own (`NextOnAxis`): it is in the same cell of the box, over a periodic
  boundary and through an edge or a corner too, in whichever copy (`NeighbourOrigin`), and
  when there is no neighbour it is outside of the box (`LeaveCell`). Each action on a packet
  becomes a relation between the packet before and after (`CrossIs` to `ReemitIs`), and each
  of these a step of the walk (`CrossWalks` to `RestartWalks`). `Numbered` says that a source
  task emits packets that were not emitted before.

The assumptions are `PacketAssumption` and `ScenarioAssumption`: a grid has at least one subgrid
and one cell along each axis, levels and numbers are natural numbers, and every source is in the
box. TLC evaluates them in `copies`. Sums, powers of two and concatenations are recursive
functions here too, with least counterexamples for inductions.

`RestartManager_proofs` proves, for any numbers of backups and dumps, `NewestDumpSurvives` and
`BackupsStayUsable`. The invariant has two halves. `Rotation` follows a process with one
backup, which alternates between its two files: the newest complete dump is in the dump
until it is moved, and then in the backup until the next one is complete. `NoSecondDump`
says what a process with two or more backups does: it never gets to its second dump
(number 3 of section 5), and its one dump stays.

`TimeLine_proofs` proves, for every size of the time line, any sequence of requests, dumps and
restarts:

* `TimeAccounted`: `Accounted`. It needs `Pending`: an accepted step is followed by its
  execution, and a dump keeps the covered time and the pending step together;
* `TimeAligned`: `Aligned`, the time stays on the grid of the smallest step and what is left is
  a whole number of steps. The invariant `GridOK` says it of the time line and of the one in the dump
  (`OnGrid`): the bounds of the steps are powers of two, the smaller one not above the larger,
  and while another step follows something is left. The loop that halves a step ends with the
  largest power of two that fits, and it never gets below the smallest step
  because what is left is a multiple of that one. `Pow2` is a recursive function, and
  the lemmas about it say how one power divides another.

`NewVoronoiGrid_proofs` proves `CellsOnce`: `EachCellOnce`, for every number of workers,
every layout and every size of a job. `Jobs` is the invariant of the market: jobs are disjoint
ranges below its index, and a cell below the index is either stored or owned by one
worker. That a worker which passed the test without the lock takes no range beyond the end
follows from the second look under the lock; that the cell it stores is its own
needs `Constructor`, which says the first vertex of a cell is the generator of the job
through every insertion and flip (`SplitKeeps`, `CheckKeeps`, `AppendFirst`).
`SearchClosest` proves `ClosestFound`: a search for the cell of a position that ends has found
a generator that is closest to it, for every box, layout and number of blocks. `After` is the
order in which `increase_indices` goes through the blocks, by the largest range and then by
the three ranges; `Successor` shows that it leaves none out, `LoopFirst` that the loop of
`increase_range`, a recursive function that is shown to exist, stops at the first
block inside, and `LastBlock` that `set_max_range` has the last one, whatever the position of
the anchor in the box. `Searches` is the invariant: the bounds of the iterator are
those of its level, cut at the box (`Around`), and the best point so far is not farther than any
one in a block that was seen (`Best`). That levels are never skipped (`EveryLevel`) is why one
step of the bounds is enough when the level grows, and `UnseenFar` why the search may stop: a block
that was not seen is a whole level away on some axis, which is not less than the radius.
The assumptions are those on the layouts (at least one generator, indices from 0 without
gaps, positions inside the box, at least one worker, a layout is built or only searched);
TLC evaluates them in `voronoi`.

Only model-checked:

* liveness under fairness and `ENABLED`, which are out of the prover's reach;
* the geometry of the Voronoi construction (`Linked`, `Delaunay`, `CellsExact`),
  whose correctness is a theorem of geometry about polynomials of degree up to five;
* `Room`, whose bound depends on the instance (see above);
* the AMR grid (`TreeExact`, `NeighboursExact`, and `PathExact`, a property of steps), whose
  definitions recurse over the tree, and the end of its runs (`RunEnds`).

## 5. Where the code and its documentation disagree

1. **A periodic axis with one subgrid** (`hydro_periodic`). "avoid dining
   philosophers by sorting the dependencies on subgrid index" (RHD:164): both
   dependencies of the sweep are the lock of the same subgrid; `lock_dependency`
   takes it, finds it taken, gives it back, forever. The step never ends.
2. **Trackers of copies** (`copies_trackers`). "This function also merges copies made by
   add_trackers()" (`TrackerManager.hpp:306`). `add_trackers` makes a duplicate for each
   copy of the subgrid of a tracker (292-295) and then gives the copy the tracker
   of the original (296; 294 for a tracker that is there already). The duplicates
   stay empty; the copies are locked one by one, so that two threads update
   the same plain numbers, and a packet may be lost.

More that have no run of their own. They can be seen in the models as follows.

3. **Two or more backups.** "If more files are in the history, the oldest one is deleted
   before a new restart file is created" (`RestartManager.hpp:86-88`). `_number_of_backups - 1` is unsigned
   and wraps for the first dump (`RestartManager.hpp:174`): the rotation renames a file
   that does not exist and aborts. `NoBackupError` fails with `Maxima <- TwoBackups`.
4. **Flush tasks that never run.** "Flush the continuous source photon buffers at the
   end of the photon packet creation phase of the iteration" (`Task.hpp:76-77`). The
   threads may end the iteration with flush tasks of empty blocks in the queue, and
   a thread drops the task it has just taken, with its lock, when another one has
   ended the iteration (TBIS:884-888). The locks of the blocks outlive the iteration
   (TBIS:586), so that a later continuous source task of this block cannot be
   locked. Checking `ExitClean` in the instance of `photons_continuous` shows it.
5. **Trackers that ask for more packets.** "minimum number of photon packets: Minimum
   number of photon packets to use during the spectrum tracking step"
   (`TrackerManager.hpp:175-177`). `_number_of_photons` is raised (TBIS:671), the distributed
   source is not made again: the loop waits for packets that nobody emits.
   With the constants of `photons`, but `Target = 4` and no symmetry, `Terminates` is
   violated under `FairSpec`.
6. **The last time step.** "return True if there are still valid time steps after this
   step" (`TimeLine.hpp:166-167`). The loop tests what `advance` returned for the step it has
   just computed, and `advance` returns false for the last one: it is never
   executed (RHD:1496-1514, 2273; the same in `RadiationHydrodynamicsSimulation.cpp`). In
   `TimeLine` the covered time at `End` is never the whole line; `Accounted` has the
   pending step next to it.
7. **The first block of a density mask.** The job market of `FractalDensityMask` increments its
   index before it takes it (`FractalDensityMask.hpp:281-284`), and the constructor sets it
   to zero (234): block 0 of the first level is never made. The market is not
   modelled; the one of `NewVoronoiGrid` takes the old value (`NewVoronoiGrid.hpp:212-214`).
8. **An absorbed packet counts as escaped.** `AMRDensityGrid::interact` returns the iterator
   "pointing to the cell the photon was last in, or DensityGrid::end() if the photon left
   the box" (`AMRDensityGrid.hpp:642-643`). The next cell is computed before the optical
   depth is tested, and `end()` is returned if there is none (696-698), also when the
   packet was absorbed in the cell before: such a packet is never reemitted. The
   Cartesian grid does not do this. `LastCellRight` fails with
   `Scenarios <- LastCells`.
9. **Cells that are never calculated.** `TemperatureCalculator` "calculates the temperature
   for every cell of a grid after the photon shoot loop" (`TemperatureCalculator.hpp:22-23`), but
   gets a range that was taken before the iterations (`IonizationSimulation.cpp:350,
   532`), while `reset_grid` adds cells to the end of the list. `EveryCellCalculated` fails with
   `Scenarios <- NewCells`. `initialize` has the same slip: "make sure all
   values are correctly initialized (also in refined cells)" (`AMRDensityGrid.hpp:355`), with
   the range of the cells that were there before the refinement.
10. **Refined cells at a periodic boundary.** "find the child cell containing the new
    position" (`AMRDensityGrid.hpp:612`): the loop (613-615) goes down with `next_wall`, the
    position on the wall the packet leaves through. The shift to the other side of the box is applied
    by `interact` afterwards (684-686), so that the packet goes on in a child at the far side of
    its neighbour. `PacketsInside` fails as an invariant with `Scenarios <- EnterRefined`.
    `PathExact`, which `ionization` checks on the same grid and nine others, says that this is
    the only way to be in a wrong cell.
11. **A periodic axis with one undivided cell.** "apply periodic boundaries
    if necessary" (`AMRDensityGrid.hpp:685`): `get_wall_intersection` (587-610) recognizes a boundary
    by a neighbour that lies on the wrong side. Here the neighbour is the cell itself, whose anchor is not smaller than its own: the position is not corrected, and the packet
    stays at the wall without covering a distance. `RunEnds` states this as its exception
    (`MeetsItself`); without it `OneCellRing` is a counterexample.
12. **The refinement interval** is the "Number of ionization computation iterations between
    successive applications of the refinement algorithm" (`AMRDensityGrid.hpp:276-277`) and the
    "number of grid resets before the grid is refined for the first time" (53-54):
    the code does the latter, and refines in every iteration from then on (388).

Noticed on the way, without a run of their own: `get_free_element_safe` may spin
although its documentation promises `max_size()` for a full vector, when the last
elements are taken between its test and its loop (`ThreadSafeVector.hpp:273-281`; in
`ThreadSafeVector` a thread passes `CheckNumberTaken` and then alternates between
`DrawIndex` and `ClaimFails`). "a reemit task has no dependencies"
(`PrematureLaunchTaskContext.hpp:110`) is not so for an element of the task vector
that is used again: `Task::_dependency` is not reset; the model has this, and the
packets are conserved and the loop ends all the same. With the rotation of two
backups working, it would still drop the oldest one too early: it starts at
`_number_of_backups - 1`, one below the next free place. And the first dump of a
restarted process overwrites the one it was started from in place: until it is
complete there is no newest dump on disk, which is why `NewestSurvives` speaks of a
process with a complete dump of its own. A packet that is stopped exactly on the upper side of the
box and is emitted again is looked up in the block behind the last one
(`AMRGrid.hpp:383-402`, which asks for "a position within the box"): `HasBlock` is the guard
that leaves such a reemission out.

## 6. Not modelled, and the plan

Not modelled:

* numerics: Riemann solvers, gradients and limiters, ionization and temperature, gravity,
  volumes and areas of cells. They are floating-point computations without
  concurrency of their own, whose correctness is a matter of accuracy;
* rounding: the time line and the Voronoi tests are modelled in exact arithmetic. For the
  tests this is what the code has (`ExactGeometricTests`), for circumradii it is not;
* the older Voronoi algorithm (`OldVoronoiCell`), which decides with floating-point
  tolerances, line emission along rays, hydrodynamics on the Cartesian grid, and the walk of
  packets through a Voronoi grid;
* parsing, configuration and output, MPI wrappers, timers and statistics, and the
  contents of a dump;
* the other legacy job markets: `WorkDistributor` runs them like those of
  `NewVoronoiGrid` and `IonizationSimulation`, with their own ranges of packets or blocks.

Data races on plain variables (`global_run_flag`, the queue sizes, the largest buffer
size, the index of the job market) are modelled as reads of the current value at a
moment of their own; what a compiler may do beyond that is not.

Order of the modules: the pool and the scheduler first (everything runs on them),
then the hydro graph, the photon loop, restart files and time line; then the sweeps,
the copies with source, walk and tracker, the Voronoi grid, and the older program with its
AMR grid. These are done.
What is left:

1. Proofs: the job market of `IonizationSimulation`, once the recursion over its tree is in a
   module of its own.
2. A composition of `TimeLine` and `RestartManager`: what a run that is killed
   anywhere can be resumed from.
3. The other photon shoot job markets with `Lock`, and the live output.
