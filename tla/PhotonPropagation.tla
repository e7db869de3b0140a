--------------------------- MODULE PhotonPropagation ---------------------------
(***************************************************************************)
(* One iteration of the task-based photon propagation: the parallel region *)
(* of TaskBasedIonizationSimulation.cpp (the radiation loop of             *)
(* TaskBasedRadiationHydrodynamicsSimulation.cpp has the same), the task   *)
(* contexts it executes, MemorySpace and the buffers of DensitySubGrid.    *)
(*                                                                         *)
(* Photon packets travel in buffers through a chain of subgrids.  A        *)
(* traversal task moves the packets of its buffer through one subgrid and  *)
(* into the subgrid's active buffers, one per direction; a full active     *)
(* buffer becomes a task of its own.  Absorbed packets collect in the      *)
(* buffer of direction "in" and are reemitted.  Idle threads launch the    *)
(* largest active buffer of some subgrid before it is full.  The threads   *)
(* stop when no buffers are left and all packets are accounted for.        *)
(*                                                                         *)
(* Packets are counted, not identified.  The queues and the scan for a     *)
(* task that can be locked are those of TaskScheduler; here they are one   *)
(* set, from which a thread gets some task or, at any time, none.          *)
(***************************************************************************)
EXTENDS Integers, FiniteSets, FiniteSetsExt, SequencesExt

CONSTANTS
  Thread,      \* the threads
  NGrid,       \* number of subgrids
  Capacity,    \* PHOTONBUFFER_SIZE
  NBuffer,     \* size of the memory space
  Discrete,    \* the batches of the discrete source: [id, grid, n]
  Continuous,  \* the batches of the continuous source: [id, block, n]
  NBlock,      \* number of continuous blocks, one per thread
  Target,      \* _number_of_photons
  Reemission,  \* whether there is a reemission handler
  MaxReemit,   \* bound: number of reemissions
  None         \* NO_TASK, NEIGHBOUR_OUTSIDE, TRAVELDIRECTION_NUMBER, nullptr

Grid   == 1 .. NGrid
Block  == NGrid + 1 .. NGrid + NBlock
Lock   == Grid \cup Block   \* subgrid dependencies, continuous_source_lock
Buffer == 1 .. NBuffer
Dir    == {"in", "lo", "hi"}

(* A buffer: its subgrid, the direction it comes from, its size. *)
PhotonBuffer == [grid : Grid, dir : Dir, n : 0 .. Capacity]

(* The sum of the values of a function. *)
Sum(f, S) == MapThenSumSet(LAMBDA d : f[d], S)
Total(f) == Sum(f, DOMAIN f)

Emitted == Total([s \in Discrete |-> s.n])
Incoming == Total([s \in Continuous |-> s.n])

ASSUME ThreadAssumption == IsFiniteSet(Thread) /\ Thread # {}
ASSUME SizeAssumption ==
  /\ NGrid \in Nat \ {0} /\ NBuffer \in Nat \ {0} /\ NBlock \in Nat
  /\ Capacity \in Nat \ {0} /\ MaxReemit \in Nat /\ Target \in Nat
  /\ Reemission \in BOOLEAN
ASSUME SourceAssumption ==
  /\ IsFiniteSet(Discrete) /\ IsFiniteSet(Continuous)
  /\ \A s \in Discrete : s.grid \in Grid /\ s.n \in 1 .. Capacity
  /\ \A s \in Continuous : s.block \in Block /\ s.n \in 1 .. Capacity

VARIABLES
  buf,      \* [Buffer -> the buffer, or None: the element is free]
  active,   \* [Grid -> [Dir -> Buffer or None]], _active_buffers
  largest,  \* [Grid -> [dir, n]], _largest_buffer_index and _size
  locked,   \* [Lock -> BOOLEAN]
  queued,   \* the tasks in the queues
  stale,    \* the dependencies left behind in free elements of the task vector
  numDone,  \* num_photon_done
  flag,     \* global_run_flag
  cont,     \* [Block -> [Grid -> Nat]], the sizes of continuous_buffers
  contLeft, \* _number_of_continuous_photons
  flushed,  \* _continuous_photons_flushed
  reemits,  \* number of reemissions so far (for the bound)
  pc,       \* where each thread is
  cur,      \* [Thread -> its task, or None]
  adding,   \* [Thread -> the tasks it still has to add to queues]
  doneNow,  \* [Thread -> num_photon_done_now]
  pos       \* [Thread -> a position: of a scan or of a loop]

memory == <<buf, active, largest>>
source == <<cont, contLeft, flushed>>
vars == <<buf, active, largest, locked, queued, stale, numDone, flag, cont,
          contLeft, flushed, reemits, pc, cur, adding, doneNow, pos>>

Goto(t, l) == pc' = [pc EXCEPT ![t] = l]

-----------------------------------------------------------------------------
(* Tasks. *)
DiscreteTask(s)     == [type |-> "discrete", of |-> s, dep |-> None]
ContinuousTask(s)   == [type |-> "continuous", of |-> s, dep |-> s.block]
FlushTask(b)        == [type |-> "flush", of |-> b, dep |-> b]
FaultTraversalNoDep(b, g) ==   \* Seeded fault: the subgrid is not locked
                       [type |-> "traversal", of |-> b, dep |-> None]
TraversalTask(b, g) == [type |-> "traversal", of |-> b, dep |-> g]
(* A reemission task sets no dependency: the one of the former task in the *)
(* same element of the task vector, if any, is still there.                *)
ReemitTask(b, d)    == [type |-> "reemit", of |-> b, dep |-> d]

Task ==
  {DiscreteTask(s) : s \in Discrete} \cup {ContinuousTask(s) : s \in Continuous}
    \cup {FlushTask(k) : k \in Block} \cup {TraversalTask(b, g) : b \in Buffer, g \in Grid}
    \cup {ReemitTask(b, d) : b \in Buffer, d \in Lock \cup {None}}

(* The values that stand for none are no indices, directions, buffers or   *)
(* tasks.                                                                  *)
ASSUME NoneAssumption ==
  /\ None \notin Lock /\ None \notin Buffer /\ None \notin Dir
  /\ None \notin PhotonBuffer /\ None \notin Task

(* Task::lock_dependency succeeds. *)
CanLock(x) == \A l \in {x.dep} \ {None} : ~ locked[l]
Take(x) == IF x.dep = None THEN locked ELSE [locked EXCEPT ![x.dep] = TRUE]
Give(x) == IF x.dep = None THEN locked ELSE [locked EXCEPT ![x.dep] = FALSE]

-----------------------------------------------------------------------------
(* The chain of subgrids. *)
Neighbour(g, d) ==
  CASE d = "in"                -> g
    [] d = "lo" /\ g > 1       -> g - 1
    [] d = "hi" /\ g < NGrid   -> g + 1
    [] OTHER                   -> None

(* output_to_input_direction: the side on which a packet enters. *)
InputDirection(d) == CASE d = "in" -> "in" [] d = "lo" -> "hi" [] d = "hi" -> "lo"

(* The results of interact for a packet that entered on side d: it is      *)
(* absorbed, or leaves in a direction it can move in.                      *)
Results(d) == IF d = "in" THEN Dir ELSE {"in", InputDirection(d)}

(* PhotonTraversalThreadContext::initialize: the packets that are kept. *)
Stored(g, d) == Neighbour(g, d) # None /\ (d = "in" => Reemission)

-----------------------------------------------------------------------------
(* The memory space.  Elements are interchangeable: the first free one.    *)
Used(m) == {b \in Buffer : m[b] # None}
FreeBuffer(m) == Min(Buffer \ Used(m))

(* MemorySpace::add_photons: fill buffer b; if that makes it full, the     *)
(* rest (maybe nothing) goes to a new buffer.                              *)
Moves(old, n) == Min({Capacity - old.n, n})

AddPhotons(m, b, n) ==
  LET moved == Moves(m[b], n)
      m1    == [m EXCEPT ![b].n = @ + moved]
  IN  IF m1[b].n < Capacity
      THEN [buf |-> m1, out |-> b]
      ELSE LET c == FreeBuffer(m1)
           IN  [buf |-> [m1 EXCEPT ![c] = [m[b] EXCEPT !.n = n - moved]], out |-> c]

(* The loop over outgoing directions, for one direction with n > 0         *)
(* packets.  s has the buffers, the active buffers of g, and the full ones.*)
NewIsEmpty(m, b, c) == c # b /\ m[c].n = 0

StoreOutgoing(s, g, d, n) ==
  LET a  == s.act[d]
      b  == IF a = None THEN FreeBuffer(s.buf) ELSE a
      m  == IF a = None
            THEN [s.buf EXCEPT ![b] =
                    [grid |-> Neighbour(g, d), dir |-> InputDirection(d), n |-> 0]]
            ELSE s.buf
      r  == AddPhotons(m, b, n)
      c  == r.out
      empty == NewIsEmpty(r.buf, b, c)
  IN  [buf  |-> IF empty THEN [r.buf EXCEPT ![c] = None] ELSE r.buf,
       act  |-> [s.act EXCEPT ![d] = IF empty THEN None ELSE c],
       full |-> IF c = b THEN s.full ELSE s.full \cup {b}]

(* The largest active buffer, the first in the order of directions. *)
Directions == <<"in", "lo", "hi">>

SizeOf(m, b) == IF b = None THEN 0 ELSE m[b].n

FirstLargest(size) ==
  CHOOSE i \in 1 .. 3 :
    \A j \in 1 .. 3 : /\ size[Directions[j]] <= size[Directions[i]]
                      /\ j < i => size[Directions[j]] < size[Directions[i]]

LargestIn(size) ==
  LET d == Directions[FirstLargest(size)]
  IN  [dir |-> IF size[d] = 0 THEN None ELSE d, n |-> size[d]]

LargestOf(m, act) == LargestIn([d \in Dir |-> SizeOf(m, act[d])])

-----------------------------------------------------------------------------
Init ==
  /\ buf = [b \in Buffer |-> None]
  /\ active = [g \in Grid |-> [d \in Dir |-> None]]
  /\ largest = [g \in Grid |-> [dir |-> None, n |-> 0]]
  /\ locked = [l \in Lock |-> FALSE]
  /\ queued = {DiscreteTask(s) : s \in Discrete} \cup {ContinuousTask(s) : s \in Continuous}
  /\ stale = {}
  /\ numDone = 0
  /\ flag = TRUE
  /\ cont = [b \in Block |-> [g \in Grid |-> 0]]
  /\ contLeft = Incoming
  /\ flushed = 0
  /\ reemits = 0
  /\ pc = [t \in Thread |-> "start"]
  /\ cur = [t \in Thread |-> None]
  /\ adding = [t \in Thread |-> {}]
  /\ doneNow = [t \in Thread |-> 0]
  /\ pos = [t \in Thread |-> <<0, 0>>]

(* Looking for a task: in the shared queue before the loop ("start"), in   *)
(* all queues while there was one ("get") and once more at the end of the  *)
(* body of the loop ("last").                                              *)
Looking == {"start", "get", "last"}

GetTask(t) ==
  /\ pc[t] \in Looking
  /\ \E x \in queued :
       /\ pc[t] = "start" => x.type # "traversal"
       /\ CanLock(x)
       /\ locked' = Take(x)
       /\ queued' = queued \ {x}
       /\ cur' = [cur EXCEPT ![t] = x]
  /\ Goto(t, IF pc[t] = "get" THEN "exec" ELSE "while")
  /\ UNCHANGED <<memory, source, stale, numDone, flag, reemits, adding, doneNow, pos>>

(* No task was found: queues were empty or locked, or their tasks were,    *)
(* when the thread looked at them.                                         *)
GetNothing(t) ==
  /\ pc[t] \in Looking
  /\ Goto(t, IF pc[t] = "get" THEN "test" ELSE "while")
  /\ UNCHANGED <<memory, source, locked, queued, stale, numDone, flag, reemits,
                 cur, adding, doneNow, pos>>

(* while (global_run_flag): a thread without a task starts a premature     *)
(* launch.  A thread that has one when the flag is down drops it.          *)
While(t) ==
  /\ pc[t] = "while"
  /\ pos' = [pos EXCEPT ![t] = IF flag /\ cur[t] = None THEN <<Capacity \div 2, 1>> ELSE @]
  /\ Goto(t, CASE ~ flag                    -> "exit"
               [] flag /\ cur[t] = None     -> "launch"
               [] flag /\ cur[t] # None     -> "exec")
  /\ UNCHANGED <<memory, source, locked, queued, stale, numDone, flag, reemits,
                 cur, adding, doneNow>>

-----------------------------------------------------------------------------
(* PrematureLaunchTaskContext::execute: the next subgrid, or the first one *)
(* with half the threshold; the last threshold is 0.                       *)
FaultStopAtOne(th) == th <= 1   \* Seeded fault: packets on their own stay
LastThreshold(th) == th = 0

NextSubgrid(t) ==
  LET th   == pos[t][1]
      g    == pos[t][2]
      last == g = NGrid /\ LastThreshold(th)
  IN  /\ pos' = [pos EXCEPT ![t] = CASE last      -> <<0, 0>>
                                     [] g < NGrid -> <<th, g + 1>>
                                     [] OTHER     -> <<th \div 2, 1>>]
      /\ Goto(t, IF last THEN "get" ELSE "launch")

(* The size of the largest buffer is read without the lock of the subgrid. *)
ReadLargest(t) ==
  LET g == pos[t][2] IN
  /\ pc[t] = "launch"
  /\ IF largest[g].n > pos[t][1]
     THEN Goto(t, "trylock") /\ UNCHANGED pos
     ELSE NextSubgrid(t)
  /\ UNCHANGED <<memory, source, locked, queued, stale, numDone, flag, reemits,
                 cur, adding, doneNow>>

(* The subgrid is locked. *)
LaunchFails(t) ==
  /\ pc[t] = "trylock"
  /\ locked[pos[t][2]]
  /\ NextSubgrid(t)
  /\ UNCHANGED <<memory, source, locked, queued, stale, numDone, flag, reemits,
                 cur, adding, doneNow>>

(* With the lock of the subgrid taken its largest buffer is read again.    *)
(* There are no active buffers any more: the lock is released.             *)
LaunchNothing(t) ==
  LET g == pos[t][2] IN
  /\ pc[t] = "trylock"
  /\ ~ locked[g]
  /\ largest[g].dir = None
  /\ locked' = [locked EXCEPT ![g] = TRUE]
  /\ Goto(t, "nothing")
  /\ UNCHANGED <<memory, source, queued, stale, numDone, flag, reemits,
                 cur, adding, doneNow, pos>>

LeaveSubgrid(t) ==
  /\ pc[t] = "nothing"
  /\ locked' = [locked EXCEPT ![pos[t][2]] = FALSE]
  /\ NextSubgrid(t)
  /\ UNCHANGED <<memory, source, queued, stale, numDone, flag, reemits,
                 cur, adding, doneNow>>

(* The largest buffer is deactivated and made into a task.                 *)
LaunchTask(g, d) ==
  LET b == active[g][d] IN
  IF d = "in" THEN {ReemitTask(b, l) : l \in stale \cup {None}}
              ELSE {TraversalTask(b, buf[b].grid)}

FaultLaunchTwice(g, d) == active   \* Seeded fault: the launched buffer stays active
Deactivate(g, d) == [active EXCEPT ![g][d] = None]

Launch(t) ==
  LET g == pos[t][2]
      d == largest[g].dir
  IN
  /\ pc[t] = "trylock"
  /\ ~ locked[g]
  /\ d # None
  /\ locked' = [locked EXCEPT ![g] = TRUE]
  /\ active' = Deactivate(g, d)
  /\ \E x \in LaunchTask(g, d) : queued' = queued \cup {x}
  /\ Goto(t, "launched")
  /\ UNCHANGED <<buf, largest, source, stale, numDone, flag, reemits,
                 cur, adding, doneNow, pos>>

(* The new largest buffer is determined and the subgrid unlocked. *)
FaultStaleLargest(g) == largest[g]   \* Seeded fault: it is not updated
NewLargest(g) == LargestOf(buf, active[g])

LaunchDone(t) ==
  LET g == pos[t][2] IN
  /\ pc[t] = "launched"
  /\ largest' = [largest EXCEPT ![g] = NewLargest(g)]
  /\ locked' = [locked EXCEPT ![g] = FALSE]
  /\ pos' = [pos EXCEPT ![t] = <<0, 0>>]
  /\ Goto(t, "get")
  /\ UNCHANGED <<buf, active, source, queued, stale, numDone, flag, reemits,
                 cur, adding, doneNow>>

-----------------------------------------------------------------------------
Executes(t, type) == pc[t] = "exec" /\ cur[t].type = type

(* SourceDiscretePhotonTaskContext: a buffer of new packets. *)
EmitDiscrete(t) ==
  LET b == FreeBuffer(buf)
      s == cur[t].of
  IN
  /\ Executes(t, "discrete")
  /\ buf' = [buf EXCEPT ![b] = [grid |-> s.grid, dir |-> "in", n |-> s.n]]
  /\ adding' = [adding EXCEPT ![t] = {TraversalTask(b, s.grid)}]
  /\ Goto(t, "finish")
  /\ UNCHANGED <<active, largest, source, locked, queued, stale, numDone, flag,
                 reemits, cur, doneNow, pos>>

(* PhotonTraversalTaskContext: the packets of the buffer are distributed   *)
(* over the results of interact and stored.  Packets that are not stored   *)
(* are done: they left the grid, or were absorbed for good.                *)
FaultDoneAll(n, out, kept) == n   \* Seeded fault: stored packets are done, too
NotStored(n, out, kept) == n - Sum(out, kept)

StoreKept(s, g, d, out, kept) == IF d \in kept THEN StoreOutgoing(s, g, d, out[d]) ELSE s

StoreAll(s, g, out, kept) ==
  LET s1 == StoreKept(s, g, "in", out, kept)
      s2 == StoreKept(s1, g, "lo", out, kept)
  IN  StoreKept(s2, g, "hi", out, kept)

Traverse(t) ==
  LET b == buf[cur[t].of]
      g == b.grid
  IN
  /\ Executes(t, "traversal")
  /\ \E out \in [Results(b.dir) -> 0 .. b.n] :
       LET kept == {d \in DOMAIN out : Stored(g, d) /\ out[d] > 0} IN
       /\ Total(out) = b.n
       /\ \E s \in {StoreAll([buf |-> buf, act |-> active[g], full |-> {}], g, out, kept)} :
            /\ buf' = s.buf
            /\ active' = [active EXCEPT ![g] = s.act]
            /\ largest' = [largest EXCEPT ![g] = LargestOf(s.buf, s.act)]
            /\ \E l \in stale \cup {None} :
                 adding' = [adding EXCEPT ![t] =
                   {IF s.buf[c].dir = "in" THEN ReemitTask(c, l) ELSE TraversalTask(c, s.buf[c].grid) :
                      c \in s.full}]
       /\ doneNow' = [doneNow EXCEPT ![t] = NotStored(b.n, out, kept)]
  /\ Goto(t, "count")
  /\ UNCHANGED <<source, locked, queued, stale, numDone, flag, reemits, cur, pos>>

(* PhotonReemitTaskContext: k packets are reemitted, the others are done.  *)
(* The buffer is used for the traversal of the reemitted packets.          *)
Reemit(t) ==
  LET b == cur[t].of IN
  /\ Executes(t, "reemit")
  /\ \E k \in 0 .. buf[b].n :
       /\ reemits + k <= MaxReemit
       /\ reemits' = reemits + k
       /\ buf' = [buf EXCEPT ![b].n = k]
       /\ doneNow' = [doneNow EXCEPT ![t] = buf[b].n - k]
       /\ adding' = [adding EXCEPT ![t] =
                       IF k > 0 THEN {TraversalTask(b, buf[b].grid)} ELSE {}]
  /\ Goto(t, "count")
  /\ UNCHANGED <<active, largest, source, locked, queued, stale, numDone, flag, cur, pos>>

(* num_photon_done.pre_add, before the buffer is freed. *)
Count(t) ==
  /\ pc[t] = "count"
  /\ numDone' = numDone + doneNow[t]
  /\ doneNow' = [doneNow EXCEPT ![t] = 0]
  /\ Goto(t, IF cur[t].type = "traversal" \/ buf[cur[t].of].n = 0 THEN "free" ELSE "finish")
  /\ UNCHANGED <<memory, source, locked, queued, stale, flag, reemits, cur, adding, pos>>

FaultNotFreed(b) == buf   \* Seeded fault: the input buffer stays in use
Freed(b) == [buf EXCEPT ![b] = None]

FreeInput(t) ==
  /\ pc[t] = "free"
  /\ buf' = Freed(cur[t].of)
  /\ Goto(t, "finish")
  /\ UNCHANGED <<active, largest, source, locked, queued, stale, numDone, flag,
                 reemits, cur, adding, doneNow, pos>>

-----------------------------------------------------------------------------
(* SourceContinuousPhotonTaskContext: every packet enters the grid in some *)
(* subgrid and goes to the buffer of the block for that subgrid, which is  *)
(* copied when it is full; then the task for the copy is added.            *)
StartEmission(t) ==
  /\ Executes(t, "continuous")
  /\ pos' = [pos EXCEPT ![t] = <<cur[t].of.n, 0>>]
  /\ Goto(t, "emit")
  /\ UNCHANGED <<memory, source, locked, queued, stale, numDone, flag, reemits,
                 cur, adding, doneNow>>

EmitPacket(t) ==
  LET k == cur[t].of.block
      b == FreeBuffer(buf)
  IN
  /\ pc[t] = "emit"
  /\ pos[t][1] > 0
  /\ pos' = [pos EXCEPT ![t][1] = @ - 1]
  /\ \E g \in Grid :
       \/ /\ cont[k][g] + 1 < Capacity
          /\ cont' = [cont EXCEPT ![k][g] = @ + 1]
          /\ UNCHANGED <<buf, adding, pc>>
       \/ /\ cont[k][g] + 1 = Capacity
          /\ cont' = [cont EXCEPT ![k][g] = 0]
          /\ buf' = [buf EXCEPT ![b] = [grid |-> g, dir |-> "in", n |-> Capacity]]
          /\ adding' = [adding EXCEPT ![t] = {TraversalTask(b, g)}]
          /\ Goto(t, "emit add")
  /\ UNCHANGED <<active, largest, contLeft, flushed, locked, queued, stale, numDone,
                 flag, reemits, cur, doneNow>>

AddEmitted(t) ==
  /\ pc[t] = "emit add"
  /\ queued' = queued \cup adding[t]
  /\ adding' = [adding EXCEPT ![t] = {}]
  /\ Goto(t, "emit")
  /\ UNCHANGED <<memory, source, locked, stale, numDone, flag, reemits, cur, doneNow, pos>>

EmissionDone(t) ==
  /\ pc[t] = "emit"
  /\ pos[t][1] = 0
  /\ contLeft' = contLeft - cur[t].of.n
  /\ Goto(t, "left")
  /\ UNCHANGED <<memory, cont, flushed, locked, queued, stale, numDone, flag,
                 reemits, cur, adding, doneNow, pos>>

(* Several threads may see that no packets are left; the first one adds    *)
(* the tasks that flush the buffers of all blocks.                         *)
FaultEveryoneFlushes(f) == TRUE   \* Seeded fault: all threads that see it do
FirstToFlush(f) == f = 0

CheckLeft(t) ==
  LET first == contLeft = 0 /\ FirstToFlush(flushed) IN
  /\ pc[t] = "left"
  /\ flushed' = IF contLeft = 0 THEN flushed + 1 ELSE flushed
  /\ pos' = [pos EXCEPT ![t] = <<IF first THEN NGrid + 1 ELSE 0, 0>>]
  /\ Goto(t, IF first THEN "flush" ELSE "finish")
  /\ UNCHANGED <<memory, cont, contLeft, locked, queued, stale, numDone, flag,
                 reemits, cur, adding, doneNow>>

AddFlush(t) ==
  LET b == pos[t][1] IN
  /\ pc[t] = "flush"
  /\ queued' = queued \cup {FlushTask(b)}
  /\ pos' = [pos EXCEPT ![t] = IF b = NGrid + NBlock THEN <<0, 0>> ELSE <<b + 1, 0>>]
  /\ Goto(t, IF b = NGrid + NBlock THEN "finish" ELSE "flush")
  /\ UNCHANGED <<memory, source, locked, stale, numDone, flag, reemits, cur,
                 adding, doneNow>>

(* FlushContinuousPhotonBuffersTaskContext: the buffers of the block, one  *)
(* subgrid after the other; one that has packets is copied, and the task   *)
(* for the copy is added.                                                  *)
Flush(t) ==
  LET k == cur[t].of
      g == pos[t][1] + 1
      b == FreeBuffer(buf)
  IN
  /\ Executes(t, "flush")
  /\ IF cont[k][g] > 0
     THEN /\ buf' = [buf EXCEPT ![b] = [grid |-> g, dir |-> "in", n |-> cont[k][g]]]
          /\ adding' = [adding EXCEPT ![t] = {TraversalTask(b, g)}]
          /\ cont' = [cont EXCEPT ![k][g] = 0]
          /\ Goto(t, "flush add")
     ELSE /\ Goto(t, IF g < NGrid THEN "exec" ELSE "finish")
          /\ UNCHANGED <<buf, adding, cont>>
  /\ pos' = [pos EXCEPT ![t] = IF g < NGrid THEN <<g, 0>> ELSE <<0, 0>>]
  /\ UNCHANGED <<active, largest, contLeft, flushed, locked, queued, stale, numDone,
                 flag, reemits, cur, doneNow>>

AddFlushed(t) ==
  /\ pc[t] = "flush add"
  /\ queued' = queued \cup adding[t]
  /\ adding' = [adding EXCEPT ![t] = {}]
  /\ Goto(t, IF pos[t][1] = 0 THEN "finish" ELSE "exec")
  /\ UNCHANGED <<memory, source, locked, stale, numDone, flag, reemits, cur, doneNow, pos>>

-----------------------------------------------------------------------------
(* The task is stopped and unlocked, and its element of the task vector is *)
(* free again; the dependency stays in the element.                        *)
Finish(t) ==
  /\ pc[t] = "finish"
  /\ locked' = Give(cur[t])
  /\ stale' = stale \cup ({cur[t].dep} \ {None})
  /\ cur' = [cur EXCEPT ![t] = None]
  /\ Goto(t, IF adding[t] = {} THEN "get" ELSE "add")
  /\ UNCHANGED <<memory, source, queued, numDone, flag, reemits, adding, doneNow, pos>>

(* The new tasks are added to the queues, one by one. *)
AddTask(t) ==
  /\ pc[t] = "add"
  /\ \E x \in adding[t] :
       /\ queued' = queued \cup {x}
       /\ adding' = [adding EXCEPT ![t] = @ \ {x}]
       /\ Goto(t, IF adding[t] = {x} THEN "get" ELSE "add")
  /\ UNCHANGED <<memory, source, locked, stale, numDone, flag, reemits, cur, doneNow, pos>>

(* _buffers->is_empty() && num_photon_done.value() == _number_of_photons:  *)
(* two reads, one after the other.                                         *)
TestEmpty(t) ==
  /\ pc[t] = "test"
  /\ Goto(t, IF Used(buf) = {} THEN "count done" ELSE "last")
  /\ UNCHANGED <<memory, source, locked, queued, stale, numDone, flag, reemits,
                 cur, adding, doneNow, pos>>

FaultBuffersOnly(n) == TRUE   \* Seeded fault: the number of packets is not tested
AllDone(n) == n = Target

TestDone(t) ==
  /\ pc[t] = "count done"
  /\ flag' = (flag /\ ~ AllDone(numDone))
  /\ Goto(t, IF AllDone(numDone) THEN "while" ELSE "last")
  /\ UNCHANGED <<memory, source, locked, queued, stale, numDone, reemits, cur,
                 adding, doneNow, pos>>

-----------------------------------------------------------------------------
Step(t) ==
  \/ GetTask(t) \/ GetNothing(t) \/ While(t)
  \/ ReadLargest(t) \/ LaunchFails(t) \/ LaunchNothing(t) \/ LeaveSubgrid(t)
  \/ Launch(t) \/ LaunchDone(t)
  \/ EmitDiscrete(t) \/ Traverse(t) \/ Reemit(t) \/ Count(t) \/ FreeInput(t)
  \/ StartEmission(t) \/ EmitPacket(t) \/ AddEmitted(t) \/ EmissionDone(t)
  \/ CheckLeft(t) \/ AddFlush(t) \/ Flush(t) \/ AddFlushed(t)
  \/ Finish(t) \/ AddTask(t) \/ TestEmpty(t) \/ TestDone(t)

AllExit == \A t \in Thread : pc[t] = "exit"

Next == (\E t \in Thread : Step(t)) \/ (AllExit /\ UNCHANGED vars)

Spec == Init /\ [][Next]_vars

(* Every thread keeps running, and does not overlook the tasks in the      *)
(* queues forever.  (A thread can take a step until it has left, so that   *)
(* the first part is the same as WF_vars(Step(t)).)                        *)
FairSpec ==
  Spec /\ \A t \in Thread :
            /\ []<>(pc[t] = "exit") \/ []<><<Step(t)>>_vars
            /\ SF_vars(GetTask(t))

-----------------------------------------------------------------------------
(* The tasks that exist, with the thread or the queue that has them. *)
Pending == queued \cup UNION {adding[t] : t \in Thread}

(* A thread between the creation of its output and the release of its      *)
(* input buffer: the packets of the input were moved or are done.          *)
Moved(t) == cur[t] # None /\ cur[t].type = "traversal" /\ pc[t] \in {"count", "free"}

(* A batch of the source was not turned into packets yet. *)
Waiting(x) ==
  \/ x \in queued
  \/ \E t \in Thread : cur[t] = x /\ pc[t] \in {"exec", "while", "exit"}

(* The packets of the batches, of the tasks that emit packets one by one,  *)
(* of the buffers of the continuous source, and of the buffers in use.     *)
DiscreteLeft == [s \in Discrete |-> IF Waiting(DiscreteTask(s)) THEN s.n ELSE 0]
ContinuousLeft == [s \in Continuous |-> IF Waiting(ContinuousTask(s)) THEN s.n ELSE 0]
BeingEmitted == [t \in Thread |-> IF pc[t] \in {"emit", "emit add"} THEN pos[t][1] ELSE 0]
InBlocks == [k \in Block |-> Sum(cont[k], Grid)]
InBuffers ==
  [b \in Buffer |-> IF buf[b] = None \/ \E t \in Thread : Moved(t) /\ cur[t].of = b
                    THEN 0 ELSE buf[b].n]

(* No packet is lost or counted twice, whatever is split, copied, merged,  *)
(* launched early or reemitted: packets to be emitted, in the buffers and  *)
(* about to be counted, and the ones counted as done, are all packets.     *)
Conserved ==
  Total(DiscreteLeft) + Total(ContinuousLeft) + Total(BeingEmitted) + Total(InBlocks)
    + Total(InBuffers) + Total(doneNow) + numDone = Emitted + Incoming

(* The memory space is never exhausted, and has room for the next step: a  *)
(* traversal takes a buffer for every direction at most, and one more that *)
(* add_photons starts and that turns out to be empty.  (get_free_buffer    *)
(* has only an assertion, which a release build leaves out.)               *)
Room == Cardinality(Buffer \ Used(buf)) >= 4

(* Every buffer in use has exactly one holder: an active slot of one       *)
(* subgrid, one task in a queue or about to be added, or one thread (the   *)
(* holders have all buffers in use, and there are as many of them).        *)
(* A buffer is never leaked, and never filled or processed by two.         *)
OneHolder ==
  LET slots == {gd \in Grid \X Dir : active[gd[1]][gd[2]] # None}
      tasks == {x \in Pending : x.type \in {"traversal", "reemit"}}
      hands == {t \in Thread : /\ cur[t] # None
                                /\ cur[t].type \in {"traversal", "reemit"}
                                /\ pc[t] # "finish"
                                /\ ~ \E x \in adding[t] : x.of = cur[t].of}
      held  == {active[gd[1]][gd[2]] : gd \in slots} \cup {x.of : x \in tasks}
                 \cup {cur[t].of : t \in hands}
  IN
  /\ held = Used(buf)
  /\ Cardinality(slots) + Cardinality(tasks) + Cardinality(hands) = Cardinality(held)

(* The active buffers of a subgrid nobody works on are neither empty nor   *)
(* full, lead to the right subgrid, and the recorded largest one is the    *)
(* largest: premature launch decides on it and must not overlook packets.  *)
ActiveBuffers ==
  \A g \in Grid : ~ locked[g] =>
    /\ largest[g] = LargestOf(buf, active[g])
    /\ \A d \in Dir : active[g][d] # None =>
         LET b == buf[active[g][d]] IN
         /\ b.n \in 1 .. Capacity - 1
         /\ b.grid = Neighbour(g, d)
         /\ b.dir = InputDirection(d)

(* At most one thread works on a subgrid or on a block of the continuous   *)
(* source: the tasks for it, and premature launch.                         *)
Working(t) ==
  LET x == cur[t] IN
  {l \in Lock : \/ pc[t] \in {"launched", "nothing"} /\ l = pos[t][2]
                \/ x # None /\ \/ x.type = "traversal" /\ pc[t] \in {"exec", "count", "free"}
                                  /\ l = buf[x.of].grid
                               \/ x.type = "continuous" /\ l = x.of.block
                               \/ x.type = "flush" /\ l = x.of}

Exclusive ==
  \A t, u \in Thread : t # u => Working(t) \cap Working(u) = {}

(* When all threads left the loop no buffer is in use, as the code asserts *)
(* ("Number of active buffers"), no lock is taken, and no task is left in  *)
(* a queue or in the hands of a thread: the next iteration starts clean.   *)
ExitClean ==
  AllExit =>
    /\ Used(buf) = {}
    /\ queued = {}
    /\ \A l \in Lock : ~ locked[l]
    /\ \A t \in Thread : cur[t] = None

(* The buffers of the continuous source are flushed by one set of tasks.   *)
FlushOnce ==
  \A t, u \in Thread : pc[t] = "flush" /\ pc[u] = "flush" => t = u

(* When all threads left the loop all packets of the source were sent off. *)
ExitFlushed ==
  AllExit =>
    /\ Used(buf) = {}
    /\ \A k \in Block, g \in Grid : cont[k][g] = 0

(* All packets are propagated until they are done, and the iteration ends. *)
Terminates == <>AllExit
=============================================================================
