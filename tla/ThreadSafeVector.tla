-------------------------- MODULE ThreadSafeVector --------------------------
(***************************************************************************)
(* src/src/ThreadSafeVector.hpp: the lock-free pool that hands out the     *)
(* tasks and the photon buffers of the task-based algorithm.               *)
(*                                                                         *)
(* Every element has an atomic flag (_locks).  A shared counter            *)
(* (_current_index, a size_t that wraps at IndexWidth = 2^64) deals out    *)
(* candidate positions; a thread spins over the positions until its        *)
(* compare-and-swap of the flag succeeds.  _number_taken is kept in a      *)
(* separate atomic operation, after the flag was taken and after it was    *)
(* released, so that it lags behind the flags.                             *)
(*                                                                         *)
(* One action is one atomic operation of a thread.  The clients are the    *)
(* most general legal ones: any thread may ask for an element at any time  *)
(* and any element that was handed out (inUse) may be freed, once, by any  *)
(* thread (tasks and buffers travel between threads).                      *)
(***************************************************************************)
EXTENDS Integers, FiniteSets

CONSTANTS
  Thread,       \* the OpenMP threads
  Size,         \* number of elements, _size
  IndexWidth,   \* number of values of the size_t _current_index
  NoIndex       \* no element (NO_TASK and friends)

ASSUME ThreadAssumption == IsFiniteSet(Thread)
ASSUME SizeAssumption == Size \in Nat \ {0}
ASSUME WidthAssumption == IndexWidth \in Nat /\ IndexWidth >= Size
ASSUME NoIndexAssumption == NoIndex \notin Nat

Index == 0 .. Size - 1

VARIABLES
  locks,          \* [Index -> BOOLEAN], _locks
  current_index,  \* _current_index
  number_taken,   \* _number_taken
  pc,             \* where each thread is in the operation it executes
  slot,           \* the local variable "index" of each thread
  inUse           \* the elements handed out and not yet given back

vars == <<locks, current_index, number_taken, pc, slot, inUse>>

Idle  == "idle"    \* not in an operation of the vector
Check == "check"   \* get_free_element_safe, before it reads _number_taken
Draw  == "draw"    \* about to increment _current_index
Claim == "claim"   \* about to compare-and-swap _locks[slot]
Count == "count"   \* flag taken, _number_taken not incremented yet
Free  == "free"    \* free_element, about to release _locks[slot]
Uncount == "uncount"  \* flag released, _number_taken not decremented yet

Label == {Idle, Check, Draw, Claim, Count, Free, Uncount}

-----------------------------------------------------------------------------
Init ==
  /\ locks = [i \in Index |-> FALSE]
  /\ current_index = 0
  /\ number_taken = 0
  /\ pc = [t \in Thread |-> Idle]
  /\ slot = [t \in Thread |-> NoIndex]
  /\ inUse = {}

(* get_free_element: its assertion on _number_taken is compiled out in a   *)
(* production build, so that the loop is entered whatever its value.       *)
GetFreeElement(t) ==
  /\ pc[t] = Idle
  /\ pc' = [pc EXCEPT ![t] = Draw]
  /\ UNCHANGED <<locks, current_index, number_taken, slot, inUse>>

(* get_free_element_safe *)
GetFreeElementSafe(t) ==
  /\ pc[t] = Idle
  /\ pc' = [pc EXCEPT ![t] = Check]
  /\ UNCHANGED <<locks, current_index, number_taken, slot, inUse>>

(* The test of get_free_element_safe: enter the loop, or return _size      *)
CheckNumberTaken(t) ==
  /\ pc[t] = Check
  /\ pc' = [pc EXCEPT ![t] = IF number_taken < Size THEN Draw ELSE Idle]
  /\ UNCHANGED <<locks, current_index, number_taken, slot, inUse>>

(* Seeded faults.  An operator whose name starts with Fault is the body of *)
(* the definition after it with one plausible slip; no specification uses  *)
(* it.  Here: the loop retries the same position.                          *)
FaultDrawNoIncrement(t) ==
  /\ pc[t] = Draw
  /\ slot' = [slot EXCEPT ![t] = current_index % Size]
  /\ pc' = [pc EXCEPT ![t] = Claim]
  /\ UNCHANGED <<locks, current_index, number_taken, inUse>>

(* index = _current_index.post_increment() % _size *)
DrawIndex(t) ==
  /\ pc[t] = Draw
  /\ slot' = [slot EXCEPT ![t] = current_index % Size]
  /\ current_index' = (current_index + 1) % IndexWidth
  /\ pc' = [pc EXCEPT ![t] = Claim]
  /\ UNCHANGED <<locks, number_taken, inUse>>

(* Seeded fault: a store instead of a compare-and-swap. *)
FaultClaimByStore(t) ==
  /\ pc[t] = Claim
  /\ locks' = [locks EXCEPT ![slot[t]] = TRUE]
  /\ pc' = [pc EXCEPT ![t] = Count]
  /\ UNCHANGED <<current_index, number_taken, slot, inUse>>

(* _locks[index].lock(): a compare-and-swap of false by true *)
ClaimSucceeds(t) ==
  /\ pc[t] = Claim
  /\ ~ locks[slot[t]]
  /\ locks' = [locks EXCEPT ![slot[t]] = TRUE]
  /\ pc' = [pc EXCEPT ![t] = Count]
  /\ UNCHANGED <<current_index, number_taken, slot, inUse>>

ClaimFails(t) ==
  /\ pc[t] = Claim
  /\ locks[slot[t]]
  /\ pc' = [pc EXCEPT ![t] = Draw]
  /\ UNCHANGED <<locks, current_index, number_taken, slot, inUse>>

(* _number_taken.pre_increment(); return index *)
CountElement(t) ==
  /\ pc[t] = Count
  /\ number_taken' = number_taken + 1
  /\ inUse' = inUse \cup {slot[t]}
  /\ slot' = [slot EXCEPT ![t] = NoIndex]
  /\ pc' = [pc EXCEPT ![t] = Idle]
  /\ UNCHANGED <<locks, current_index>>

(* free_element(i) is called: the caller gives up the element *)
FreeElement(t, i) ==
  /\ pc[t] = Idle
  /\ i \in inUse
  /\ inUse' = inUse \ {i}
  /\ slot' = [slot EXCEPT ![t] = i]
  /\ pc' = [pc EXCEPT ![t] = Free]
  /\ UNCHANGED <<locks, current_index, number_taken>>

(* _locks[index].unlock() *)
ReleaseElement(t) ==
  /\ pc[t] = Free
  /\ locks' = [locks EXCEPT ![slot[t]] = FALSE]
  /\ pc' = [pc EXCEPT ![t] = Uncount]
  /\ UNCHANGED <<current_index, number_taken, slot, inUse>>

(* Seeded fault: the decrement is forgotten. *)
FaultUncountNothing(t) ==
  /\ pc[t] = Uncount
  /\ slot' = [slot EXCEPT ![t] = NoIndex]
  /\ pc' = [pc EXCEPT ![t] = Idle]
  /\ UNCHANGED <<locks, current_index, number_taken, inUse>>

(* _number_taken.pre_decrement() *)
UncountElement(t) ==
  /\ pc[t] = Uncount
  /\ number_taken' = number_taken - 1
  /\ slot' = [slot EXCEPT ![t] = NoIndex]
  /\ pc' = [pc EXCEPT ![t] = Idle]
  /\ UNCHANGED <<locks, current_index, inUse>>

(* The operations that are not thread safe run between the parallel        *)
(* regions, when no thread is inside an operation.                         *)
Quiescent == \A t \in Thread : pc[t] = Idle

(* clear: everything is handed back at once, whoever holds it *)
Clear ==
  /\ Quiescent
  /\ locks' = [i \in Index |-> FALSE]
  /\ number_taken' = 0
  /\ current_index' = 0
  /\ inUse' = {}
  /\ UNCHANGED <<pc, slot>>

(* clear_fast resets only the position: it asserts that nothing is in use  *)
ClearFast ==
  /\ Quiescent
  /\ number_taken = 0
  /\ current_index' = 0
  /\ UNCHANGED <<locks, number_taken, pc, slot, inUse>>

(* Seeded fault: the counter is reset although elements stay in use. *)
FaultClearAfter(offset) ==
  /\ Quiescent
  /\ \A i \in Index : i < offset => i \in inUse
  /\ locks' = [i \in Index |-> IF i >= offset THEN FALSE ELSE locks[i]]
  /\ number_taken' = 0
  /\ current_index' = offset % IndexWidth
  /\ inUse' = {i \in inUse : i < offset}
  /\ UNCHANGED <<pc, slot>>

(* clear_after(offset); "We assume all values before the given offset are  *)
(* in use".                                                                *)
ClearAfter(offset) ==
  /\ Quiescent
  /\ \A i \in Index : i < offset => i \in inUse
  /\ locks' = [i \in Index |-> IF i >= offset THEN FALSE ELSE locks[i]]
  /\ number_taken' = offset
  /\ current_index' = offset % IndexWidth
  /\ inUse' = {i \in inUse : i < offset}
  /\ UNCHANGED <<pc, slot>>

(* get_free_elements(n): the first n elements of an unused vector *)
GetFreeElements(n) ==
  /\ Quiescent
  /\ inUse = {}
  /\ n < Size
  /\ locks' = [i \in Index |-> IF i < n THEN TRUE ELSE locks[i]]
  /\ number_taken' = n
  /\ current_index' = n % IndexWidth
  /\ inUse' = {i \in Index : i < n}
  /\ UNCHANGED <<pc, slot>>

(* The steps of an operation in progress, and the calls *)
Operate(t) ==
  \/ CheckNumberTaken(t)
  \/ DrawIndex(t)
  \/ ClaimSucceeds(t)
  \/ ClaimFails(t)
  \/ CountElement(t)
  \/ ReleaseElement(t)
  \/ UncountElement(t)

Call(t) ==
  \/ GetFreeElement(t)
  \/ GetFreeElementSafe(t)
  \/ \E i \in Index : FreeElement(t, i)

Maintain ==
  \/ Clear
  \/ ClearFast
  \/ \E n \in 0 .. Size : ClearAfter(n) \/ GetFreeElements(n)

Next ==
  \/ \E t \in Thread : Operate(t) \/ Call(t)
  \/ Maintain

Spec == Init /\ [][Next]_vars

-----------------------------------------------------------------------------
Locked   == {i \in Index : locks[i]}
At(l)    == {t \in Thread : pc[t] = l}
(* the threads that own the element in their slot *)
Owner    == {t \in Thread : pc[t] \in {Count, Free}}

TypeOK ==
  /\ locks \in [Index -> BOOLEAN]
  /\ current_index \in 0 .. IndexWidth - 1
  /\ number_taken \in Int
  /\ pc \in [Thread -> Label]
  /\ slot \in [Thread -> Index \cup {NoIndex}]
  /\ inUse \in SUBSET Index

(* Exclusive use: the flag of an element is set exactly while one client   *)
(* has it or one thread is on its way to hand it out or to release it, and *)
(* never for two of them at once, whatever the interleaving of the loops   *)
(* of get_free_element with free_element.                                  *)
Exclusive ==
  /\ \A i \in inUse : locks[i]
  /\ \A t \in Owner : slot[t] \in Index /\ locks[slot[t]] /\ slot[t] \notin inUse
  /\ \A t, u \in Owner : t # u => slot[t] # slot[u]
  /\ \A i \in Index : locks[i] => i \in inUse \/ \E t \in Owner : slot[t] = i

(* _number_taken lags behind the flags, but it is exact on what clients    *)
(* have: the elements handed out, plus those inside free_element.  Hence   *)
(* the unsigned counter never wraps below zero, is_empty (_number_taken =  *)
(* 0) never overlooks an element that was handed out, and the counter may  *)
(* exceed the size of the vector by the number of threads in free_element. *)
CounterExact ==
  number_taken = Cardinality(inUse) + Cardinality(At(Free)) + Cardinality(At(Uncount))

(* A failure of get_free_element_safe means that the vector is full up to  *)
(* the elements that other threads are releasing at that moment.           *)
FailureMeansFull ==
  \A t \in At(Check) :
    number_taken >= Size =>
      Cardinality(Locked) + Cardinality(At(Uncount)) >= Size

-----------------------------------------------------------------------------
(* Fairness: a thread that is inside an operation keeps running; nothing   *)
(* forces a client to ask for an element or to give one back.              *)
FairSpec == Spec /\ \A t \in Thread : WF_vars(Operate(t))

(* Progress of the loop: while there are elements to be had, some thread   *)
(* that looks for one finds one.  (Which one is not determined: a single   *)
(* thread may lose every race.)                                            *)
Searching(t) == pc[t] \in {Draw, Claim}

SomeSearchSucceeds ==
  (\E t \in Thread : Searching(t) /\ Locked # Index)
    ~> (\E t \in Thread : pc[t] = Count) \/ Locked = Index
=============================================================================
