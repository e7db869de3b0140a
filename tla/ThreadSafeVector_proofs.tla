----------------------- MODULE ThreadSafeVector_proofs -----------------------
(***************************************************************************)
(* Proofs about ThreadSafeVector, for every number of threads, elements    *)
(* and index values: type correctness, exclusive use of the elements, and  *)
(* the exact lag of the counter _number_taken.                             *)
(***************************************************************************)
EXTENDS ThreadSafeVector, FiniteSetTheorems, TLAPS

(* The remainder of a division is an index. *)
LEMMA ModRange == ASSUME NEW a \in Nat, NEW b \in Nat \ {0}
                  PROVE  a % b \in 0 .. b - 1
  OBVIOUS

(* A thread that works on an element knows which one. *)
SlotOK == \A t \in Thread : pc[t] \in {Claim, Count, Free, Uncount} => slot[t] \in Index

(* All variables keep their types.  (locks and slot only ever mention      *)
(* positions of the vector: index % _size is in range.)                    *)
LEMMA TypeInit == Init => TypeOK /\ SlotOK
<1> SUFFICES ASSUME Init PROVE TypeOK /\ SlotOK
  OBVIOUS
<1>1. 0 \in 0 .. IndexWidth - 1
  BY SizeAssumption, WidthAssumption
<1> QED
  BY <1>1 DEF Init, TypeOK, SlotOK, Label, Idle, Check, Draw, Claim, Count, Free, Uncount

(* Every call, every atomic step of one and every maintenance operation    *)
(* keeps the types.                                                        *)
LEMMA TypeNext == TypeOK /\ SlotOK /\ [Next]_vars => TypeOK' /\ SlotOK'
<1> SUFFICES ASSUME TypeOK, SlotOK, [Next]_vars PROVE TypeOK' /\ SlotOK'
  OBVIOUS
<1> USE DEF TypeOK, SlotOK, Label, Idle, Check, Draw, Claim, Count, Free, Uncount
<1>1. ASSUME NEW t \in Thread, Operate(t) PROVE TypeOK' /\ SlotOK'
  <2>1. CASE CheckNumberTaken(t)
    BY <2>1 DEF CheckNumberTaken
  <2>2. CASE DrawIndex(t)
    <3>1. current_index % Size \in Index
      BY ModRange, SizeAssumption, WidthAssumption DEF Index
    <3>2. (current_index + 1) % IndexWidth \in 0 .. IndexWidth - 1
      BY ModRange, SizeAssumption, WidthAssumption
    <3> QED
      BY <2>2, <3>1, <3>2 DEF DrawIndex
  <2>3. CASE ClaimSucceeds(t)
    BY <2>3 DEF ClaimSucceeds
  <2>4. CASE ClaimFails(t)
    BY <2>4 DEF ClaimFails
  <2>5. CASE CountElement(t)
    BY <2>5 DEF CountElement
  <2>6. CASE ReleaseElement(t)
    BY <2>6 DEF ReleaseElement
  <2>7. CASE UncountElement(t)
    BY <2>7 DEF UncountElement
  <2> QED
    BY <1>1, <2>1, <2>2, <2>3, <2>4, <2>5, <2>6, <2>7 DEF Operate
<1>2. ASSUME NEW t \in Thread, Call(t) PROVE TypeOK' /\ SlotOK'
  BY <1>2 DEF Call, GetFreeElement, GetFreeElementSafe, FreeElement
<1>3. CASE Clear
  BY <1>3, SizeAssumption, WidthAssumption DEF Clear, Quiescent
<1>4. CASE ClearFast
  BY <1>4, SizeAssumption, WidthAssumption DEF ClearFast, Quiescent
<1>5. ASSUME NEW n \in 0 .. Size, ClearAfter(n) \/ GetFreeElements(n)
      PROVE  TypeOK' /\ SlotOK'
  <2>1. n % IndexWidth \in 0 .. IndexWidth - 1
    BY ModRange, SizeAssumption, WidthAssumption
  <2>2. SlotOK'
    BY <1>5 DEF ClearAfter, GetFreeElements, Quiescent
  <2>3. n \in Int
    BY SizeAssumption
  <2>4. locks' \in [Index -> BOOLEAN]
    <3>1. CASE ClearAfter(n)
      BY <3>1, Zenon DEF ClearAfter
    <3>2. CASE GetFreeElements(n)
      BY <3>2, Zenon DEF GetFreeElements
    <3> QED
      BY <1>5, <3>1, <3>2
  <2>5. inUse' \in SUBSET Index
    BY <1>5 DEF ClearAfter, GetFreeElements
  <2> QED
    BY <1>5, <2>1, <2>2, <2>3, <2>4, <2>5 DEF ClearAfter, GetFreeElements
<1>6. CASE UNCHANGED vars
  BY <1>6 DEF vars
<1> QED
  BY <1>1, <1>2, <1>3, <1>4, <1>5, <1>6 DEF Next, Maintain

(* The types hold in every state: in particular the index that             *)
(* get_free_element draws is always one of the vector.                     *)
THEOREM TypeCorrect == Spec => [](TypeOK /\ SlotOK)
  BY TypeInit, TypeNext, PTL DEF Spec

-----------------------------------------------------------------------------
(* Exclusive use is inductive together with the types: only a successful   *)
(* compare-and-swap makes a thread an owner, and it needs a clear flag.    *)
LEMMA ExclusiveInit == Init => Exclusive
  BY DEF Init, Exclusive, Owner, Idle, Count, Free

(* No step of any thread, nor clear or its relatives, breaks exclusive use. *)
LEMMA ExclusiveNext ==
  TypeOK /\ SlotOK /\ Exclusive /\ [Next]_vars => Exclusive'
<1> SUFFICES ASSUME TypeOK, SlotOK, Exclusive, [Next]_vars PROVE Exclusive'
  OBVIOUS
<1> USE DEF Exclusive, Owner, TypeOK, SlotOK
<1> USE DEF Idle, Check, Draw, Claim, Count, Free, Uncount
<1>1. ASSUME NEW t \in Thread, Operate(t) PROVE Exclusive'
  <2>1. CASE CheckNumberTaken(t)
    BY <2>1 DEF CheckNumberTaken
  <2>2. CASE DrawIndex(t)
    BY <2>2 DEF DrawIndex
  <2>3. CASE ClaimSucceeds(t)
    BY <2>3 DEF ClaimSucceeds
  <2>4. CASE ClaimFails(t)
    BY <2>4 DEF ClaimFails
  <2>5. CASE CountElement(t)
    BY <2>5 DEF CountElement
  <2>6. CASE ReleaseElement(t)
    BY <2>6 DEF ReleaseElement
  <2>7. CASE UncountElement(t)
    BY <2>7 DEF UncountElement
  <2> QED
    BY <1>1, <2>1, <2>2, <2>3, <2>4, <2>5, <2>6, <2>7 DEF Operate
<1>2. ASSUME NEW t \in Thread, Call(t) PROVE Exclusive'
  BY <1>2 DEF Call, GetFreeElement, GetFreeElementSafe, FreeElement
<1>3. CASE Clear
  BY <1>3 DEF Clear, Quiescent
<1>4. CASE ClearFast
  BY <1>4 DEF ClearFast, Quiescent
<1>5. ASSUME NEW n \in 0 .. Size, ClearAfter(n) PROVE Exclusive'
  <2>1. \A u \in Thread : pc[u] = Idle /\ pc'[u] = Idle
    BY <1>5 DEF ClearAfter, Quiescent
  <2>2. \A i \in Index : i < n \/ i >= n
    BY DEF Index
  <2>3. \A i \in Index : i < n => (locks'[i] <=> locks[i]) /\ (i \in inUse' <=> i \in inUse)
    BY <1>5 DEF ClearAfter, Index
  <2>4. \A i \in Index : i >= n => ~ locks'[i] /\ i \notin inUse'
    BY <1>5 DEF ClearAfter, Index
  <2>5. inUse' \subseteq Index
    BY <1>5 DEF ClearAfter
  <2> QED
    BY <2>1, <2>2, <2>3, <2>4, <2>5
<1>6. ASSUME NEW n \in 0 .. Size, GetFreeElements(n) PROVE Exclusive'
  BY <1>6 DEF GetFreeElements, Quiescent, Index
<1>7. CASE UNCHANGED vars
  BY <1>7 DEF vars
<1> QED
  BY <1>1, <1>2, <1>3, <1>4, <1>5, <1>6, <1>7 DEF Next, Maintain

(* An element is never in the hands of two clients, nor of a client and of *)
(* a thread inside get_free_element or free_element.                       *)
THEOREM ExclusiveUse == Spec => []Exclusive
<1>1. Init /\ [][Next]_vars => [](TypeOK /\ SlotOK)
  BY TypeCorrect DEF Spec
<1> QED
  BY <1>1, ExclusiveInit, ExclusiveNext, PTL DEF Spec

-----------------------------------------------------------------------------
(* The counter.  One thread moves at a time, so that each step changes the *)
(* three sets that _number_taken counts by at most one element each.       *)
LEMMA FiniteParts ==
  ASSUME TypeOK
  PROVE  /\ IsFiniteSet(inUse) /\ Cardinality(inUse) \in Nat
         /\ \A l : IsFiniteSet(At(l)) /\ Cardinality(At(l)) \in Nat
         /\ number_taken \in Int
<1>0. number_taken \in Int
  BY DEF TypeOK
<1>1. IsFiniteSet(Index)
  BY FS_Interval, SizeAssumption DEF Index
<1>2. inUse \in SUBSET Index
  BY DEF TypeOK
<1>3. IsFiniteSet(inUse)
  BY <1>1, <1>2, FS_Subset
<1>4. ASSUME NEW l PROVE IsFiniteSet(At(l)) /\ Cardinality(At(l)) \in Nat
  <2>1. At(l) \in SUBSET Thread
    BY DEF At
  <2>2. IsFiniteSet(At(l))
    BY <2>1, ThreadAssumption, FS_Subset
  <2> QED
    BY <2>2, FS_CardinalityType
<1> QED
  BY <1>0, <1>3, <1>4, FS_CardinalityType

(* A thread that goes from label a to label b: what it leaves, what it     *)
(* joins, and any other label c.                                           *)
LEMMA Moves ==
  ASSUME TypeOK, NEW t \in Thread, NEW a, NEW b,
         pc[t] = a, pc' = [pc EXCEPT ![t] = b], a # b
  PROVE  /\ Cardinality(At(a)') = Cardinality(At(a)) - 1
         /\ Cardinality(At(b)') = Cardinality(At(b)) + 1
<1>1. At(a)' = At(a) \ {t} /\ t \in At(a)
  BY DEF At, TypeOK
<1>2. At(b)' = At(b) \cup {t} /\ t \notin At(b)
  BY DEF At, TypeOK
<1>3. Cardinality(At(a)') = Cardinality(At(a)) - 1
  BY <1>1, FiniteParts, FS_RemoveElement
<1>4. Cardinality(At(b)') = Cardinality(At(b)) + 1
  BY <1>2, FiniteParts, FS_AddElement
<1> QED
  BY <1>3, <1>4

(* A set of threads at a label that no thread reaches or leaves. *)
LEMMA Stays ==
  ASSUME TypeOK, NEW t \in Thread, NEW b, NEW c,
         pc[t] # c, pc' = [pc EXCEPT ![t] = b], b # c
  PROVE  Cardinality(At(c)') = Cardinality(At(c))
<1>1. At(c)' = At(c)
  BY DEF At, TypeOK
<1> QED
  BY <1>1

(* Between the parallel regions nobody is inside free_element. *)
LEMMA QuiescentParts ==
  ASSUME Quiescent
  PROVE  /\ At(Free) = {} /\ At(Uncount) = {}
         /\ Cardinality(At(Free)) = 0 /\ Cardinality(At(Uncount)) = 0
<1>1. At(Free) = {} /\ At(Uncount) = {}
  BY DEF Quiescent, At, Idle, Free, Uncount
<1> QED
  BY <1>1, FS_EmptySet

(* The counter is zero in a new vector. *)
LEMMA CounterInit == Init => CounterExact
<1> SUFFICES ASSUME Init PROVE CounterExact
  OBVIOUS
<1>1. Quiescent /\ inUse = {} /\ number_taken = 0
  BY DEF Init, Quiescent
<1> QED
  BY <1>1, QuiescentParts, FS_EmptySet DEF CounterExact

(* Every step keeps the counter equal to the elements of clients plus the  *)
(* threads on the way into or out of an element.                           *)
LEMMA CounterNext ==
  TypeOK /\ SlotOK /\ Exclusive /\ CounterExact /\ [Next]_vars => CounterExact'
<1> SUFFICES ASSUME TypeOK, SlotOK, Exclusive, CounterExact, [Next]_vars
             PROVE  CounterExact'
  OBVIOUS
<1> USE FiniteParts
<1>0. /\ Free # Uncount /\ Free # Idle /\ Uncount # Idle
      /\ \A l \in {Check, Draw, Claim, Count} : l # Free /\ l # Uncount /\ l # Idle
      /\ Check # Draw /\ Check # Claim /\ Check # Count
      /\ Draw # Claim /\ Draw # Count /\ Claim # Count
  BY DEF Idle, Check, Draw, Claim, Count, Free, Uncount
<1>1. ASSUME NEW t \in Thread, NEW a, NEW b, a # b,
             a # Free, a # Uncount, b # Free, b # Uncount,
             pc[t] = a, pc' = [pc EXCEPT ![t] = b],
             UNCHANGED <<inUse, number_taken>>
      PROVE  CounterExact'
  <2>1. Cardinality(At(Free)') = Cardinality(At(Free))
    BY <1>1, Stays
  <2>2. Cardinality(At(Uncount)') = Cardinality(At(Uncount))
    BY <1>1, Stays
  <2> QED
    BY <1>1, <2>1, <2>2 DEF CounterExact
<1>2. ASSUME NEW t \in Thread, Operate(t) PROVE CounterExact'
  <2>1. CASE CheckNumberTaken(t)
    BY <1>0, <1>1, <2>1 DEF CheckNumberTaken
  <2>2. CASE DrawIndex(t)
    BY <1>0, <1>1, <2>2 DEF DrawIndex
  <2>3. CASE ClaimSucceeds(t)
    BY <1>0, <1>1, <2>3 DEF ClaimSucceeds
  <2>4. CASE ClaimFails(t)
    BY <1>0, <1>1, <2>4 DEF ClaimFails
  <2>5. CASE CountElement(t)
    <3>1. slot[t] \notin inUse
      BY <2>5 DEF CountElement, Exclusive, Owner
    <3>2. Cardinality(inUse') = Cardinality(inUse) + 1
      BY <2>5, <3>1, FS_AddElement DEF CountElement
    <3>3. /\ Cardinality(At(Free)') = Cardinality(At(Free))
          /\ Cardinality(At(Uncount)') = Cardinality(At(Uncount))
      BY <1>0, <2>5, Stays DEF CountElement
    <3>4. number_taken' = number_taken + 1
      BY <2>5 DEF CountElement
    <3> QED
      BY <3>2, <3>3, <3>4 DEF CounterExact
  <2>6. CASE ReleaseElement(t)
    <3>1. /\ Cardinality(At(Free)') = Cardinality(At(Free)) - 1
          /\ Cardinality(At(Uncount)') = Cardinality(At(Uncount)) + 1
      BY <1>0, <2>6, Moves DEF ReleaseElement
    <3>2. UNCHANGED <<inUse, number_taken>>
      BY <2>6 DEF ReleaseElement
    <3> QED
      BY <3>1, <3>2 DEF CounterExact
  <2>7. CASE UncountElement(t)
    <3>1. /\ Cardinality(At(Free)') = Cardinality(At(Free))
          /\ Cardinality(At(Uncount)') = Cardinality(At(Uncount)) - 1
      BY <1>0, <2>7, Moves, Stays DEF UncountElement
    <3>2. inUse' = inUse /\ number_taken' = number_taken - 1
      BY <2>7 DEF UncountElement
    <3> QED
      BY <3>1, <3>2 DEF CounterExact
  <2> QED
    BY <1>2, <2>1, <2>2, <2>3, <2>4, <2>5, <2>6, <2>7 DEF Operate
<1>3. ASSUME NEW t \in Thread, Call(t) PROVE CounterExact'
  <2>1. CASE GetFreeElement(t) \/ GetFreeElementSafe(t)
    BY <1>0, <1>1, <2>1 DEF GetFreeElement, GetFreeElementSafe
  <2>2. ASSUME NEW i \in Index, FreeElement(t, i) PROVE CounterExact'
    <3>1. Cardinality(inUse') = Cardinality(inUse) - 1
      BY <2>2, FS_RemoveElement DEF FreeElement
    <3>2. /\ Cardinality(At(Free)') = Cardinality(At(Free)) + 1
          /\ Cardinality(At(Uncount)') = Cardinality(At(Uncount))
      BY <1>0, <2>2, Moves, Stays DEF FreeElement
    <3>3. number_taken' = number_taken
      BY <2>2 DEF FreeElement
    <3> QED
      BY <3>1, <3>2, <3>3 DEF CounterExact
  <2> QED
    BY <1>3, <2>1, <2>2 DEF Call
<1>4. ASSUME Quiescent, pc' = pc, NEW n \in Nat, number_taken' = n,
             Cardinality(inUse') = n
      PROVE  CounterExact'
  <2>1. Cardinality(At(Free)') = 0 /\ Cardinality(At(Uncount)') = 0
    <3>1. At(Free)' = At(Free) /\ At(Uncount)' = At(Uncount)
      BY <1>4 DEF At
    <3> QED
      BY <1>4, <3>1, QuiescentParts
  <2>2. number_taken' = Cardinality(inUse') + 0 + 0
    BY <1>4
  <2> QED
    BY <2>1, <2>2 DEF CounterExact
<1>5. CASE Clear
  BY <1>4, <1>5, FS_EmptySet DEF Clear
<1>6. CASE ClearFast
  <2>1. Cardinality(inUse') = number_taken'
    BY <1>6, QuiescentParts DEF ClearFast, CounterExact
  <2> QED
    BY <1>4, <1>6, <2>1 DEF ClearFast
<1>7. ASSUME NEW n \in 0 .. Size, ClearAfter(n) \/ GetFreeElements(n)
      PROVE  CounterExact'
  <2>1. inUse' = 0 .. n - 1
    <3>1. n <= Size /\ \A i : i \in 0 .. n - 1 <=> i \in Index /\ i < n
      BY SizeAssumption DEF Index
    <3>2. CASE ClearAfter(n)
      <4>1. \A i : i \in inUse' <=> i \in inUse /\ i < n
        BY <3>2 DEF ClearAfter
      <4>2. \A i : i \in inUse => i \in Index
        BY DEF TypeOK
      <4>3. \A i : i \in Index /\ i < n => i \in inUse
        BY <3>2 DEF ClearAfter
      <4> QED
        BY <3>1, <4>1, <4>2, <4>3
    <3>3. CASE GetFreeElements(n)
      BY <3>1, <3>3 DEF GetFreeElements
    <3> QED
      BY <1>7, <3>2, <3>3
  <2>2. n \in Nat /\ Cardinality(0 .. n - 1) = n
    BY FS_Interval, SizeAssumption
  <2>3. number_taken' = n /\ pc' = pc /\ Quiescent
    BY <1>7 DEF ClearAfter, GetFreeElements
  <2> QED
    BY <1>4, <2>1, <2>2, <2>3
<1>8. CASE UNCHANGED vars
  BY <1>8 DEF vars, CounterExact, At
<1> QED
  BY <1>2, <1>3, <1>5, <1>6, <1>7, <1>8 DEF Next, Maintain

(* _number_taken is exactly the number of elements that clients have or    *)
(* are giving back.                                                        *)
THEOREM CounterIsExact == Spec => []CounterExact
<1>1. Spec => [](TypeOK /\ SlotOK) /\ []Exclusive
  BY TypeCorrect, ExclusiveUse, PTL
<1> QED
  BY <1>1, CounterInit, CounterNext, PTL DEF Spec

-----------------------------------------------------------------------------
(* The elements that are being released are as many as the threads that    *)
(* release them, because no two threads own the same element.              *)
LEMMA ReleasedElements ==
  ASSUME TypeOK, Exclusive
  PROVE  LET Released == {slot[t] : t \in At(Free)}
         IN  /\ IsFiniteSet(Released)
             /\ Cardinality(Released) = Cardinality(At(Free))
             /\ Released \subseteq Locked /\ Released \cap inUse = {}
<1> DEFINE Released == {slot[t] : t \in At(Free)}
           f == [t \in At(Free) |-> slot[t]]
<1>1. At(Free) \subseteq Owner
  BY DEF At, Owner
<1>2. Released \subseteq Locked /\ Released \cap inUse = {}
  BY <1>1 DEF Exclusive, Locked
<1>3. f \in Bijection(At(Free), Released)
  <2>1. \A t, u \in At(Free) : slot[t] = slot[u] => t = u
    BY <1>1 DEF Exclusive
  <2> QED
    BY <2>1 DEF Bijection, Injection, Surjection, IsInjective
<1>4. IsFiniteSet(Released) /\ Cardinality(Released) = Cardinality(At(Free))
  <2> HIDE DEF f, Released
  <2>1. ExistsBijection(At(Free), Released)
    BY <1>3 DEF ExistsBijection
  <2> QED
    BY <2>1, FiniteParts, FS_Bijection
<1> QED
  BY <1>2, <1>4

(* _number_taken never exceeds the flags that are set by more than the     *)
(* threads between the two atomic operations of free_element.              *)
LEMMA CounterBound ==
  ASSUME TypeOK, Exclusive, CounterExact
  PROVE  number_taken <= Cardinality(Locked) + Cardinality(At(Uncount))
<1> DEFINE Released == {slot[t] : t \in At(Free)}
<1>1. /\ IsFiniteSet(Released) /\ Cardinality(Released) = Cardinality(At(Free))
      /\ Released \subseteq Locked /\ Released \cap inUse = {}
  BY ReleasedElements
<1> HIDE DEF Released
<1>2. inUse \subseteq Locked
  BY DEF TypeOK, Exclusive, Locked
<1>3. IsFiniteSet(Locked)
  <2>1. IsFiniteSet(Index) /\ Locked \in SUBSET Index
    BY FS_Interval, SizeAssumption DEF Index, Locked
  <2> QED
    BY <2>1, FS_Subset
<1>4. Cardinality(inUse \cup Released) = Cardinality(inUse) + Cardinality(Released)
  <2>1. Cardinality(inUse \cap Released) = 0
    BY <1>1, FS_EmptySet
  <2>2. Cardinality(inUse \cup Released)
          = Cardinality(inUse) + Cardinality(Released) - Cardinality(inUse \cap Released)
    BY <1>1, FiniteParts, FS_Union, Zenon
  <2>3. Cardinality(inUse) \in Nat /\ Cardinality(Released) \in Nat
    BY <1>1, FiniteParts
  <2> QED
    BY <2>1, <2>2, <2>3
<1>5. Cardinality(inUse \cup Released) <= Cardinality(Locked)
  BY <1>1, <1>2, <1>3, FS_Subset
<1>6. /\ Cardinality(inUse) \in Nat /\ Cardinality(At(Free)) \in Nat
      /\ Cardinality(At(Uncount)) \in Nat /\ Cardinality(Locked) \in Nat
  BY <1>3, FiniteParts, FS_CardinalityType
<1> QED
  BY <1>1, <1>4, <1>5, <1>6 DEF CounterExact

(* Hence the unsigned counter _number_taken never wraps: it is not         *)
(* decreased below zero, and it is above the size of the vector by no more *)
(* than the threads that have released an element in free_element and did  *)
(* not count it off yet, which are some of the threads.  And is_empty (the *)
(* counter is zero) means that no client has an element.                   *)
THEOREM CounterNeverWraps ==
  Spec => [](/\ number_taken \in 0 .. Size + Cardinality(At(Uncount))
             /\ Cardinality(At(Uncount)) <= Cardinality(Thread)
             /\ number_taken = 0 => inUse = {})
<1>1. ASSUME TypeOK, Exclusive, CounterExact
      PROVE  /\ number_taken \in 0 .. Size + Cardinality(At(Uncount))
             /\ Cardinality(At(Uncount)) <= Cardinality(Thread)
             /\ number_taken = 0 => inUse = {}
  <2>1. /\ Cardinality(inUse) \in Nat /\ Cardinality(At(Free)) \in Nat
        /\ Cardinality(At(Uncount)) \in Nat
    BY <1>1, FiniteParts
  <2>2. Cardinality(Locked) <= Size /\ Cardinality(Locked) \in Nat
    <3>1. IsFiniteSet(Index) /\ Cardinality(Index) = Size
      BY FS_Interval, SizeAssumption DEF Index
    <3>2. Locked \subseteq Index
      BY DEF Locked
    <3> QED
      BY <3>1, <3>2, FS_Subset, FS_CardinalityType
  <2>3. number_taken <= Cardinality(Locked) + Cardinality(At(Uncount))
    BY <1>1, CounterBound
  <2>4. number_taken \in 0 .. Size + Cardinality(At(Uncount))
    BY <1>1, <2>1, <2>2, <2>3, SizeAssumption DEF CounterExact
  <2>5. Cardinality(At(Uncount)) <= Cardinality(Thread)
    <3>1. At(Uncount) \subseteq Thread
      BY DEF At
    <3> QED
      BY <3>1, ThreadAssumption, FS_Subset
  <2>6. number_taken = 0 => inUse = {}
    BY <1>1, <2>1, FiniteParts, FS_EmptySet DEF CounterExact
  <2> QED
    BY <2>4, <2>5, <2>6
<1> QED
  BY <1>1, TypeCorrect, ExclusiveUse, CounterIsExact, PTL

(* When get_free_element_safe gives up, the vector is full up to the       *)
(* elements that other threads are releasing at that moment.               *)
THEOREM FailureIsFull == Spec => []FailureMeansFull
<1>1. TypeOK /\ Exclusive /\ CounterExact => FailureMeansFull
  <2> SUFFICES ASSUME TypeOK, Exclusive, CounterExact, number_taken >= Size
               PROVE  Cardinality(Locked) + Cardinality(At(Uncount)) >= Size
    BY DEF FailureMeansFull
  <2>1. IsFiniteSet(Locked)
    <3>1. IsFiniteSet(Index) /\ Locked \in SUBSET Index
      BY FS_Interval, SizeAssumption DEF Index, Locked
    <3> QED
      BY <3>1, FS_Subset
  <2>2. Cardinality(Locked) \in Nat /\ Cardinality(At(Uncount)) \in Nat
    BY <2>1, FiniteParts, FS_CardinalityType
  <2> QED
    BY <2>2, CounterBound, SizeAssumption DEF TypeOK
<1> QED
  BY <1>1, TypeCorrect, ExclusiveUse, CounterIsExact, PTL
=============================================================================
