----------------------- MODULE PhotonPropagation_proofs -----------------------
(***************************************************************************)
(* Proofs about PhotonPropagation, for any number of threads, subgrids and *)
(* buffers, any capacity, and any source.                                  *)
(*                                                                         *)
(* FlushOnce follows from the counter alone.  The other theorems rest on   *)
(* one inductive invariant, IInv: where a thread is says what it has in    *)
(* its hands (Control), a lock that a thread needs is taken and needed by  *)
(* that thread only (Locking), and every buffer in use is with one holder, *)
(* in the form in which that holder needs it (InMemory).  None of the      *)
(* three is inductive on its own: that the buffers of a slot lead to the   *)
(* right subgrid is what makes the task of a launched buffer wait for the  *)
(* right lock, and the lock is why two threads do not fill one slot.       *)
(*                                                                         *)
(* get_free_buffer does not say that there is no buffer left, so that the  *)
(* theorems are about behaviours in which there is one for the next step   *)
(* (Room, an invariant of the run photons).                                *)
(*                                                                         *)
(* The last parts are about the packets.  The library defines a sum by a   *)
(* recursive function that takes an arbitrary element out of a set;        *)
(* induction over sets is the choice of a least counterexample here, by    *)
(* the wellfounded order of finite sets.  A second inductive invariant,    *)
(* CInv, needs besides IInv that a batch of the source is in one place     *)
(* (BatchesOnce), or it would be emitted twice, that only a thread that    *)
(* counts has something to count (Amounts), and that only a reemission     *)
(* empties a buffer (Loaded): a buffer in use has packets or a thread.     *)
(* Every step leaves the sum of all parts, Balance, as it is.              *)
(***************************************************************************)
EXTENDS PhotonPropagation, FiniteSetTheorems, WellFoundedInduction, TLAPS

-----------------------------------------------------------------------------
(* Several threads may see that all packets of the continuous source are   *)
(* there, but only the first one sets off the flush.                       *)
Flushing ==
  /\ flushed \in Nat
  /\ DOMAIN pc = Thread
  /\ \A t \in Thread : pc[t] = "flush" => flushed > 0
  /\ FlushOnce

(* Nothing is flushed in the beginning. *)
LEMMA FlushingInit == Init => Flushing
  BY DEF Init, Flushing, FlushOnce

(* A thread starts to flush only from a count of zero, which it raises.    *)
LEMMA FlushingNext == Flushing /\ [Next]_vars => Flushing'
<1> SUFFICES ASSUME Flushing, [Next]_vars PROVE Flushing'
  OBVIOUS
<1> USE DEF Flushing, FlushOnce
<1>1. ASSUME NEW t \in Thread, NEW l, pc' = [pc EXCEPT ![t] = l],
             l # "flush" \/ pc[t] = "flush", flushed' = flushed
      PROVE  Flushing'
  BY <1>1
<1>2. ASSUME NEW t \in Thread, CheckLeft(t) PROVE Flushing'
  <2>1. CASE contLeft = 0 /\ flushed = 0
    BY <1>2, <2>1 DEF CheckLeft, FirstToFlush, Goto
  <2>2. CASE ~ (contLeft = 0 /\ flushed = 0)
    BY <1>2, <2>2 DEF CheckLeft, FirstToFlush, Goto
  <2> QED
    BY <2>1, <2>2
<1>3. ASSUME NEW t \in Thread, EmitPacket(t) PROVE Flushing'
  BY <1>3 DEF EmitPacket, Goto
<1>4. ASSUME NEW t \in Thread, GetTask(t) \/ GetNothing(t) \/ While(t) \/ ReadLargest(t)
        \/ LaunchFails(t) \/ LaunchNothing(t) \/ LeaveSubgrid(t) \/ Launch(t) \/ LaunchDone(t)
        \/ EmitDiscrete(t) \/ Traverse(t) \/ Reemit(t) \/ Count(t) \/ FreeInput(t)
        \/ StartEmission(t) \/ AddEmitted(t) \/ EmissionDone(t)
        \/ AddFlush(t) \/ AddFlushed(t) \/ Finish(t) \/ AddTask(t) \/ TestEmpty(t) \/ TestDone(t)
      PROVE  Flushing'
  <2>1. /\ flushed' = flushed
        /\ \E l : /\ pc' = [pc EXCEPT ![t] = l]
                  /\ l # "flush" \/ pc[t] = "flush"
    BY <1>4, ZenonT(60) DEF GetTask, GetNothing, While, ReadLargest, LaunchFails, LaunchNothing,
      LeaveSubgrid, NextSubgrid, Launch, LaunchDone, EmitDiscrete, Traverse, Reemit, Count, FreeInput,
      StartEmission, AddEmitted, EmissionDone, AddFlush, AddFlushed, Finish, AddTask, TestEmpty, TestDone, Goto, source
  <2> QED
    BY <2>1, <1>1
<1>5. ASSUME NEW t \in Thread, Flush(t) PROVE Flushing'
  BY <1>5 DEF Flush, Goto
<1>6. CASE UNCHANGED vars
  BY <1>6 DEF vars
<1> QED
  BY <1>2, <1>3, <1>4, <1>5, <1>6 DEF Next, Step

(* The buffers of the continuous source are flushed by one set of tasks:   *)
(* however the counter of the packets reaches zero and whoever sees it, at *)
(* most one thread adds the tasks (property FlushOnce).                    *)
THEOREM OneFlush == Spec => []FlushOnce
<1>1. Flushing => FlushOnce
  BY DEF Flushing
<1> QED
  BY FlushingInit, FlushingNext, <1>1, PTL DEF Spec

-----------------------------------------------------------------------------
(* The memory space. *)

(* A set of natural numbers has a smallest one: of the intervals from 0 to *)
(* its elements one has no other as a subset.                              *)
LEMMA MinIsLeast ==
  ASSUME NEW S \in SUBSET Nat, S # {}
  PROVE  Min(S) \in S /\ \A y \in S : Min(S) <= y
<1> DEFINE Below == {0 .. x : x \in S}
<1>1. Below \subseteq FiniteSubsetsOf(Nat) /\ Below # {}
  <2>1. \A x \in S : 0 .. x \subseteq Nat /\ IsFiniteSet(0 .. x)
    BY FS_Interval
  <2> QED
    BY <2>1 DEF FiniteSubsetsOf
<1>2. PICK x \in S : \A y \in S : ~ (<<0 .. y, 0 .. x>> \in StrictSubsetOrdering(Nat))
  <2> HIDE DEF Below
  <2>1. \E X \in Below : \A Y \in Below : ~ (<<Y, X>> \in StrictSubsetOrdering(Nat))
    BY <1>1, WFMin, FS_StrictSubsetOrderingWellFounded
  <2> QED
    BY <2>1 DEF Below
<1>3. ASSUME NEW y \in S PROVE x <= y
  <2>1. SUFFICES ASSUME y < x PROVE FALSE
    OBVIOUS
  <2>2. 0 .. y \subseteq 0 .. x /\ x \in 0 .. x /\ x \notin 0 .. y
    BY <2>1
  <2>3. 0 .. y # 0 .. x
    BY <2>2
  <2>4. 0 .. y \in SUBSET Nat /\ 0 .. x \in SUBSET Nat
    OBVIOUS
  <2>5. <<0 .. y, 0 .. x>> \in StrictSubsetOrdering(Nat)
    BY <2>2, <2>3, <2>4, Zenon DEF StrictSubsetOrdering
  <2> QED
    BY <2>5, <1>2
<1> QED
  BY <1>3 DEF Min

(* As long as there is a free buffer, get_free_buffer returns one. *)
LEMMA FreeIsFree ==
  ASSUME NEW m, Buffer \ Used(m) # {}
  PROVE  FreeBuffer(m) \in Buffer /\ FreeBuffer(m) \notin Used(m) /\ m[FreeBuffer(m)] = None
<1>1. Buffer \in SUBSET Nat
  BY SizeAssumption DEF Buffer
<1> QED
  BY <1>1, MinIsLeast DEF FreeBuffer, Used

(* The free buffers, the contents of the memory space, and of the slots. *)
Free(m) == Buffer \ Used(m)
Memory == [Buffer -> PhotonBuffer \cup {None}]
Slots == [Dir -> Buffer \cup {None}]

(* The buffers in the slots of a subgrid. *)
InSlots(act) == {b \in Buffer : \E d \in Dir : act[d] = b}

(* What a slot of subgrid g for direction d may have in it: a buffer with  *)
(* room, on its way to the neighbour.                                      *)
Filling(x, g, d) ==
  /\ x \in PhotonBuffer /\ x.n \in 1 .. Capacity - 1
  /\ x.grid = Neighbour(g, d) /\ x.dir = InputDirection(d)

(* All slots of subgrid g are so. *)
Filled(m, act, g) == \A d \in Dir : act[d] # None => Filling(m[act[d]], g, d)

(* What a traversal of subgrid g has done so far, if the buffers K have    *)
(* other holders.                                                          *)
Storing(s, g, K, m0) ==
  /\ s.buf \in Memory /\ s.act \in Slots /\ s.full \subseteq Buffer
  /\ Filled(s.buf, s.act, g)
  /\ Used(s.buf) = K \cup InSlots(s.act) \cup s.full
  /\ K \cap InSlots(s.act) = {} /\ K \cap s.full = {} /\ s.full \cap InSlots(s.act) = {}
  /\ \A b \in K : s.buf[b] = m0[b]

(* The free buffers can be counted, and one more in use is one less of them. *)
LEMMA FreeCount ==
  ASSUME NEW m, NEW m2, NEW b \in Buffer, Used(m2) \subseteq Used(m) \cup {b}
  PROVE  Cardinality(Free(m2)) \in Nat /\ Cardinality(Free(m)) \in Nat /\ Cardinality(Free(m2)) >= Cardinality(Free(m)) - 1
<1>1. IsFiniteSet(Buffer)
  <2>1. 1 \in Int /\ NBuffer \in Int
    BY SizeAssumption
  <2> QED
    BY <2>1, FS_Interval, Zenon DEF Buffer
<1>2. IsFiniteSet(Free(m)) /\ IsFiniteSet(Free(m2)) /\ IsFiniteSet(Free(m) \ {b})
  BY <1>1, FS_Subset, Zenon DEF Free
<1>3. Cardinality(Free(m) \ {b}) <= Cardinality(Free(m2))
  <2>1. Free(m) \ {b} \subseteq Free(m2)
    BY DEF Free
  <2> QED
    BY <2>1, <1>2, FS_Subset
<1>4. Cardinality(Free(m) \ {b}) >= Cardinality(Free(m)) - 1 /\ Cardinality(Free(m)) \in Nat /\ Cardinality(Free(m2)) \in Nat
  /\ Cardinality(Free(m) \ {b}) \in Nat
  BY <1>2, FS_RemoveElement, FS_CardinalityType
<1> QED
  BY <1>3, <1>4

(* Where there are free buffers there is one. *)
LEMMA FreeExists ==
  ASSUME NEW m, Cardinality(Free(m)) >= 1
  PROVE Free(m) # {}
  BY FS_EmptySet DEF Free

(* The smaller one of the room in a buffer and the packets for it. *)
LEMMA MovesFit ==
  ASSUME NEW o \in 0 .. Capacity, NEW n \in Nat, NEW x, x.n = o
  PROVE  Moves(x, n) = IF Capacity - o <= n THEN Capacity - o ELSE n
<1>1. {Capacity - o, n} \in SUBSET Nat /\ {Capacity - o, n} # {}
  BY SizeAssumption
<1>2. Moves(x, n) = Min({Capacity - o, n})
  BY DEF Moves
<1> HIDE DEF Moves
<1>3. Moves(x, n) \in {Capacity - o, n} /\ Moves(x, n) <= n /\ Moves(x, n) <= Capacity - o
  BY <1>1, <1>2, MinIsLeast
<1> QED
  BY <1>3, SizeAssumption

(* Packets that leave on different sides enter on different sides. *)
LEMMA DirectionsDiffer ==
  \A d, e \in Dir : InputDirection(d) = InputDirection(e) => d = e
  BY DEF Dir, InputDirection

(* A neighbour is a subgrid, or the outside. *)
LEMMA NeighbourIsGrid ==
  ASSUME NEW g \in Grid, NEW d \in Dir
  PROVE (Neighbour(g, d) = None \/ Neighbour(g, d) \in Grid) /\ InputDirection(d) \in Dir
  BY SizeAssumption DEF Dir, Neighbour, InputDirection, Grid

(* The size of a buffer is set, or more packets are added to it. *)
LEMMA SetSize ==
  ASSUME NEW g, NEW d, NEW o, NEW k, NEW x, x = [grid |-> g, dir |-> d, n |-> o]
  PROVE  /\ [x EXCEPT !.n = k] = [grid |-> g, dir |-> d, n |-> k]
         /\ [x EXCEPT !.n = x.n + k] = [grid |-> g, dir |-> d, n |-> o + k]
  OBVIOUS

(* New contents x for the slot of direction d, and full buffers F, instead *)
(* of what was in the slot before.                                         *)
LEMMA Placed ==
  ASSUME NEW s, NEW K, NEW m0, NEW g \in Grid, NEW d \in Dir, Storing(s, g, K, m0),
         NEW m \in Memory, NEW x \in Buffer \cup {None}, NEW F \in SUBSET Buffer,
         NEW Old, Old = Used(s.buf) \ {s.act[d]},
         x \notin F, x \notin Old, F \cap Old = {},
         Used(m) = Old \cup ({x} \ {None}) \cup F,
         \A y \in Old : m[y] = s.buf[y],
         x # None => Filling(m[x], g, d)
  PROVE  Storing([buf |-> m, act |-> [s.act EXCEPT ![d] = x], full |-> s.full \cup F], g, K, m0)
<1> DEFINE act == [s.act EXCEPT ![d] = x]
<1>1. act \in Slots /\ act[d] = x /\ \A e \in Dir : e # d => act[e] = s.act[e]
  BY DEF Storing, Slots
<1> HIDE DEF act
<1>2. None \notin Buffer
  BY NoneAssumption
<1>3. ASSUME NEW e \in Dir, e # d, s.act[e] # None
      PROVE  s.act[e] \in Old /\ Filling(m[s.act[e]], g, e)
  <2>1. s.act[e] \in InSlots(s.act) /\ Filling(s.buf[s.act[e]], g, e)
    BY <1>3 DEF Storing, Slots, InSlots, Filled
  <2>2. s.act[e] # s.act[d]
    <3>1. SUFFICES ASSUME s.act[d] = s.act[e] PROVE FALSE
      OBVIOUS
    <3>2. Filling(s.buf[s.act[e]], g, d)
      BY <3>1, <1>3 DEF Storing, Filled
    <3> QED
      BY <3>2, <2>1, <1>3, DirectionsDiffer DEF Filling
  <2> QED
    BY <2>1, <2>2 DEF Storing
<1>4. InSlots(act) = (InSlots(s.act) \ {s.act[d]}) \cup ({x} \ {None})
  <2>1. ASSUME NEW b \in InSlots(act) PROVE b \in (InSlots(s.act) \ {s.act[d]}) \cup ({x} \ {None})
    BY <1>1, <1>2, <1>3 DEF InSlots
  <2>2. ASSUME NEW b \in (InSlots(s.act) \ {s.act[d]}) \cup ({x} \ {None}) PROVE b \in InSlots(act)
    BY <1>1, <1>2 DEF InSlots
  <2> QED
    BY <2>1, <2>2
<1>5. Filled(m, act, g)
  BY <1>1, <1>3 DEF Filled
<1>6. s.act[d] \notin K /\ s.act[d] \notin s.full
  <2>1. K \subseteq Buffer /\ s.full \subseteq Buffer
    BY DEF Storing, Used
  <2> QED
    BY <2>1, <1>2 DEF Storing, InSlots, Slots
<1>7. Storing([buf |-> m, act |-> act, full |-> s.full \cup F], g, K, m0)
  BY <1>1, <1>2, <1>4, <1>5, <1>6 DEF Storing
<1> QED
  BY <1>7 DEF act

(* The packets for one direction are stored: with or without a new active  *)
(* buffer, with or without a full one.  At most one more buffer is in use. *)
LEMMA StoreKeeps ==
  ASSUME NEW s, NEW K, NEW m0, NEW g \in Grid, NEW d \in Dir, NEW n \in 1 .. Capacity,
         Neighbour(g, d) # None, Storing(s, g, K, m0), Cardinality(Free(s.buf)) >= 2
  PROVE  /\ Storing(StoreOutgoing(s, g, d, n), g, K, m0)
         /\ Cardinality(Free(StoreOutgoing(s, g, d, n).buf)) >= Cardinality(Free(s.buf)) - 1
<1> DEFINE a == s.act[d]
           b == IF a = None THEN FreeBuffer(s.buf) ELSE a
           m == IF a = None
            THEN [s.buf EXCEPT ![b] =
                    [grid |-> Neighbour(g, d), dir |-> InputDirection(d), n |-> 0]]
            ELSE s.buf
           o == m[b].n
           moved == Moves(m[b], n)
           m1 == [m EXCEPT ![b].n = @ + moved]
           full == [grid |-> Neighbour(g, d), dir |-> InputDirection(d), n |-> Capacity]
           r == StoreOutgoing(s, g, d, n)
<1>a. Neighbour(g, d) \in Grid /\ InputDirection(d) \in Dir
  BY NeighbourIsGrid
<1>b. s.buf \in Memory /\ s.act \in Slots /\ None \notin Buffer /\ None \notin PhotonBuffer
      /\ Capacity \in Nat \ {0} /\ a \in Buffer \cup {None}
  BY NoneAssumption, SizeAssumption DEF Storing, Slots
<1>c. Free(s.buf) # {}
  BY FS_EmptySet
<1>1. /\ b \in Buffer /\ b \notin K /\ b \notin s.full
      /\ \A e \in Dir : e # d => s.act[e] # b
      /\ m \in Memory /\ \A c \in Buffer : c # b => m[c] = s.buf[c]
      /\ m[b] = [grid |-> Neighbour(g, d), dir |-> InputDirection(d), n |-> o]
      /\ o \in 0 .. Capacity - 1
      /\ Used(m) = Used(s.buf) \cup {b}
      /\ a = None => o = 0 /\ b \notin Used(s.buf)
  <2>1. CASE a = None
    <3>1. b \in Buffer /\ b \notin Used(s.buf)
      BY <2>1, <1>c, FreeIsFree DEF Free
    <3>2. [grid |-> Neighbour(g, d), dir |-> InputDirection(d), n |-> 0] \in PhotonBuffer
      BY <1>a, <1>b DEF PhotonBuffer
    <3>3. /\ m \in Memory /\ \A c \in Buffer : c # b => m[c] = s.buf[c]
          /\ m[b] = [grid |-> Neighbour(g, d), dir |-> InputDirection(d), n |-> 0]
      BY <3>1, <3>2, <2>1, <1>b, Zenon DEF Memory
    <3>4. Used(m) = Used(s.buf) \cup {b}
      BY <3>3, <3>2, <3>1, <1>b, Zenon DEF Used
    <3>5. b \notin K /\ b \notin s.full /\ \A e \in Dir : s.act[e] # b
      BY <3>1 DEF Storing, InSlots
    <3>6. o = 0 /\ o \in 0 .. Capacity - 1
      BY <3>3, <1>b
    <3> QED
      BY <3>1, <3>3, <3>4, <3>5, <3>6, <2>1, <1>b, Zenon
  <2>2. CASE a # None
    <3>1. b = a /\ m = s.buf /\ Filling(s.buf[b], g, d) /\ b \in Buffer
      BY <2>2, <1>b, Zenon DEF Storing, Filled
    <3>2. b \in InSlots(s.act) /\ b \in Used(s.buf)
      BY <3>1 DEF InSlots, Storing
    <3>3. \A e \in Dir : e # d => s.act[e] # b
      <4>1. ASSUME NEW e \in Dir, s.act[e] = b PROVE e = d
        <5>1. Filling(s.buf[b], g, e)
          BY <4>1, <3>1, <1>b DEF Storing, Filled
        <5> QED
          BY <5>1, <3>1, DirectionsDiffer DEF Filling
      <4> QED
        BY <4>1
    <3>4. m[b] = [grid |-> Neighbour(g, d), dir |-> InputDirection(d), n |-> o] /\ o \in 0 .. Capacity - 1
      BY <3>1, <1>b DEF Filling, PhotonBuffer
    <3>5. b \notin K /\ b \notin s.full /\ Used(m) = Used(s.buf) \cup {b}
      BY <3>1, <3>2 DEF Storing
    <3> QED
      BY <3>1, <3>3, <3>4, <3>5, <1>b, <2>2 DEF Storing
  <2> QED
    BY <2>1, <2>2
<1>r. r = [buf  |-> IF NewIsEmpty(AddPhotons(m, b, n).buf, b, AddPhotons(m, b, n).out)
                    THEN [AddPhotons(m, b, n).buf EXCEPT ![AddPhotons(m, b, n).out] = None] ELSE AddPhotons(m, b, n).buf,
           act  |-> [s.act EXCEPT ![d] = IF NewIsEmpty(AddPhotons(m, b, n).buf, b, AddPhotons(m, b, n).out)
                                         THEN None ELSE AddPhotons(m, b, n).out],
           full |-> IF AddPhotons(m, b, n).out = b THEN s.full ELSE s.full \cup {b}]
  BY DEF StoreOutgoing
<1>p. AddPhotons(m, b, n) =
      IF m1[b].n < Capacity
      THEN [buf |-> m1, out |-> b]
      ELSE [buf |-> [m1 EXCEPT ![FreeBuffer(m1)] = [m[b] EXCEPT !.n = n - moved]], out |-> FreeBuffer(m1)]
  BY DEF AddPhotons
<1> HIDE DEF b, m, a, r
<1>2. moved = IF Capacity - o <= n THEN Capacity - o ELSE n
  <2>1. o \in 0 .. Capacity /\ n \in Nat /\ m[b].n = o
    BY <1>1, <1>b
  <2> QED
    BY <2>1, MovesFit
<1> HIDE DEF o, moved
<1>3. /\ m1 \in [Buffer -> PhotonBuffer \cup {None}] /\ \A c \in Buffer : c # b => m1[c] = s.buf[c]
      /\ m1[b] = [grid |-> Neighbour(g, d), dir |-> InputDirection(d), n |-> o + moved]
      /\ o + moved \in 0 .. Capacity
      /\ m1[b] \in PhotonBuffer
  <2>1. o + moved \in 0 .. Capacity
    BY <1>2, <1>1, <1>b
  <2>2. [grid |-> Neighbour(g, d), dir |-> InputDirection(d), n |-> o + moved] \in PhotonBuffer
    BY <2>1, <1>a DEF PhotonBuffer
  <2>3. m1 = [m EXCEPT ![b] = [grid |-> Neighbour(g, d), dir |-> InputDirection(d), n |-> o + moved]]
    <3>1. [m[b] EXCEPT !.n = m[b].n + moved] = [grid |-> Neighbour(g, d), dir |-> InputDirection(d), n |-> o + moved]
      BY <1>1, SetSize
    <3>2. m1 = [m EXCEPT ![b] = [m[b] EXCEPT !.n = m[b].n + moved]]
      BY Zenon
    <3> QED
      BY <3>1, <3>2
  <2> QED
    BY <2>1, <2>2, <2>3, <1>1, Zenon DEF Memory
<1> HIDE DEF m1
<1>4. Used(m1) = Used(m)
  BY <1>3, <1>1, <1>b, Zenon DEF Used, Memory
<1> DEFINE Old == Used(s.buf) \ {s.act[d]}
<1>8. Old = Used(s.buf) \ {s.act[d]} /\ b \notin Old /\ Used(m1) = Old \cup {b} /\ \A y \in Old : m1[y] = s.buf[y]
  <2>1. CASE a = None
    BY <2>1, <1>1, <1>3, <1>4, <1>b DEF a, Used
  <2>2. CASE a # None
    <3>1. b = a /\ b \in Used(s.buf)
      BY <2>2, <1>b DEF a, b, Storing, InSlots
    <3> QED
      BY <3>1, <1>1, <1>3, <1>4 DEF a, Used
  <2> QED
    BY <2>1, <2>2
<1> HIDE DEF Old
<1>9. m \in Memory /\ m1 \in Memory
  BY <1>1, <1>3 DEF Memory
<1>10. ASSUME NEW m2, NEW x \in Buffer, Used(m2) \subseteq Used(s.buf) \cup {x}
       PROVE  Cardinality(Free(m2)) >= Cardinality(Free(s.buf)) - 1
  BY <1>10, FreeCount
<1>5. CASE o + n < Capacity
  <2>1. moved = n /\ m1[b].n = o + n /\ m1[b].n < Capacity
    BY <1>5, <1>2, <1>3, <1>1, <1>b
  <2>2. r = [buf |-> m1, act |-> [s.act EXCEPT ![d] = b], full |-> s.full \cup {}]
    BY <2>1, <1>r, <1>p DEF NewIsEmpty
  <2>3. Filling(m1[b], g, d)
    BY <2>1, <1>3, <1>b, <1>1 DEF Filling
  <2>4. Storing([buf |-> m1, act |-> [s.act EXCEPT ![d] = b], full |-> s.full \cup {}], g, K, m0)
    <3> DEFINE F == {}
    <3>1. /\ Used(m1) = Old \cup ({b} \ {None}) \cup F
          /\ F \in SUBSET Buffer /\ b \notin F /\ b \notin Old /\ F \cap Old = {}
      BY <1>8, <1>1, <1>b
    <3> HIDE DEF F
    <3>2. Storing([buf |-> m1, act |-> [s.act EXCEPT ![d] = b], full |-> s.full \cup F], g, K, m0)
      BY <1>8, <2>3, <3>1, <1>9, <1>1, Placed
    <3> QED
      BY <3>2 DEF F
  <2>5. Used(r.buf) \subseteq Used(s.buf) \cup {b}
    BY <2>2, <1>4, <1>1
  <2> QED
    BY <2>2, <2>4, <2>5, <1>10, <1>1 DEF r
<1>6. CASE o + n >= Capacity
  <2> DEFINE c == FreeBuffer(m1)
             rest == [m[b] EXCEPT !.n = n - moved]
             m2 == [m1 EXCEPT ![c] = rest]
  <2>1. moved = Capacity - o /\ m1[b].n = Capacity /\ n - moved \in 0 .. Capacity - 1
    BY <1>6, <1>2, <1>3, <1>1, <1>b
  <2>2. c \in Buffer /\ c \notin Used(m1) /\ c # b
    <3>1. Free(m1) # {}
      <4>1. Cardinality(Free(m1)) >= Cardinality(Free(s.buf)) - 1
        BY <1>10, <1>4, <1>1
      <4>2. Cardinality(Free(m1)) \in Nat /\ Cardinality(Free(s.buf)) \in Nat
        BY FreeCount, <1>1
      <4>3. Cardinality(Free(m1)) # 0
        BY <4>1, <4>2
      <4> QED
        BY <4>3, FS_EmptySet
    <3> QED
      BY <3>1, FreeIsFree, <1>8 DEF Free
  <2>3. rest = [grid |-> Neighbour(g, d), dir |-> InputDirection(d), n |-> n - moved]
    BY <1>1, SetSize
  <2>p. AddPhotons(m, b, n) = [buf |-> m2, out |-> c]
    BY <2>1, <1>p, <1>b
  <2> HIDE DEF rest, c
  <2>4. /\ m2[c] = rest /\ m2 \in Memory /\ rest \in PhotonBuffer /\ rest # None
        /\ \A y \in Buffer : y # c => m2[y] = m1[y]
    <3>1. rest \in PhotonBuffer
      <4>1. n - moved \in 0 .. Capacity
        BY <2>1, <1>b
      <4> QED
        BY <4>1, <2>3, <1>a DEF PhotonBuffer
    <3> QED
      BY <3>1, <2>2, <1>9, <1>b DEF Memory
  <2> HIDE DEF m2
  <2>5. CASE n = moved
    <3> DEFINE m3 == [m2 EXCEPT ![c] = None]
    <3>1. r = [buf |-> m3, act |-> [s.act EXCEPT ![d] = None], full |-> s.full \cup {b}]
      <4>1. m2[c].n = 0
        BY <2>1, <2>3, <2>4, <2>5
      <4>2. NewIsEmpty(m2, b, c)
        BY <4>1, <2>2 DEF NewIsEmpty
      <4> QED
        BY <4>2, <2>2, <2>p, <1>r
    <3>2. m3 \in Memory /\ m3[c] = None /\ \A y \in Buffer : y # c => m3[y] = m1[y]
      BY <2>2, <2>4, <1>9 DEF Memory
    <3> HIDE DEF m3
    <3>3. Used(m3) = Used(m1)
      BY <3>2, <2>2 DEF Used
    <3>4. /\ {b} \in SUBSET Buffer /\ None \notin {b} /\ None \notin Old /\ {b} \cap Old = {}
          /\ Used(m3) = Old \cup ({None} \ {None}) \cup {b}
          /\ \A y \in Old : m3[y] = s.buf[y]
      BY <3>2, <3>3, <1>8, <1>1, <1>b, <2>2 DEF Used
    <3>5. Storing([buf |-> m3, act |-> [s.act EXCEPT ![d] = None], full |-> s.full \cup {b}], g, K, m0)
      BY <3>4, <3>2, <1>8, Placed
    <3>6. Used(r.buf) \subseteq Used(s.buf) \cup {b}
      BY <3>1, <3>3, <1>4, <1>1
    <3> QED
      BY <3>1, <3>5, <3>6, <1>10, <1>1 DEF r
  <2>6. CASE n # moved
    <3>1. r = [buf |-> m2, act |-> [s.act EXCEPT ![d] = c], full |-> s.full \cup {b}]
      <4>1. m2[c].n # 0
        BY <2>1, <2>3, <2>4, <2>6
      <4>2. ~ NewIsEmpty(m2, b, c)
        BY <4>1 DEF NewIsEmpty
      <4> QED
        BY <4>2, <2>2, <2>p, <1>r
    <3>2. a # None /\ Used(m1) = Used(s.buf)
      <4>1. o # 0
        BY <2>1, <2>6, <1>b
      <4>2. a # None
        BY <4>1, <1>1
      <4>3. b \in Used(s.buf)
        BY <4>2, <1>b DEF b, a, Storing, Slots, InSlots
      <4> QED
        BY <4>2, <4>3, <1>1, <1>4
    <3>3. Used(m2) = Used(m1) \cup {c}
      BY <2>4, <2>2 DEF Used
    <3>4. /\ {b} \in SUBSET Buffer /\ c \notin {b} /\ c \notin Old /\ {b} \cap Old = {}
          /\ Used(m2) = Old \cup ({c} \ {None}) \cup {b}
          /\ \A y \in Old : m2[y] = s.buf[y]
      BY <3>3, <1>8, <1>1, <1>b, <2>2, <2>4 DEF Used
    <3>5. Filling(m2[c], g, d)
      BY <2>1, <2>3, <2>4, <2>6 DEF Filling
    <3>6. Storing([buf |-> m2, act |-> [s.act EXCEPT ![d] = c], full |-> s.full \cup {b}], g, K, m0)
      BY <3>4, <3>5, <2>4, <2>2, <1>8, Placed
    <3>7. Used(r.buf) \subseteq Used(s.buf) \cup {c}
      BY <3>1, <3>3, <3>2
    <3> QED
      BY <3>1, <3>6, <3>7, <1>10, <2>2 DEF r
  <2> QED
    BY <2>5, <2>6
<1> QED
  BY <1>5, <1>6, <1>1, <1>b

(* The same for a direction in which there may be nothing to store. *)
LEMMA StoreKeptKeeps ==
  ASSUME NEW s, NEW K, NEW m0, NEW g \in Grid, NEW d \in Dir, NEW out, NEW kept,
         d \in kept => out[d] \in 1 .. Capacity /\ Neighbour(g, d) # None,
         Storing(s, g, K, m0), Cardinality(Free(s.buf)) >= 2
  PROVE  /\ Storing(StoreKept(s, g, d, out, kept), g, K, m0)
         /\ Cardinality(Free(StoreKept(s, g, d, out, kept).buf)) \in Nat
         /\ Cardinality(Free(StoreKept(s, g, d, out, kept).buf)) >= Cardinality(Free(s.buf)) - 1
<1> DEFINE r == StoreKept(s, g, d, out, kept)
<1>1. Cardinality(Free(r.buf)) \in Nat /\ Cardinality(Free(s.buf)) \in Nat
  <2>1. 1 \in Buffer
    BY SizeAssumption DEF Buffer
  <2>2. Used(r.buf) \subseteq Used(r.buf) \cup {1} /\ Used(s.buf) \subseteq Used(s.buf) \cup {1}
    OBVIOUS
  <2> QED
    BY <2>1, <2>2, FreeCount
<1>2. CASE d \in kept
  <2>1. r = StoreOutgoing(s, g, d, out[d])
    BY <1>2 DEF StoreKept
  <2> QED
    BY <2>1, <1>1, <1>2, StoreKeeps
<1>3. CASE d \notin kept
  <2>1. r = s
    BY <1>3 DEF StoreKept
  <2> QED
    BY <2>1, <1>1
<1> QED
  BY <1>2, <1>3

(* The same for all directions, for which four free buffers are enough. *)
LEMMA StoreAllKeeps ==
  ASSUME NEW s, NEW K, NEW m0, NEW g \in Grid, NEW out, NEW kept,
         \A d \in Dir \cap kept : out[d] \in 1 .. Capacity /\ Neighbour(g, d) # None,
         Storing(s, g, K, m0), Cardinality(Free(s.buf)) >= 4
  PROVE  Storing(StoreAll(s, g, out, kept), g, K, m0)
<1> DEFINE s1 == StoreKept(s, g, "in", out, kept)
           s2 == StoreKept(s1, g, "lo", out, kept)
<1>d. "in" \in Dir /\ "lo" \in Dir /\ "hi" \in Dir
  BY DEF Dir
<1>n. Cardinality(Free(s.buf)) \in Nat
  <2>1. 1 \in Buffer
    BY SizeAssumption DEF Buffer
  <2>2. Used(s.buf) \subseteq Used(s.buf) \cup {1}
    OBVIOUS
  <2> QED
    BY <2>1, <2>2, FreeCount
<1>1. Storing(s1, g, K, m0) /\ Cardinality(Free(s1.buf)) \in Nat /\ Cardinality(Free(s1.buf)) >= 3
  <2>1. Cardinality(Free(s.buf)) >= 2
    BY <1>n
  <2>2. Storing(s1, g, K, m0) /\ Cardinality(Free(s1.buf)) \in Nat
        /\ Cardinality(Free(s1.buf)) >= Cardinality(Free(s.buf)) - 1
    BY <1>d, <2>1, StoreKeptKeeps
  <2> QED
    BY <2>2, <1>n
<1> HIDE DEF s1
<1>2. Storing(s2, g, K, m0) /\ Cardinality(Free(s2.buf)) \in Nat /\ Cardinality(Free(s2.buf)) >= 2
  <2>1. Cardinality(Free(s1.buf)) >= 2
    BY <1>1
  <2>2. Storing(s2, g, K, m0) /\ Cardinality(Free(s2.buf)) \in Nat
        /\ Cardinality(Free(s2.buf)) >= Cardinality(Free(s1.buf)) - 1
    BY <1>1, <1>d, <2>1, StoreKeptKeeps
  <2> QED
    BY <2>2, <1>1
<1> HIDE DEF s2
<1>3. Storing(StoreKept(s2, g, "hi", out, kept), g, K, m0)
  BY <1>2, <1>d, StoreKeptKeeps
<1>4. StoreAll(s, g, out, kept) = StoreKept(s2, g, "hi", out, kept)
  BY DEF StoreAll, s2, s1
<1> QED
  BY <1>3, <1>4

-----------------------------------------------------------------------------
(* What a thread has at a place of the program: x is its task, A are the   *)
(* tasks it has to add, p is its position.                                 *)
Carrier ==
  {TraversalTask(b, g) : b \in Buffer, g \in Grid}
    \cup {ReemitTask(b, d) : b \in Buffer, d \in Lock \cup {None}}

Label == {"start", "get", "last", "while", "exit", "launch", "trylock", "launched", "nothing",
          "exec", "count", "free", "finish", "add", "emit", "emit add", "left", "flush", "flush add",
          "test", "count done"}

AtPlace(l, x, A, p) ==
  /\ l \in Label /\ x \in Task \cup {None} /\ A \subseteq Carrier /\ p \in Int \X Int
  /\ x = None => l \notin {"exec", "count", "free", "finish", "emit", "emit add", "left", "flush", "flush add"}
  /\ x # None => l \in {"while", "exit", "exec", "count", "free", "finish", "emit", "emit add", "left",
                        "flush", "flush add"}
  /\ l \in {"count", "free"} => x \in Carrier
  /\ l \in {"emit", "emit add", "left", "flush"} => x.type = "continuous"
  /\ l = "flush add" => x.type = "flush"
  /\ A # {} => l \in {"count", "free", "finish", "add", "emit add", "flush add"}
  /\ l \in {"emit add", "flush add"} => \E y \in A : A = {y}
  /\ l \in {"launch", "trylock", "launched", "nothing"} => p[2] \in Grid
  /\ l = "flush" => p[1] \in Block
  /\ l \in {"exec", "flush add"} => p[1] \in 0 .. NGrid - 1
  /\ l = "exec" /\ x.type # "flush" => p[1] = 0
  /\ l \in {"start", "get", "last", "while", "test", "count done", "count", "free", "finish",
            "add", "left"} => p[1] = 0

(* The parts of the state of a thread. *)
Functions ==
  DOMAIN pc = Thread /\ DOMAIN cur = Thread /\ DOMAIN adding = Thread /\ DOMAIN pos = Thread

(* Every thread is at some place. *)
Control ==
  /\ Functions
  /\ \A t \in Thread : AtPlace(pc[t], cur[t], adding[t], pos[t])

(* The other threads stay where they are. *)
Others(t) ==
  \A u \in Thread \ {t} :
    pc'[u] = pc[u] /\ cur'[u] = cur[u] /\ adding'[u] = adding[u] /\ pos'[u] = pos[u]

(* A step changes nothing of the other threads. *)
LEMMA StepOthers ==
  ASSUME Functions, NEW t \in Thread, Step(t)
  PROVE  Functions' /\ Others(t)
<1> USE DEF Functions, Others, Goto
<1>1. CASE GetTask(t) \/ GetNothing(t) \/ While(t)
  BY <1>1 DEF GetTask, GetNothing, While
<1>2. CASE ReadLargest(t) \/ LaunchFails(t) \/ LaunchNothing(t) \/ LeaveSubgrid(t) \/ Launch(t) \/ LaunchDone(t)
  BY <1>2 DEF ReadLargest, LaunchFails, LaunchNothing, LeaveSubgrid, Launch, LaunchDone, NextSubgrid
<1>3. CASE EmitDiscrete(t) \/ Reemit(t) \/ Count(t) \/ FreeInput(t)
  BY <1>3 DEF EmitDiscrete, Reemit, Count, FreeInput
<1>4. CASE Traverse(t)
  BY <1>4 DEF Traverse
<1>5. CASE StartEmission(t) \/ EmitPacket(t) \/ AddEmitted(t) \/ EmissionDone(t) \/ CheckLeft(t)
  BY <1>5 DEF StartEmission, EmitPacket, AddEmitted, EmissionDone, CheckLeft
<1>6. CASE AddFlush(t) \/ Flush(t) \/ AddFlushed(t) \/ Finish(t) \/ AddTask(t) \/ TestEmpty(t) \/ TestDone(t)
  BY <1>6 DEF AddFlush, Flush, AddFlushed, Finish, AddTask, TestEmpty, TestDone
<1> QED
  BY <1>1, <1>2, <1>3, <1>4, <1>5, <1>6 DEF Step

(* The kinds of tasks. *)
LEMMA TaskKinds ==
  /\ Carrier \subseteq Task
  /\ \A x \in Task :
       /\ x # None
       /\ x \in Carrier <=> x.type \in {"traversal", "reemit"}
       /\ x.type = "discrete" => x.of \in Discrete /\ x.dep = None /\ x = DiscreteTask(x.of)
       /\ x.type = "continuous" => x.of \in Continuous /\ x.dep = x.of.block /\ x = ContinuousTask(x.of)
       /\ x.type = "flush" => x.of \in Block /\ x.dep = x.of
       /\ x.type = "traversal" => x.of \in Buffer /\ x.dep \in Grid /\ x = TraversalTask(x.of, x.dep)
       /\ x.type = "reemit" => x.of \in Buffer
       /\ x.dep \in Lock \cup {None}
       /\ x.type \in {"discrete", "continuous", "flush", "traversal", "reemit"}
<1> USE DEF DiscreteTask, ContinuousTask, FlushTask, TraversalTask, ReemitTask
<1>1. Carrier \subseteq Task
  BY DEF Carrier, Task
<1>2. ASSUME NEW x \in Task PROVE x # None
  BY NoneAssumption
<1>3. Grid \subseteq Lock /\ Block \subseteq Lock
  BY DEF Lock
<1>7. ASSUME NEW x \in Carrier PROVE
       \/ \E b \in Buffer, g \in Grid : x = TraversalTask(b, g)
       \/ \E b \in Buffer, d \in Lock \cup {None} : x = ReemitTask(b, d)
  BY DEF Carrier
<1>9. \A x \in Carrier : x.type \in {"traversal", "reemit"}
  BY <1>7
<1>4. ASSUME NEW s \in Discrete PROVE DiscreteTask(s) \notin Carrier
  BY <1>9
<1>5. ASSUME NEW s \in Continuous PROVE ContinuousTask(s) \notin Carrier /\ s.block \in Block
  BY <1>9, SourceAssumption
<1>6. ASSUME NEW k \in Block PROVE FlushTask(k) \notin Carrier
  BY <1>9
<1>8. ASSUME NEW x \in Task PROVE
       /\ x \in Carrier <=> x.type \in {"traversal", "reemit"}
       /\ x.type = "discrete" => x.of \in Discrete /\ x.dep = None /\ x = DiscreteTask(x.of)
       /\ x.type = "continuous" => x.of \in Continuous /\ x.dep = x.of.block /\ x = ContinuousTask(x.of)
       /\ x.type = "flush" => x.of \in Block /\ x.dep = x.of
       /\ x.type = "traversal" => x.of \in Buffer /\ x.dep \in Grid /\ x = TraversalTask(x.of, x.dep)
       /\ x.type = "reemit" => x.of \in Buffer
       /\ x.dep \in Lock \cup {None}
       /\ x.type \in {"discrete", "continuous", "flush", "traversal", "reemit"}
  <2>1. CASE \E s \in Discrete : x = DiscreteTask(s)
    BY <2>1, <1>4
  <2>2. CASE \E s \in Continuous : x = ContinuousTask(s)
    BY <2>2, <1>5, <1>3
  <2>3. CASE \E k \in Block : x = FlushTask(k)
    BY <2>3, <1>6, <1>3
  <2>4. CASE x \in Carrier
    BY <2>4, <1>7, <1>3
  <2>5. \/ x \in Carrier
        \/ \E s \in Discrete : x = DiscreteTask(s)
        \/ \E s \in Continuous : x = ContinuousTask(s)
        \/ \E k \in Block : x = FlushTask(k)
    <3> HIDE DEF DiscreteTask, ContinuousTask, FlushTask, TraversalTask, ReemitTask
    <3> DEFINE V == {TraversalTask(b, g) : b \in Buffer, g \in Grid}
               R == {ReemitTask(b, d) : b \in Buffer, d \in Lock \cup {None}}
    <3>1. /\ Task = {DiscreteTask(s) : s \in Discrete} \cup {ContinuousTask(s) : s \in Continuous}
                      \cup {FlushTask(k) : k \in Block} \cup V \cup R
          /\ Carrier = V \cup R
      BY DEF Task, Carrier
    <3> HIDE DEF V, R
    <3> QED
      BY <3>1
  <2> QED
    BY <2>1, <2>2, <2>3, <2>4, <2>5
<1> QED
  BY <1>1, <1>2, <1>8, Zenon

-----------------------------------------------------------------------------
(* The holders of buffers: the slots of the subgrids, the tasks in the     *)
(* queues, and every thread with its task and the ones it has to add.      *)
AllSlots == UNION {InSlots(active[g]) : g \in Grid}
BuffersOf(X) == {x.of : x \in X \cap Carrier}
InHand(t) == cur[t] \in Carrier /\ pc[t] # "finish"
Mine(t) == BuffersOf(adding[t]) \cup {b \in Buffer : InHand(t) /\ b = cur[t].of}

(* Every buffer in U has a holder, in S, in Q or in M of a thread, and no  *)
(* buffer has two.                                                         *)
Apart(U, S, Q, M) ==
  /\ U = S \cup Q \cup UNION {M[t] : t \in Thread}
  /\ S \cap Q = {}
  /\ \A t \in Thread : M[t] \cap S = {} /\ M[t] \cap Q = {}
  /\ \A t, u \in Thread : t # u => M[t] \cap M[u] = {}

(* Every buffer in use is with one holder. *)
Held == Apart(Used(buf), AllSlots, BuffersOf(queued), [t \in Thread |-> Mine(t)])

(* No two tasks have the same buffer. *)
OneEach(X) == \A x, y \in X \cap Carrier : x.of = y.of => x = y

(* A traversal task has the lock of the subgrid its buffer is for. *)
Fit(x, m) == x.type = "traversal" => x.dep = m[x.of].grid

(* A traversal makes tasks of other buffers than its own; a reemission     *)
(* makes a task of its buffer exactly if there are packets left.           *)
Handling(l, x, A, m) ==
  l \in {"count", "free"} =>
    /\ x.type = "traversal" => \A y \in A : y.of # x.of
    /\ x.type = "reemit" => /\ m[x.of].n > 0 => l = "count" /\ \E y \in A : y.of = x.of
                            /\ m[x.of].n = 0 => A = {}

(* What holds of the tasks and the buffers of a thread. *)
ThreadMemory(t) ==
  /\ OneEach(adding[t])
  /\ \A x \in adding[t] : Fit(x, buf)
  /\ InHand(t) => Fit(cur[t], buf)
  /\ Handling(pc[t], cur[t], adding[t], buf)

(* Premature launch has taken a buffer of the subgrid, and has not found   *)
(* out yet which one is the largest now.                                   *)
Launching(g) == \E t \in Thread : pc[t] = "launched" /\ pos[t][2] = g

(* The recorded largest buffer is the largest one but during a launch. *)
LargestKnown ==
  \A g \in Grid : ~ Launching(g) => largest[g] = LargestOf(buf, active[g])

(* The types of the memory and of the queues. *)
MemoryType ==
  /\ buf \in Memory
  /\ active \in [Grid -> Slots]
  /\ DOMAIN largest = Grid
  /\ queued \subseteq Task /\ stale \subseteq Lock
  /\ cont \in [Block -> [Grid -> 0 .. Capacity - 1]]

(* Every buffer is with one holder, and fit for it. *)
InMemory ==
  /\ MemoryType
  /\ Held
  /\ OneEach(queued)
  /\ \A x \in queued \cap Carrier : Fit(x, buf)
  /\ \A t \in Thread : ThreadMemory(t)
  /\ \A g \in Grid : Filled(buf, active[g], g)
  /\ LargestKnown

(* The locks that a thread has: the one of its task, and the one of the    *)
(* subgrid it launches a buffer of, or finds without one.                  *)
Locks(t) ==
  {l \in Lock : \/ pc[t] \in {"launched", "nothing"} /\ l = pos[t][2]
                \/ cur[t] # None /\ l = cur[t].dep}

(* They are taken, and each is needed by one thread only. *)
Locking ==
  /\ locked \in [Lock -> BOOLEAN]
  /\ \A t \in Thread : \A l \in Locks(t) : locked[l]
  /\ \A t, u \in Thread : t # u => Locks(t) \cap Locks(u) = {}

(* The inductive invariant. *)
IInv == Control /\ Locking /\ InMemory

-----------------------------------------------------------------------------
(* The buffers with packets on their way through the subgrid, and the ones *)
(* that are full, after a traversal.                                       *)
TraverseMakes(t, s, g, l) ==
  /\ buf' = s.buf
  /\ active' = [active EXCEPT ![g] = s.act]
  /\ largest' = [largest EXCEPT ![g] = LargestOf(s.buf, s.act)]
  /\ adding' = [adding EXCEPT ![t] =
       {IF s.buf[c].dir = "in" THEN ReemitTask(c, l) ELSE TraversalTask(c, s.buf[c].grid) :
          c \in s.full}]

(* A traversal is such a change of the memory: its buffer is in use, and   *)
(* stays out of it.                                                        *)
LEMMA TraverseStores ==
  ASSUME IInv, Room, NEW t \in Thread, Traverse(t)
  PROVE  LET g == buf[cur[t].of].grid IN
         /\ g \in Grid /\ cur[t] \in Carrier /\ cur[t].of \in Buffer /\ cur[t].type = "traversal"
         /\ \E s : \E l \in Lock \cup {None} :
              /\ Storing(s, g, Used(buf) \ InSlots(active[g]), buf)
              /\ TraverseMakes(t, s, g, l)
<1> DEFINE b == cur[t].of
           g == buf[b].grid
           K == Used(buf) \ InSlots(active[g])
<1>1. /\ cur[t] \in Task /\ cur[t].type = "traversal" /\ cur[t] \in Carrier /\ b \in Buffer /\ pc[t] = "exec"
  BY TaskKinds DEF IInv, Control, AtPlace, Traverse, Executes
<1>2. b \in Used(buf)
  <2>1. b \in Mine(t)
    BY <1>1 DEF Mine, InHand
  <2> QED
    BY <2>1 DEF IInv, InMemory, Held, Apart
<1>3. buf[b] \in PhotonBuffer
  BY <1>2 DEF Used, IInv, InMemory, MemoryType, Memory
<1>4. g \in Grid /\ buf[b].dir \in Dir /\ buf[b].n \in 0 .. Capacity
  BY <1>3 DEF PhotonBuffer
<1>5. InSlots(active[g]) \subseteq Used(buf)
  BY <1>4 DEF IInv, InMemory, Held, Apart, AllSlots
<1>6. Storing([buf |-> buf, act |-> active[g], full |-> {}], g, K, buf)
  BY <1>4, <1>5 DEF Storing, IInv, InMemory, MemoryType
<1>7. Results(buf[b].dir) \subseteq Dir
  BY <1>4 DEF Results, InputDirection, Dir
<1>8. PICK out \in [Results(buf[b].dir) -> 0 .. buf[b].n] :
        LET kept == {d \in DOMAIN out : Stored(g, d) /\ out[d] > 0} IN
        \E s \in {StoreAll([buf |-> buf, act |-> active[g], full |-> {}], g, out, kept)} :
            /\ buf' = s.buf
            /\ active' = [active EXCEPT ![g] = s.act]
            /\ largest' = [largest EXCEPT ![g] = LargestOf(s.buf, s.act)]
            /\ \E l \in stale \cup {None} :
                 adding' = [adding EXCEPT ![t] =
                   {IF s.buf[c].dir = "in" THEN ReemitTask(c, l) ELSE TraversalTask(c, s.buf[c].grid) :
                      c \in s.full}]
  BY Zenon DEF Traverse
<1> DEFINE kept == {d \in DOMAIN out : Stored(g, d) /\ out[d] > 0}
           s == StoreAll([buf |-> buf, act |-> active[g], full |-> {}], g, out, kept)
<1>9. Storing(s, g, K, buf)
  <2>1. \A d \in Dir \cap kept : out[d] \in 1 .. Capacity /\ Neighbour(g, d) # None
    BY <1>4, <1>7, SizeAssumption DEF Stored
  <2>2. Cardinality(Free([buf |-> buf, act |-> active[g], full |-> {}].buf)) >= 4
    BY DEF Room, Free
  <2> QED
    BY <2>1, <2>2, <1>4, <1>6, StoreAllKeeps
<1> HIDE DEF s
<1>10. \E l \in stale \cup {None} : TraverseMakes(t, s, g, l)
  <2>1. \E r \in {s} : \E l \in stale \cup {None} : TraverseMakes(t, r, g, l)
    BY <1>8 DEF TraverseMakes, s
  <2> QED
    BY <2>1, Zenon
<1>11. stale \subseteq Lock
  BY DEF IInv, InMemory, MemoryType
<1> HIDE DEF g, b
<1> QED
  BY <1>1, <1>4, <1>9, <1>10, <1>11 DEF g, b

(* Every step leads from one place of the program to another one. *)
LEMMA ControlStep ==
  ASSUME IInv, Room, NEW t \in Thread, Step(t)
  PROVE  Control'
<1>f. Functions /\ AtPlace(pc[t], cur[t], adding[t], pos[t])
  BY DEF IInv, Control
<1>o. Functions' /\ Others(t)
  BY <1>f, StepOthers
<1>a. SUFFICES AtPlace(pc'[t], cur'[t], adding'[t], pos'[t])
  BY <1>o DEF IInv, Control, Others
<1>s. /\ NGrid \in Nat \ {0} /\ NBlock \in Nat /\ 1 \in Grid /\ NGrid \in Grid /\ Grid = 1 .. NGrid
      /\ Block = NGrid + 1 .. NGrid + NBlock /\ Capacity \in Nat \ {0}
  BY SizeAssumption DEF Grid, Block
<1>q. queued \subseteq Task
  BY DEF IInv, InMemory, MemoryType
<1>u. Carrier \subseteq Task /\ \A x \in Task : x # None
  BY TaskKinds
<1> DEFINE p == pos[t]
<1>p. /\ p \in Int \X Int /\ p[1] \in Int /\ p[2] \in Int /\ adding[t] \subseteq Carrier
      /\ cur[t] \in Task \cup {None} /\ pc[t] \in Label
  BY <1>f DEF AtPlace
<1>h. ASSUME NEW k \in Int PROVE k \div 2 \in Int
  OBVIOUS
<1>i. ASSUME NEW j \in Int, NEW k \in Int PROVE <<j, k>> \in Int \X Int /\ <<j, k>>[1] = j /\ <<j, k>>[2] = k
  OBVIOUS
<1>z. ASSUME NEW k \in Int, NEW j, j = <<k, 0>> PROVE j \in Int \X Int /\ j[1] = k
  BY <1>z
<1>1. CASE GetTask(t)
  <2>1. PICK x \in queued : /\ cur' = [cur EXCEPT ![t] = x]
                            /\ pc' = [pc EXCEPT ![t] = IF pc[t] = "get" THEN "exec" ELSE "while"]
    BY <1>1 DEF GetTask, Goto
  <2>2. /\ pc[t] \in {"start", "get", "last"} /\ adding' = adding /\ pos' = pos
        /\ cur'[t] = x /\ x \in Task /\ x # None
        /\ pc'[t] = (IF pc[t] = "get" THEN "exec" ELSE "while")
    BY <1>1, <2>1, <1>f, <1>q, <1>u DEF GetTask, Looking, Functions
  <2>3. adding[t] = {} /\ pos[t][1] = 0
    BY <2>2, <1>f DEF AtPlace
  <2>4. CASE pc'[t] = "exec"
    <3>1. pos'[t] = pos[t] /\ 0 \in 0 .. NGrid - 1 /\ adding'[t] = adding[t]
      BY <2>2, <1>s
    <3> QED
      BY <2>2, <2>3, <2>4, <3>1, <1>p DEF AtPlace, Label
  <2>5. CASE pc'[t] = "while"
    BY <2>2, <2>3, <2>5, <1>p DEF AtPlace, Label
  <2> QED
    BY <2>2, <2>4, <2>5
<1>2. CASE GetNothing(t)
  BY <1>2, <1>f DEF GetNothing, Looking, Goto, AtPlace, Label, Functions
<1>3. CASE While(t)
  <2>1. /\ pc[t] = "while" /\ cur' = cur /\ adding' = adding
        /\ \/ pc'[t] = "exit" /\ pos'[t] = pos[t]
           \/ cur[t] = None /\ pc'[t] = "launch" /\ pos'[t] = <<Capacity \div 2, 1>>
           \/ cur[t] # None /\ pc'[t] = "exec" /\ pos'[t] = pos[t]
    BY <1>3, <1>f DEF While, Goto, Functions
  <2>2. adding[t] = {} /\ pos[t][1] = 0 /\ 0 \in 0 .. NGrid - 1
    BY <2>1, <1>f, <1>s DEF AtPlace
  <2>3. Capacity \div 2 \in Int
    BY <1>h, <1>s
  <2>4. <<Capacity \div 2, 1>> \in Int \X Int /\ <<Capacity \div 2, 1>>[2] \in Grid
    BY <2>3, <1>i, <1>s
  <2> QED
    BY <2>1, <2>2, <2>4, <1>p DEF AtPlace, Label
<1>n. ASSUME NextSubgrid(t), pc[t] \in {"launch", "trylock", "nothing"}, UNCHANGED <<cur, adding>>
      PROVE  AtPlace(pc'[t], cur'[t], adding'[t], pos'[t])
  <2>1. \/ pc'[t] = "get" /\ pos'[t] = <<0, 0>>
        \/ pc'[t] = "launch" /\ p[2] < NGrid /\ pos'[t] = <<p[1], p[2] + 1>>
        \/ pc'[t] = "launch" /\ pos'[t] = <<p[1] \div 2, 1>>
    <3> DEFINE last == p[2] = NGrid /\ LastThreshold(p[1])
    <3>1. /\ pos'[t] = CASE last -> <<0, 0>>
                          [] p[2] < NGrid -> <<p[1], p[2] + 1>>
                          [] OTHER -> <<p[1] \div 2, 1>>
          /\ pc'[t] = IF last THEN "get" ELSE "launch"
      BY <1>n, <1>f DEF NextSubgrid, Goto, Functions
    <3>2. last => ~ (p[2] < NGrid)
      BY <1>s
    <3> HIDE DEF last, p
    <3> QED
      BY <3>1, <3>2
  <2>2. p[2] \in Grid /\ p[1] \div 2 \in Int /\ adding[t] = {} /\ cur[t] = None
    BY <1>n, <1>f, <1>p, <1>h DEF AtPlace
  <2>3. pos'[t] \in Int \X Int /\ ((pc'[t] = "get" /\ pos'[t][1] = 0) \/ (pc'[t] = "launch" /\ pos'[t][2] \in Grid))
    <3>1. CASE pc'[t] = "get" /\ pos'[t] = <<0, 0>>
      <4>1. pos'[t] \in Int \X Int /\ pos'[t][1] = 0
        <5>1. 0 \in Int /\ pos'[t] = <<0, 0>>
          BY <3>1
        <5> QED
          BY <5>1, <1>z, Zenon
      <4> QED
        BY <4>1, <3>1
    <3>2. CASE pc'[t] = "launch" /\ p[2] < NGrid /\ pos'[t] = <<p[1], p[2] + 1>>
      <4>1. p[2] + 1 \in Grid /\ p[2] + 1 \in Int
        BY <2>2, <3>2, <1>p, <1>s
      <4> HIDE DEF p
      <4> QED
        BY <3>2, <4>1, <1>p, <1>i
    <3>3. CASE pc'[t] = "launch" /\ pos'[t] = <<p[1] \div 2, 1>>
      <4> DEFINE k == p[1] \div 2
      <4>1. k \in Int /\ pos'[t] = <<k, 1>>
        BY <2>2, <3>3
      <4> HIDE DEF k
      <4> QED
        BY <4>1, <3>3, <1>i, <1>s
    <3> QED
      BY <2>1, <3>1, <3>2, <3>3
  <2> QED
    BY <2>2, <2>3, <1>n DEF AtPlace, Label
<1>4. CASE ReadLargest(t)
  <2>1. CASE largest[pos[t][2]].n > pos[t][1]
    BY <2>1, <1>4, <1>f DEF ReadLargest, AtPlace, Label, Goto, Functions
  <2>2. CASE ~ (largest[pos[t][2]].n > pos[t][1])
    BY <2>2, <1>4, <1>n DEF ReadLargest
  <2> QED
    BY <2>1, <2>2
<1>5. CASE LaunchFails(t) \/ LeaveSubgrid(t)
  BY <1>5, <1>n DEF LaunchFails, LeaveSubgrid
<1>l. CASE LaunchNothing(t)
  BY <1>l, <1>f DEF LaunchNothing, Goto, AtPlace, Label, Functions
<1>6. CASE Launch(t) \/ LaunchDone(t)
  <2>1. /\ pc[t] \in {"trylock", "launched"} /\ cur' = cur /\ adding' = adding
        /\ \/ pc'[t] = "launched" /\ pos'[t] = pos[t]
           \/ pc'[t] = "get" /\ pos'[t] = <<0, 0>>
    BY <1>6, <1>f DEF Launch, LaunchDone, Goto, Functions
  <2>2. adding[t] = {} /\ cur[t] = None /\ pos[t][2] \in Grid
    BY <2>1, <1>f DEF AtPlace
  <2>3. CASE pc'[t] = "launched" /\ pos'[t] = pos[t]
    BY <2>1, <2>2, <2>3, <1>p DEF AtPlace, Label
  <2>4. CASE pc'[t] = "get" /\ pos'[t] = <<0, 0>>
    <3>1. pos'[t] \in Int \X Int /\ pos'[t][1] = 0
      BY <2>4, <1>i
    <3> QED
      BY <2>1, <2>2, <2>4, <3>1, <1>p DEF AtPlace, Label
  <2> QED
    BY <2>1, <2>3, <2>4
<1>x. ASSUME NEW type, Executes(t, type) PROVE pc[t] = "exec" /\ cur[t] \in Task /\ cur[t] # None /\ cur[t].type = type
  BY <1>x, <1>f DEF Executes, AtPlace
<1>y. ASSUME NEW type, Executes(t, type)
      PROVE  adding[t] = {} /\ pos[t][1] \in 0 .. NGrid - 1 /\ (type # "flush" => pos[t][1] = 0)
  <2>1. pc[t] = "exec" /\ cur[t].type = type
    BY <1>y, <1>x
  <2> QED
    BY <2>1, <1>f DEF AtPlace
<1>r. Buffer \ Used(buf) # {}
  BY FS_EmptySet DEF Room
<1>b. FreeBuffer(buf) \in Buffer
  BY <1>r, FreeIsFree
<1>7. CASE EmitDiscrete(t)
  <2>1. /\ Executes(t, "discrete") /\ pc'[t] = "finish" /\ cur' = cur /\ pos' = pos
        /\ adding'[t] = {TraversalTask(FreeBuffer(buf), cur[t].of.grid)}
    BY <1>7, <1>f DEF EmitDiscrete, Goto, Functions
  <2>2. cur[t].of.grid \in Grid
    BY <2>1, <1>x, TaskKinds, SourceAssumption
  <2>3. adding'[t] \subseteq Carrier
    BY <2>1, <2>2, <1>b DEF Carrier
  <2> QED
    BY <2>1, <2>3, <1>x, <1>y, <1>p DEF AtPlace, Label
<1>8. CASE Traverse(t)
  <2>1. /\ Executes(t, "traversal") /\ pc'[t] = "count" /\ cur' = cur /\ pos' = pos
    BY <1>8, <1>f DEF Traverse, Goto, Functions
  <2>2. adding'[t] \subseteq Carrier /\ cur[t] \in Carrier
    <3> DEFINE g == buf[cur[t].of].grid
    <3>1. /\ g \in Grid /\ cur[t] \in Carrier
          /\ \E s : \E l \in Lock \cup {None} :
               /\ Storing(s, g, Used(buf) \ InSlots(active[g]), buf)
               /\ TraverseMakes(t, s, g, l)
      BY <1>8, TraverseStores
    <3>2. PICK s : \E l \in Lock \cup {None} :
               /\ Storing(s, g, Used(buf) \ InSlots(active[g]), buf)
               /\ TraverseMakes(t, s, g, l)
      BY <3>1
    <3>3. PICK l \in Lock \cup {None} :
               /\ Storing(s, g, Used(buf) \ InSlots(active[g]), buf)
               /\ TraverseMakes(t, s, g, l)
      BY <3>2
    <3>4. \A c \in s.full : c \in Buffer /\ s.buf[c].grid \in Grid
      BY <3>3 DEF Storing, Used, Memory, PhotonBuffer
    <3>5. adding'[t] = {IF s.buf[c].dir = "in" THEN ReemitTask(c, l) ELSE TraversalTask(c, s.buf[c].grid) :
          c \in s.full}
      BY <3>3, <1>f, Zenon DEF TraverseMakes, Functions
    <3>6. \A c \in Buffer : \A h \in Grid : ReemitTask(c, l) \in Carrier /\ TraversalTask(c, h) \in Carrier
      BY DEF Carrier
    <3> QED
      BY <3>1, <3>4, <3>5, <3>6
  <2> QED
    BY <2>1, <2>2, <1>x, <1>y, <1>p DEF AtPlace, Label
<1>9. CASE Reemit(t)
  <2>1. /\ Executes(t, "reemit") /\ pc'[t] = "count" /\ cur' = cur /\ pos' = pos
        /\ adding'[t] \subseteq {TraversalTask(cur[t].of, buf[cur[t].of].grid)}
    BY <1>9, <1>f DEF Reemit, Goto, Functions
  <2>2. cur[t] \in Carrier /\ cur[t].of \in Buffer
    BY <2>1, <1>x, TaskKinds
  <2>3. buf[cur[t].of].grid \in Grid
    <3>1. cur[t].of \in Mine(t)
      BY <2>1, <2>2, <1>x DEF Mine, InHand
    <3>2. cur[t].of \in Used(buf)
      BY <3>1 DEF IInv, InMemory, Held, Apart
    <3> QED
      BY <3>2 DEF Used, IInv, InMemory, MemoryType, Memory, PhotonBuffer
  <2>4. adding'[t] \subseteq Carrier
    BY <2>1, <2>2, <2>3 DEF Carrier
  <2> QED
    BY <2>1, <2>2, <2>4, <1>x, <1>y, <1>p DEF AtPlace, Label
<1>10. CASE Count(t) \/ FreeInput(t)
  BY <1>10, <1>f DEF Count, FreeInput, Goto, AtPlace, Label, Functions
<1>11. CASE StartEmission(t)
  <2>1. /\ Executes(t, "continuous") /\ pc'[t] = "emit" /\ cur' = cur /\ adding' = adding
        /\ pos'[t] = <<cur[t].of.n, 0>>
    BY <1>11, <1>f DEF StartEmission, Goto, Functions
  <2>2. cur[t].of.n \in Int
    BY <2>1, <1>x, TaskKinds, SourceAssumption
  <2>3. pos'[t] \in Int \X Int
    BY <2>1, <2>2, <1>z
  <2> QED
    BY <2>1, <2>3, <1>x, <1>y, <1>p DEF AtPlace, Label
<1>12. CASE EmitPacket(t)
  <2>1. pc[t] = "emit" /\ cur' = cur /\ pos' = [pos EXCEPT ![t][1] = @ - 1]
    BY <1>12 DEF EmitPacket
  <2>2. pos'[t] \in Int \X Int
    BY <2>1, <1>f DEF AtPlace, Functions
  <2>5. \E g \in Grid : \/ pc' = pc /\ adding' = adding
                        \/ pc'[t] = "emit add" /\ adding'[t] = {TraversalTask(FreeBuffer(buf), g)}
    BY <1>12, <1>f DEF EmitPacket, Goto, Functions
  <2>3. CASE pc' = pc /\ adding' = adding
    BY <2>1, <2>2, <2>3, <1>f DEF AtPlace, Label
  <2>4. CASE \E g \in Grid : pc'[t] = "emit add" /\ adding'[t] = {TraversalTask(FreeBuffer(buf), g)}
    <3>1. PICK g \in Grid : pc'[t] = "emit add" /\ adding'[t] = {TraversalTask(FreeBuffer(buf), g)}
      BY <2>4
    <3>2. PICK y : y = TraversalTask(FreeBuffer(buf), g)
      OBVIOUS
    <3>3. y \in Carrier
      BY <3>2, <1>b DEF Carrier
    <3>4. pc'[t] = "emit add" /\ adding'[t] = {y} /\ cur[t] # None /\ cur[t].type = "continuous"
      BY <2>1, <3>1, <3>2, <1>f DEF AtPlace
    <3> QED
      BY <2>1, <2>2, <3>3, <3>4, <1>p DEF AtPlace, Label
  <2> QED
    BY <2>3, <2>4, <2>5
<1>c. CASE AddEmitted(t) \/ AddFlushed(t)
  <2>1. /\ cur' = cur /\ pos' = pos /\ adding'[t] = {} /\ pc[t] \in {"emit add", "flush add"}
        /\ \/ pc[t] = "emit add" /\ pc'[t] = "emit"
           \/ pc[t] = "flush add" /\ pc'[t] = "finish" /\ pos[t][1] = 0
           \/ pc[t] = "flush add" /\ pc'[t] = "exec"
    BY <1>c, <1>f DEF AddEmitted, AddFlushed, Goto, Functions
  <2> QED
    BY <2>1, <1>f DEF AtPlace, Label
<1>13. CASE EmissionDone(t)
  BY <1>13, <1>f DEF EmissionDone, Goto, AtPlace, Label, Functions
<1>14. CASE CheckLeft(t)
  <2>1. /\ pc[t] = "left" /\ cur' = cur /\ adding' = adding
        /\ \/ pc'[t] = "flush" /\ pos'[t] = <<NGrid + 1, 0>>
           \/ pc'[t] = "finish" /\ pos'[t] = <<0, 0>>
    BY <1>14, <1>f DEF CheckLeft, Goto, Functions
  <2>2. cur[t].of.block \in Block
    <3>1. cur[t] \in Task /\ cur[t].type = "continuous"
      BY <2>1, <1>f DEF AtPlace
    <3> QED
      BY <3>1, TaskKinds, SourceAssumption
  <2>3. NGrid + 1 \in Block /\ NGrid + 1 \in Int
    BY <2>2, <1>s
  <2>4. cur[t] # None /\ adding[t] = {} /\ cur[t].type = "continuous"
    BY <2>1, <1>f DEF AtPlace
  <2>5. pos'[t] \in Int \X Int /\ pos'[t][1] \in {NGrid + 1, 0} /\ (pc'[t] = "flush" => pos'[t][1] = NGrid + 1)
        /\ (pc'[t] = "finish" => pos'[t][1] = 0)
    <3>1. CASE pc'[t] = "flush" /\ pos'[t] = <<NGrid + 1, 0>>
      <4>1. pos'[t] \in Int \X Int /\ pos'[t][1] = NGrid + 1
        BY <3>1, <2>3, <1>z
      <4> QED
        BY <4>1, <3>1
    <3>2. CASE pc'[t] = "finish" /\ pos'[t] = <<0, 0>>
      <4>1. pos'[t] \in Int \X Int /\ pos'[t][1] = 0
        BY <3>2, <1>z
      <4> QED
        BY <4>1, <3>2
    <3> QED
      BY <2>1, <3>1, <3>2
  <2> QED
    BY <2>1, <2>3, <2>4, <2>5, <1>p DEF AtPlace, Label
<1>15. CASE AddFlush(t)
  <2>1. /\ pc[t] = "flush" /\ cur' = cur /\ adding' = adding
        /\ \/ pc'[t] = "flush" /\ p[1] # NGrid + NBlock /\ pos'[t] = <<p[1] + 1, 0>>
           \/ pc'[t] = "finish" /\ pos'[t] = <<0, 0>>
    BY <1>15, <1>f DEF AddFlush, Goto, Functions
  <2>2. cur[t] # None /\ adding[t] = {} /\ cur[t].type = "continuous" /\ p[1] \in Block
    BY <2>1, <1>f DEF AtPlace
  <2>3. \/ pc'[t] = "flush" /\ pos'[t] \in Int \X Int /\ pos'[t][1] \in Block
        \/ pc'[t] = "finish" /\ pos'[t] \in Int \X Int /\ pos'[t][1] = 0
    BY <2>1, <2>2, <1>p, <1>s
  <2> QED
    BY <2>1, <2>2, <2>3, <1>p DEF AtPlace, Label
<1>16. CASE Flush(t)
  <2>1. /\ Executes(t, "flush") /\ cur' = cur
        /\ \/ p[1] + 1 < NGrid /\ pos'[t] = <<p[1] + 1, 0>> /\ pc'[t] # "finish"
           \/ pos'[t] = <<0, 0>> /\ pc'[t] # "exec"
        /\ \/ pc'[t] \in {"exec", "finish"} /\ adding' = adding
           \/ pc'[t] = "flush add" /\ adding'[t] = {TraversalTask(FreeBuffer(buf), p[1] + 1)}
    BY <1>16, <1>f DEF Flush, Goto, Functions
  <2>2. /\ pos'[t] \in Int \X Int /\ pos'[t][1] \in 0 .. NGrid - 1
        /\ (pc'[t] = "finish" => pos'[t][1] = 0) /\ p[1] + 1 \in Grid
    <3>1. p[1] \in 0 .. NGrid - 1
      BY <2>1, <1>y
    <3>2. p[1] + 1 \in Grid /\ p[1] + 1 \in Int
      BY <3>1, <1>s
    <3>3. CASE p[1] + 1 < NGrid /\ pos'[t] = <<p[1] + 1, 0>> /\ pc'[t] # "finish"
      <4>1. pos'[t] \in Int \X Int /\ pos'[t][1] = p[1] + 1
        BY <3>2, <3>3, <1>z
      <4>2. p[1] + 1 \in 0 .. NGrid - 1
        BY <3>1, <3>3, <1>s
      <4> QED
        BY <3>2, <3>3, <4>1, <4>2
    <3>4. CASE pos'[t] = <<0, 0>>
      <4>1. pos'[t] \in Int \X Int /\ pos'[t][1] = 0 /\ 0 \in 0 .. NGrid - 1
        BY <3>4, <1>z, <1>s
      <4> QED
        BY <3>2, <4>1
    <3> QED
      BY <2>1, <3>3, <3>4
  <2>3. CASE pc'[t] \in {"exec", "finish"} /\ adding' = adding
    BY <2>1, <2>2, <2>3, <1>x, <1>y, <1>p DEF AtPlace, Label
  <2>4. CASE pc'[t] = "flush add" /\ adding'[t] = {TraversalTask(FreeBuffer(buf), p[1] + 1)}
    <3>1. PICK y : y = TraversalTask(FreeBuffer(buf), p[1] + 1)
      OBVIOUS
    <3>2. y \in Carrier
      BY <3>1, <2>2, <1>b DEF Carrier
    <3>3. adding'[t] = {y} /\ cur[t] # None /\ cur[t].type = "flush"
      BY <2>1, <2>4, <3>1, <1>x
    <3> QED
      BY <2>1, <2>2, <2>4, <3>2, <3>3, <1>p DEF AtPlace, Label
  <2> QED
    BY <2>1, <2>3, <2>4
<1>17. CASE Finish(t)
  BY <1>17, <1>f DEF Finish, Goto, AtPlace, Label, Functions
<1>18. CASE AddTask(t)
  <2>1. /\ pc[t] = "add" /\ cur' = cur /\ pos' = pos
        /\ \/ pc'[t] = "get" /\ adding'[t] = {}
           \/ pc'[t] = "add" /\ adding'[t] \subseteq adding[t]
    BY <1>18, <1>f DEF AddTask, Goto, Functions
  <2> QED
    BY <2>1, <1>f DEF AtPlace, Label
<1>19. CASE TestEmpty(t) \/ TestDone(t)
  BY <1>19, <1>f DEF TestEmpty, TestDone, Goto, AtPlace, Label, Functions
<1> QED
  BY <1>1, <1>2, <1>3, <1>4, <1>5, <1>6, <1>7, <1>8, <1>9, <1>10, <1>11, <1>12, <1>13,
     <1>14, <1>15, <1>16, <1>17, <1>18, <1>19, <1>l, <1>c DEF Step

(* A thread takes only locks that are free, and gives up only its own.     *)
LEMMA LockStep ==
  ASSUME IInv, Room, NEW t \in Thread, Step(t)
  PROVE  Locking'
<1>f. Functions /\ AtPlace(pc[t], cur[t], adding[t], pos[t]) /\ queued \subseteq Task
  BY DEF IInv, Control, InMemory, MemoryType
<1>o. Others(t)
  BY <1>f, StepOthers
<1>l. /\ locked \in [Lock -> BOOLEAN]
      /\ \A u \in Thread : \A l \in Locks(u) : locked[l]
      /\ \A u, v \in Thread : u # v => Locks(u) \cap Locks(v) = {}
  BY DEF IInv, Locking
<1>u. \A u \in Thread \ {t} : Locks(u)' = Locks(u)
  BY <1>o DEF Others, Locks
<1>n. None \notin Lock /\ None \notin Task /\ \A x \in Task : x.dep \in Lock \cup {None}
  BY NoneAssumption, TaskKinds
<1>k. \A u \in Thread : Locks(u) \subseteq Lock /\ Locks(u)' \subseteq Lock
  BY DEF Locks
<1>1. ASSUME locked' = locked, Locks(t)' \subseteq Locks(t) PROVE Locking'
  BY <1>1, <1>l, <1>u DEF Locking
<1>2. ASSUME NEW k \in Lock, ~ locked[k], locked' = [locked EXCEPT ![k] = TRUE], Locks(t)' \subseteq {k}
      PROVE  Locking'
  <2>1. locked' \in [Lock -> BOOLEAN] /\ \A l \in Lock : locked'[l] <=> l = k \/ locked[l]
    BY <1>2, <1>l
  <2>2. \A u \in Thread : k \notin Locks(u)
    BY <1>2, <1>l
  <2> QED
    BY <2>1, <2>2, <1>2, <1>l, <1>u, <1>k DEF Locking
<1>3. ASSUME NEW k \in Lock, k \in Locks(t), locked' = [locked EXCEPT ![k] = FALSE], Locks(t)' = {}
      PROVE  Locking'
  <2>1. locked' \in [Lock -> BOOLEAN] /\ \A l \in Lock : l # k => locked'[l] = locked[l]
    BY <1>3, <1>l
  <2>2. \A u \in Thread \ {t} : k \notin Locks(u)
    BY <1>3, <1>l
  <2> QED
    BY <2>1, <2>2, <1>3, <1>l, <1>u, <1>k DEF Locking
<1>4. CASE GetTask(t)
  <2>1. PICK x \in queued :
          /\ CanLock(x) /\ locked' = Take(x) /\ cur' = [cur EXCEPT ![t] = x]
          /\ pc' = [pc EXCEPT ![t] = IF pc[t] = "get" THEN "exec" ELSE "while"]
    BY <1>4 DEF GetTask, Goto
  <2>2. cur'[t] = x /\ pc'[t] \notin {"launched", "nothing"} /\ x \in Task
    BY <2>1, <1>f DEF Functions
  <2>3. Locks(t)' \subseteq {x.dep}
    BY <2>2 DEF Locks
  <2>4. CASE x.dep = None
    <3>1. Locks(t)' = {} /\ locked' = locked
      BY <2>1, <2>3, <2>4, <1>n, <1>k DEF Take
    <3> QED
      BY <3>1, <1>1
  <2>5. CASE x.dep # None
    <3>1. x.dep \in Lock /\ ~ locked[x.dep] /\ locked' = [locked EXCEPT ![x.dep] = TRUE]
      BY <2>1, <2>2, <2>5, <1>n DEF Take, CanLock
    <3> QED
      BY <3>1, <2>3, <1>2
  <2> QED
    BY <2>4, <2>5
<1>5. CASE Launch(t) \/ LaunchNothing(t)
  <2>1. /\ pos[t][2] \in Lock /\ cur[t] = None
    BY <1>5, <1>f DEF Launch, LaunchNothing, AtPlace, Lock
  <2>2. pc'[t] \in {"launched", "nothing"} /\ cur' = cur /\ pos' = pos /\ ~ locked[pos[t][2]]
        /\ locked' = [locked EXCEPT ![pos[t][2]] = TRUE]
    BY <1>5, <1>f DEF Launch, LaunchNothing, Goto, Functions
  <2>3. Locks(t)' \subseteq {pos[t][2]}
    BY <2>1, <2>2 DEF Locks
  <2> QED
    BY <2>1, <2>2, <2>3, <1>2
<1>6. CASE LaunchDone(t) \/ LeaveSubgrid(t)
  <2>1. pos[t][2] \in Lock /\ cur[t] = None /\ pos[t][2] \in Locks(t)
    BY <1>6, <1>f DEF LaunchDone, LeaveSubgrid, AtPlace, Lock, Locks
  <2>2. pc'[t] \in {"get", "launch"} /\ cur' = cur /\ locked' = [locked EXCEPT ![pos[t][2]] = FALSE]
    BY <1>6, <1>f DEF LaunchDone, LeaveSubgrid, NextSubgrid, Goto, Functions
  <2>3. Locks(t)' = {}
    BY <2>1, <2>2 DEF Locks
  <2> QED
    BY <2>1, <2>2, <2>3, <1>3
<1>7. CASE Finish(t)
  <2>1. cur[t] \in Task
    BY <1>7, <1>f DEF Finish, AtPlace
  <2>2. pc'[t] \notin {"launched", "nothing"} /\ cur'[t] = None /\ locked' = Give(cur[t])
    BY <1>7, <1>f DEF Finish, Goto, Functions
  <2>3. Locks(t)' = {}
    BY <2>2 DEF Locks
  <2>4. CASE cur[t].dep = None
    <3>1. locked' = locked
      BY <2>2, <2>4 DEF Give
    <3> QED
      BY <3>1, <2>3, <1>1
  <2>5. CASE cur[t].dep # None
    <3>1. cur[t].dep \in Locks(t) /\ locked' = [locked EXCEPT ![cur[t].dep] = FALSE]
      BY <2>1, <2>2, <2>5, <1>n DEF Give, Locks
    <3> QED
      BY <3>1, <2>3, <1>3, <1>k
  <2> QED
    BY <2>4, <2>5
<1>8. ASSUME cur' = cur, locked' = locked, pc'[t] \notin {"launched", "nothing"} PROVE Locking'
  <2>1. Locks(t)' \subseteq Locks(t)
    BY <1>8 DEF Locks
  <2> QED
    BY <2>1, <1>8, <1>1
<1>9. CASE GetNothing(t) \/ While(t) \/ ReadLargest(t) \/ LaunchFails(t)
  BY <1>9, <1>8, <1>f DEF GetNothing, While, ReadLargest, LaunchFails, NextSubgrid, Goto, Functions
<1>10. CASE EmitDiscrete(t) \/ Traverse(t) \/ Reemit(t) \/ Count(t) \/ FreeInput(t)
  <2>1. cur' = cur /\ locked' = locked /\ pc'[t] \in {"finish", "count", "free"}
    BY <1>10, <1>f DEF EmitDiscrete, Traverse, Reemit, Count, FreeInput, Goto, Functions
  <2> QED
    BY <2>1, <1>8
<1>11. CASE StartEmission(t) \/ EmitPacket(t) \/ AddEmitted(t) \/ EmissionDone(t) \/ CheckLeft(t)
  BY <1>11, <1>8, <1>f DEF StartEmission, EmitPacket, AddEmitted, EmissionDone, CheckLeft, Goto, Functions
<1>12. CASE AddFlush(t) \/ Flush(t) \/ AddFlushed(t) \/ AddTask(t) \/ TestEmpty(t) \/ TestDone(t)
  BY <1>12, <1>8, <1>f DEF AddFlush, Flush, AddFlushed, AddTask, TestEmpty, TestDone, Goto, Functions
<1> QED
  BY <1>4, <1>5, <1>6, <1>7, <1>9, <1>10, <1>11, <1>12 DEF Step

-----------------------------------------------------------------------------
(* Buffers that change hands between the slots, the queues and thread t    *)
(* only, or that are new, leave every buffer with one holder.              *)
LEMMA Exchange ==
  ASSUME NEW t \in Thread, NEW U, NEW S, NEW Q, NEW M, NEW U2, NEW S2, NEW Q2, NEW M2,
         Apart(U, S, Q, M),
         \A u \in Thread \ {t} : M2[u] = M[u],
         S2 \cap Q2 = {}, S2 \cap M2[t] = {}, Q2 \cap M2[t] = {},
         (S2 \cup Q2 \cup M2[t]) \cap (U \ (S \cup Q \cup M[t])) = {},
         U2 = (S2 \cup Q2 \cup M2[t]) \cup (U \ (S \cup Q \cup M[t]))
  PROVE  Apart(U2, S2, Q2, M2)
<1>1. \A u \in Thread \ {t} : M2[u] \subseteq U \ (S \cup Q \cup M[t])
  BY DEF Apart
<1>2. \A b \in U \ (S \cup Q \cup M[t]) : \E u \in Thread \ {t} : b \in M2[u]
  BY DEF Apart
<1>3. U2 = S2 \cup Q2 \cup UNION {M2[u] : u \in Thread}
  <2>1. ASSUME NEW b \in U2 PROVE b \in S2 \cup Q2 \cup UNION {M2[u] : u \in Thread}
    BY <1>2
  <2>2. ASSUME NEW b \in S2 \cup Q2 \cup UNION {M2[u] : u \in Thread} PROVE b \in U2
    BY <1>1
  <2> QED
    BY <2>1, <2>2
<1>4. \A u \in Thread : M2[u] \cap S2 = {} /\ M2[u] \cap Q2 = {}
  BY <1>1
<1>5. \A u, v \in Thread : u # v => M2[u] \cap M2[v] = {}
  <2>1. \A u, v \in Thread \ {t} : u # v => M2[u] \cap M2[v] = {}
    BY DEF Apart
  <2>2. \A u \in Thread \ {t} : M2[t] \cap M2[u] = {}
    BY <1>1
  <2> QED
    BY <2>1, <2>2
<1> QED
  BY <1>3, <1>4, <1>5 DEF Apart

(* The largest buffer depends on the sizes of the buffers in the slots.    *)
LEMMA SameLargest ==
  ASSUME NEW m, NEW m2, NEW act \in Slots, \A b \in InSlots(act) : m2[b] = m[b]
  PROVE  LargestOf(m2, act) = LargestOf(m, act)
<1>1. \A d \in Dir : SizeOf(m2, act[d]) = SizeOf(m, act[d])
  BY DEF SizeOf, Slots, InSlots
<1>2. [d \in Dir |-> SizeOf(m2, act[d])] = [d \in Dir |-> SizeOf(m, act[d])]
  BY <1>1
<1> QED
  BY <1>2 DEF LargestOf

(* The buffers of the holders are in use, and of one holder only. *)
LEMMA HoldersApart ==
  ASSUME InMemory
  PROVE  /\ AllSlots \subseteq Used(buf) /\ BuffersOf(queued) \subseteq Used(buf)
         /\ AllSlots \cap BuffersOf(queued) = {}
         /\ \A t \in Thread : /\ Mine(t) \subseteq Used(buf)
                              /\ Mine(t) \cap AllSlots = {} /\ Mine(t) \cap BuffersOf(queued) = {}
         /\ \A t, u \in Thread : t # u => Mine(t) \cap Mine(u) = {}
         /\ \A b \in Used(buf) : b \in AllSlots \/ b \in BuffersOf(queued) \/ \E t \in Thread : b \in Mine(t)
         /\ \A b \in Used(buf) : b \in Buffer /\ buf[b] \in PhotonBuffer /\ buf[b] # None
  BY DEF InMemory, Held, Apart, Used, MemoryType, Memory

(* A step that leaves the slots alone leaves the largest buffers known. *)
LEMMA LargestKept ==
  ASSUME InMemory, NEW t \in Thread, Others(t), active' = active, largest' = largest,
         \A b \in AllSlots : buf'[b] = buf[b], pc[t] # "launched"
  PROVE  LargestKnown'
<1> SUFFICES ASSUME NEW g \in Grid, ~ Launching(g)' PROVE largest'[g] = LargestOf(buf', active'[g])
  BY DEF LargestKnown
<1>1. ~ Launching(g)
  BY DEF Launching, Others
<1>2. largest[g] = LargestOf(buf, active[g]) /\ active[g] \in Slots
  BY <1>1 DEF InMemory, MemoryType, LargestKnown
<1>3. \A b \in InSlots(active[g]) : buf'[b] = buf[b]
  BY DEF AllSlots
<1> QED
  BY <1>2, <1>3, SameLargest

(* What the others have does not change as long as their buffers do not. *)
LEMMA OthersKeep ==
  ASSUME IInv, NEW t \in Thread, Others(t), NEW u \in Thread \ {t},
         \A b \in Mine(u) : buf'[b] = buf[b]
  PROVE  ThreadMemory(u)' /\ Mine(u)' = Mine(u)
<1>1. pc'[u] = pc[u] /\ cur'[u] = cur[u] /\ adding'[u] = adding[u]
  BY DEF Others
<1>2. AtPlace(pc[u], cur[u], adding[u], pos[u]) /\ ThreadMemory(u)
  BY DEF IInv, Control, InMemory
<1>3. \A x \in adding[u] : x \in Carrier /\ x.of \in Mine(u)
  BY <1>2 DEF AtPlace, Mine, BuffersOf
<1>4. InHand(u) => cur[u].of \in Mine(u)
  BY TaskKinds DEF Mine, InHand
<1>5. pc[u] \in {"count", "free"} => InHand(u)
  BY <1>2 DEF AtPlace, InHand
<1>6. Mine(u)' = Mine(u) /\ InHand(u)' = InHand(u)
  BY <1>1 DEF Mine, InHand
<1>7. OneEach(adding'[u]) /\ (\A x \in adding'[u] : Fit(x, buf')) /\ (InHand(u) => Fit(cur'[u], buf'))
  BY <1>1, <1>2, <1>3, <1>4 DEF ThreadMemory, Fit
<1>8. Handling(pc'[u], cur'[u], adding'[u], buf')
  BY <1>1, <1>2, <1>4, <1>5 DEF ThreadMemory, Handling
<1> QED
  BY <1>6, <1>7, <1>8 DEF ThreadMemory

(* A step that leaves the slots alone: buffers change hands between the    *)
(* queues and the thread, which may write to its own ones.                 *)
LEMMA SlotsKept ==
  ASSUME IInv, NEW t \in Thread, Others(t), active' = active, MemoryType',
         \A b \in Used(buf) \ Mine(t) : buf'[b] = buf[b],
         NEW K, K = Used(buf) \ (BuffersOf(queued) \cup Mine(t)),
         BuffersOf(queued)' \cap Mine(t)' = {},
         BuffersOf(queued)' \cap K = {}, Mine(t)' \cap K = {},
         Used(buf)' = BuffersOf(queued)' \cup Mine(t)' \cup K,
         OneEach(queued)', \A x \in queued' \cap Carrier : Fit(x, buf'),
         ThreadMemory(t)', LargestKnown'
  PROVE  InMemory'
<1>1. InMemory
  BY DEF IInv
<1>2. \A u \in Thread \ {t} : ThreadMemory(u)' /\ Mine(u)' = Mine(u)
  <2>1. \A u \in Thread \ {t} : \A b \in Mine(u) : buf'[b] = buf[b]
    BY <1>1, HoldersApart
  <2> QED
    BY <2>1, OthersKeep
<1>3. \A b \in AllSlots : buf'[b] = buf[b]
  BY <1>1, HoldersApart
<1>4. \A g \in Grid : Filled(buf', active'[g], g)
  <2> SUFFICES ASSUME NEW g \in Grid, NEW d \in Dir, active[g][d] # None
               PROVE  Filling(buf'[active[g][d]], g, d)
    BY DEF Filled
  <2>1. active[g][d] \in AllSlots
    <3>1. active[g][d] \in Buffer
      BY <1>1 DEF InMemory, MemoryType, Slots
    <3> QED
      BY <3>1 DEF AllSlots, InSlots
  <2>2. Filling(buf[active[g][d]], g, d)
    BY <1>1 DEF InMemory, Filled
  <2> QED
    BY <2>1, <2>2, <1>3
<1>5. Held'
  <2> DEFINE M == [u \in Thread |-> Mine(u)]
             M2 == [u \in Thread |-> Mine(u)']
  <2>1. Apart(Used(buf), AllSlots, BuffersOf(queued), M)
    BY <1>1 DEF InMemory, Held
  <2>2. \A u \in Thread \ {t} : M2[u] = M[u]
    BY <1>2
  <2>3. M[t] = Mine(t) /\ M2[t] = Mine(t)'
    OBVIOUS
  <2>4. AllSlots' = AllSlots
    BY DEF AllSlots
  <2>5. AllSlots \subseteq K
    BY <1>1, HoldersApart
  <2>6. Apart(Used(buf)', AllSlots, BuffersOf(queued)', M2)
    <3> HIDE DEF M, M2
    <3> DEFINE U == Used(buf) S == AllSlots Q == BuffersOf(queued)
               U2 == Used(buf)' Q2 == BuffersOf(queued)'
    <3>1. K = U \ (Q \cup M[t])
      BY <2>3
    <3>2. S \cap Q2 = {} /\ S \cap M2[t] = {} /\ Q2 \cap M2[t] = {}
      BY <2>3, <2>5
    <3>3. (S \cup Q2 \cup M2[t]) \cap (U \ (S \cup Q \cup M[t])) = {}
      BY <2>3, <3>1
    <3>4. U2 = (S \cup Q2 \cup M2[t]) \cup (U \ (S \cup Q \cup M[t]))
      BY <2>3, <3>1, <2>5
    <3> HIDE DEF U, S, Q, U2, Q2
    <3>5. Apart(U, S, Q, M)
      BY <2>1 DEF U, S, Q
    <3>6. Apart(U2, S, Q2, M2)
      BY <3>2, <3>3, <3>4, <3>5, <2>2, Exchange
    <3> QED
      BY <3>6 DEF U2, S, Q2
  <2> QED
    BY <2>4, <2>6 DEF Held
<1>6. \A u \in Thread : ThreadMemory(u)'
  BY <1>2
<1> QED
  BY <1>4, <1>5, <1>6 DEF InMemory, OneEach

(* The first free buffer is taken. *)
LEMMA NewBuffer ==
  ASSUME IInv, Room, NEW r \in PhotonBuffer, NEW b, b = FreeBuffer(buf),
         buf' = [buf EXCEPT ![b] = r]
  PROVE  /\ b \in Buffer /\ b \notin Used(buf) /\ buf' \in Memory
         /\ Used(buf)' = Used(buf) \cup {b} /\ buf'[b] = r
         /\ \A c \in Buffer : c # b => buf'[c] = buf[c]
<1>1. Buffer \ Used(buf) # {}
  BY FS_EmptySet DEF Room
<1>2. b \in Buffer /\ b \notin Used(buf)
  BY <1>1, FreeIsFree
<1>3. buf \in Memory /\ r # None
  BY NoneAssumption DEF IInv, InMemory, MemoryType
<1>4. buf' \in Memory /\ buf'[b] = r /\ \A c \in Buffer : c # b => buf'[c] = buf[c]
  BY <1>2, <1>3 DEF Memory
<1> QED
  BY <1>2, <1>3, <1>4 DEF Used

(* The buffers of the tasks in a set, with a task more or less. *)
LEMMA BuffersOfMore ==
  ASSUME NEW X, NEW x
  PROVE  /\ x \in Carrier => BuffersOf(X \cup {x}) = BuffersOf(X) \cup {x.of}
         /\ x \notin Carrier => (X \cup {x}) \cap Carrier = X \cap Carrier
                                /\ BuffersOf(X \cup {x}) = BuffersOf(X)
                                /\ BuffersOf(X \ {x}) = BuffersOf(X)
         /\ x \in Carrier /\ x \in X /\ OneEach(X) => BuffersOf(X \ {x}) = BuffersOf(X) \ {x.of}
<1>1. x \in Carrier => BuffersOf(X \cup {x}) = BuffersOf(X) \cup {x.of}
  BY DEF BuffersOf
<1>2. ASSUME x \notin Carrier
      PROVE  (X \cup {x}) \cap Carrier = X \cap Carrier /\ (X \ {x}) \cap Carrier = X \cap Carrier
  BY <1>2
<1>3. ASSUME x \in Carrier, x \in X, OneEach(X) PROVE BuffersOf(X \ {x}) = BuffersOf(X) \ {x.of}
  BY <1>3 DEF BuffersOf, OneEach
<1> QED
  BY <1>1, <1>2, <1>3 DEF BuffersOf

(* No task that a thread finds in a queue has a buffer of another holder,  *)
(* and a thread that is not at work has none.                              *)
LEMMA Idle ==
  ASSUME IInv, NEW t \in Thread, adding[t] = {}, cur[t] \notin Carrier
  PROVE  Mine(t) = {}
  BY DEF Mine, BuffersOf, InHand

(* A step that only moves the thread from one place to another one. *)
LEMMA Stays ==
  ASSUME IInv, NEW t \in Thread, Others(t), UNCHANGED <<buf, active, queued, adding, cur>>,
         MemoryType', LargestKnown', pc'[t] \notin {"count", "free"},
         cur[t] \in Carrier => (pc'[t] = "finish" <=> pc[t] = "finish")
  PROVE  InMemory'
<1>1. Mine(t)' = Mine(t) /\ InHand(t)' = InHand(t)
  BY DEF Mine, InHand
<1>2. ThreadMemory(t)'
  <2>1. ThreadMemory(t)
    BY DEF IInv, InMemory
  <2>2. Handling(pc'[t], cur'[t], adding'[t], buf')
    BY DEF Handling
  <2>3. OneEach(adding'[t]) /\ (\A x \in adding'[t] : Fit(x, buf')) /\ (InHand(t)' => Fit(cur'[t], buf'))
    BY <1>1, <2>1 DEF ThreadMemory
  <2> QED
    BY <2>2, <2>3 DEF ThreadMemory
<1>3. InMemory /\ OneEach(queued)' /\ \A x \in queued' \cap Carrier : Fit(x, buf')
  BY DEF IInv, InMemory, OneEach
<1>4. BuffersOf(queued)' = BuffersOf(queued) /\ Used(buf)' = Used(buf)
  BY DEF BuffersOf, Used
<1> DEFINE K == Used(buf) \ (BuffersOf(queued) \cup Mine(t))
<1>5. /\ BuffersOf(queued)' \cap Mine(t)' = {}
      /\ BuffersOf(queued)' \cap K = {} /\ Mine(t)' \cap K = {}
      /\ Used(buf)' = BuffersOf(queued)' \cup Mine(t)' \cup K
  BY <1>1, <1>3, <1>4, HoldersApart
<1> HIDE DEF K
<1>6. K = Used(buf) \ (BuffersOf(queued) \cup Mine(t))
  BY DEF K
<1> QED
  BY <1>2, <1>3, <1>5, <1>6, SlotsKept

(* A thread gets a task from a queue, with its buffer. *)
LEMMA GetTaskKeeps ==
  ASSUME IInv, NEW t \in Thread, Others(t), GetTask(t)
  PROVE  InMemory'
<1>f. Functions /\ AtPlace(pc[t], cur[t], adding[t], pos[t]) /\ queued \subseteq Task /\ InMemory
  BY DEF IInv, Control, InMemory, MemoryType
<1>1. PICK x \in queued : /\ cur' = [cur EXCEPT ![t] = x] /\ queued' = queued \ {x}
                          /\ pc' = [pc EXCEPT ![t] = IF pc[t] = "get" THEN "exec" ELSE "while"]
  BY DEF GetTask, Goto
<1>2. /\ pc[t] \in {"start", "get", "last"} /\ adding' = adding /\ buf' = buf /\ active' = active
      /\ largest' = largest /\ stale' = stale /\ cont' = cont
  BY DEF GetTask, Looking, memory, source
<1>3. /\ cur'[t] = x /\ x \in Task /\ pc'[t] \in {"exec", "while"}
      /\ adding[t] = {} /\ cur[t] = None /\ cur[t] \notin Carrier
  BY <1>1, <1>2, <1>f, TaskKinds DEF Functions, AtPlace
<1>4. Mine(t) = {} /\ BuffersOf(adding[t]) = {}
  BY <1>3, Idle DEF BuffersOf
<1>5. MemoryType'
  BY <1>1, <1>2, <1>f DEF InMemory, MemoryType
<1>6. OneEach(queued)' /\ \A y \in queued' \cap Carrier : Fit(y, buf')
  BY <1>1, <1>2, <1>f DEF InMemory, OneEach
<1>7. ThreadMemory(t)'
  <2>1. x \in Carrier => Fit(x, buf)
    BY <1>f DEF InMemory
  <2> QED
    BY <2>1, <1>2, <1>3 DEF ThreadMemory, OneEach, InHand, Handling
<1>8. LargestKnown'
  BY <1>2, <1>f, LargestKept
<1> DEFINE K == Used(buf) \ (BuffersOf(queued) \cup Mine(t))
<1>9. /\ BuffersOf(queued)' \cap Mine(t)' = {}
      /\ BuffersOf(queued)' \cap K = {} /\ Mine(t)' \cap K = {}
      /\ Used(buf)' = BuffersOf(queued)' \cup Mine(t)' \cup K
  <2>1. BuffersOf(queued) \subseteq Used(buf) /\ Used(buf)' = Used(buf) /\ Used(buf) \subseteq Buffer
    BY <1>2, <1>f, HoldersApart DEF Used
  <2>2. BuffersOf(queued)' = BuffersOf(queued \ {x})
    BY <1>1 DEF BuffersOf
  <2>3. CASE x \in Carrier
    <3>1. BuffersOf(queued)' = BuffersOf(queued) \ {x.of}
      <4>1. OneEach(queued)
        BY <1>f DEF InMemory
      <4> QED
        BY <2>2, <2>3, <4>1, BuffersOfMore, Zenon
    <3>2. x.of \in BuffersOf(queued)
      BY <2>3 DEF BuffersOf
    <3>3. Mine(t)' = {x.of}
      BY <2>1, <2>3, <3>2, <1>2, <1>3, <1>4 DEF Mine, InHand, BuffersOf
    <3> QED
      BY <2>1, <3>1, <3>2, <3>3, <1>4
  <2>4. CASE x \notin Carrier
    <3>1. BuffersOf(queued)' = BuffersOf(queued)
      BY <2>2, <2>4, BuffersOfMore, Zenon
    <3>2. Mine(t)' = {}
      BY <2>4, <1>2, <1>3, <1>4 DEF Mine, InHand, BuffersOf
    <3> QED
      BY <2>1, <3>1, <3>2, <1>4
  <2> QED
    BY <2>3, <2>4
<1>10. K = Used(buf) \ (BuffersOf(queued) \cup Mine(t))
  OBVIOUS
<1>11. \A b \in Used(buf) \ Mine(t) : buf'[b] = buf[b]
  BY <1>2
<1> HIDE DEF K
<1> QED
  BY <1>2, <1>5, <1>6, <1>7, <1>8, <1>9, <1>10, <1>11, SlotsKept

(* A thread adds a task to a queue, with its buffer. *)
LEMMA AddKeeps ==
  ASSUME IInv, NEW t \in Thread, Others(t), NEW x \in adding[t],
         queued' = queued \cup {x}, adding'[t] = adding[t] \ {x},
         UNCHANGED <<buf, active, largest, stale, cont, cur>>, cur[t] \notin Carrier,
         pc[t] # "launched", pc'[t] \notin {"count", "free"}
  PROVE  InMemory'
<1>f. Functions /\ AtPlace(pc[t], cur[t], adding[t], pos[t]) /\ queued \subseteq Task /\ InMemory
  BY DEF IInv, Control, InMemory, MemoryType
<1>3. x \in Carrier /\ x \in Task
  BY <1>f, TaskKinds DEF AtPlace
<1>4. ThreadMemory(t)
  BY <1>f DEF InMemory
<1>5. MemoryType'
  BY <1>3, <1>f DEF InMemory, MemoryType
<1>m. Mine(t) = BuffersOf(adding[t]) /\ Mine(t)' = BuffersOf(adding[t] \ {x})
  BY <1>3 DEF Mine, InHand, BuffersOf
<1>n. Mine(t)' = Mine(t) \ {x.of} /\ x.of \in Mine(t)
  <2>1. OneEach(adding[t])
    BY <1>4 DEF ThreadMemory
  <2>2. BuffersOf(adding[t] \ {x}) = BuffersOf(adding[t]) \ {x.of}
    BY <2>1, <1>3, BuffersOfMore, Zenon
  <2>3. x.of \in BuffersOf(adding[t])
    BY <1>3 DEF BuffersOf
  <2> QED
    BY <2>2, <2>3, <1>m
<1>q. BuffersOf(queued)' = BuffersOf(queued) \cup {x.of}
  <2>1. BuffersOf(queued)' = BuffersOf(queued \cup {x})
    BY DEF BuffersOf
  <2> QED
    BY <2>1, <1>3, BuffersOfMore, Zenon
<1>6. OneEach(queued)' /\ \A y \in queued' \cap Carrier : Fit(y, buf')
  <2>1. \A y \in queued \cap Carrier : y.of # x.of
    <3>1. \A y \in queued \cap Carrier : y.of \in BuffersOf(queued)
      BY DEF BuffersOf
    <3> QED
      BY <3>1, <1>n, <1>f, HoldersApart
  <2>2. OneEach(queued)'
    BY <2>1, <1>f DEF InMemory, OneEach
  <2>3. \A y \in queued' \cap Carrier : Fit(y, buf')
    BY <1>4, <1>f DEF InMemory, ThreadMemory
  <2> QED
    BY <2>2, <2>3
<1>7. ThreadMemory(t)'
  BY <1>3, <1>4 DEF ThreadMemory, OneEach, InHand, Handling
<1>8. LargestKnown'
  BY <1>f, LargestKept
<1> DEFINE K == Used(buf) \ (BuffersOf(queued) \cup Mine(t))
<1>9. /\ BuffersOf(queued)' \cap Mine(t)' = {}
      /\ BuffersOf(queued)' \cap K = {} /\ Mine(t)' \cap K = {}
      /\ Used(buf)' = BuffersOf(queued)' \cup Mine(t)' \cup K
  <2>1. BuffersOf(queued) \subseteq Used(buf) /\ Mine(t) \subseteq Used(buf) /\ Mine(t) \cap BuffersOf(queued) = {}
    BY <1>f, HoldersApart
  <2>2. Used(buf)' = Used(buf)
    BY DEF Used
  <2> QED
    BY <2>1, <2>2, <1>n, <1>q
<1>10. K = Used(buf) \ (BuffersOf(queued) \cup Mine(t))
  OBVIOUS
<1>11. \A b \in Used(buf) \ Mine(t) : buf'[b] = buf[b]
  OBVIOUS
<1> HIDE DEF K
<1> QED
  BY <1>5, <1>6, <1>7, <1>8, <1>9, <1>10, <1>11, SlotsKept

LEMMA AddTaskKeeps ==
  ASSUME IInv, NEW t \in Thread, Others(t), AddTask(t) \/ AddEmitted(t) \/ AddFlushed(t)
  PROVE  InMemory'
<1>f. Functions /\ AtPlace(pc[t], cur[t], adding[t], pos[t])
  BY DEF IInv, Control
<1>1. UNCHANGED <<buf, active, largest, stale, cont, cur>>
  BY DEF AddTask, AddEmitted, AddFlushed, memory, source
<1>2. CASE AddTask(t)
  <2>1. pc[t] = "add" /\ pc'[t] \in {"get", "add"}
    BY <1>2, <1>f DEF AddTask, Goto, Functions
  <2>2. cur[t] \notin Carrier
    BY <2>1, <1>f, TaskKinds DEF AtPlace
  <2>3. PICK x \in adding[t] : queued' = queued \cup {x} /\ adding' = [adding EXCEPT ![t] = @ \ {x}]
    BY <1>2 DEF AddTask
  <2>4. adding'[t] = adding[t] \ {x}
    BY <2>3, <1>f DEF Functions
  <2> QED
    BY <2>1, <2>2, <2>3, <2>4, <1>1, AddKeeps
<1>3. CASE AddEmitted(t) \/ AddFlushed(t)
  <2>1. /\ pc[t] \in {"emit add", "flush add"} /\ pc'[t] \in {"emit", "exec", "finish"}
        /\ queued' = queued \cup adding[t] /\ adding'[t] = {}
    BY <1>3, <1>f DEF AddEmitted, AddFlushed, Goto, Functions
  <2>2. cur[t] \in Task /\ cur[t].type \in {"continuous", "flush"}
    BY <2>1, <1>f DEF AtPlace
  <2>3. cur[t] \notin Carrier
    BY <2>2, TaskKinds
  <2>4. PICK x \in adding[t] : adding[t] = {x}
    BY <2>1, <1>f DEF AtPlace
  <2>5. queued' = queued \cup {x} /\ adding'[t] = adding[t] \ {x}
    BY <2>1, <2>4
  <2> QED
    BY <2>1, <2>3, <2>5, <1>1, AddKeeps
<1> QED
  BY <1>2, <1>3

(* The tasks in the queues are not disturbed by a step that writes to the  *)
(* buffers of the thread only; nor is the ownership, if the thread keeps   *)
(* its buffers in use or frees them.                                       *)
LEMMA OwnOnly ==
  ASSUME IInv, NEW t \in Thread, Others(t), active' = active, largest' = largest, queued' = queued,
         MemoryType', pc[t] # "launched",
         \A b \in Used(buf) \ Mine(t) : buf'[b] = buf[b],
         Used(buf)' \ Used(buf) = Mine(t)' \ Mine(t),
         Used(buf) \ Used(buf)' = Mine(t) \ Mine(t)',
         ThreadMemory(t)'
  PROVE  InMemory'
<1>f. InMemory
  BY DEF IInv
<1>q. BuffersOf(queued)' = BuffersOf(queued)
  BY DEF BuffersOf
<1>1. OneEach(queued)' /\ \A y \in queued' \cap Carrier : Fit(y, buf')
  <2>1. \A y \in queued \cap Carrier : y.of \in Used(buf) \ Mine(t)
    <3>1. \A y \in queued \cap Carrier : y.of \in BuffersOf(queued)
      BY DEF BuffersOf
    <3> QED
      BY <3>1, <1>f, HoldersApart
  <2> QED
    BY <2>1, <1>f DEF InMemory, OneEach, Fit
<1>2. LargestKnown'
  <2>1. AllSlots \subseteq Used(buf) \ Mine(t)
    BY <1>f, HoldersApart
  <2> QED
    BY <2>1, <1>f, LargestKept
<1> DEFINE K == Used(buf) \ (BuffersOf(queued) \cup Mine(t))
<1>3. /\ BuffersOf(queued)' \cap Mine(t)' = {}
      /\ BuffersOf(queued)' \cap K = {} /\ Mine(t)' \cap K = {}
      /\ Used(buf)' = BuffersOf(queued)' \cup Mine(t)' \cup K
  <2>1. BuffersOf(queued) \subseteq Used(buf) /\ Mine(t) \subseteq Used(buf) /\ Mine(t) \cap BuffersOf(queued) = {}
    BY <1>f, HoldersApart
  <2> HIDE DEF K
  <2>2. K = Used(buf) \ (BuffersOf(queued) \cup Mine(t))
    BY DEF K
  <2> DEFINE U == Used(buf) U2 == Used(buf)' M == Mine(t) M2 == Mine(t)' Q == BuffersOf(queued)
  <2>3. U2 \ U = M2 \ M /\ U \ U2 = M \ M2 /\ Q \subseteq U /\ M \subseteq U /\ M \cap Q = {} /\ K = U \ (Q \cup M)
    BY <2>1, <2>2
  <2> HIDE DEF U, U2, M, M2, Q
  <2>4. Q \cap M2 = {} /\ Q \cap K = {} /\ M2 \cap K = {} /\ U2 = Q \cup M2 \cup K
    BY <2>3
  <2> QED
    BY <2>4, <1>q DEF U2, M2, Q
<1>4. K = Used(buf) \ (BuffersOf(queued) \cup Mine(t))
  OBVIOUS
<1> HIDE DEF K
<1> QED
  BY <1>1, <1>2, <1>3, <1>4, SlotsKept

(* The task of a thread that executes something. *)
LEMMA ExecutesTask ==
  ASSUME IInv, NEW t \in Thread, NEW type, Executes(t, type)
  PROVE  /\ pc[t] = "exec" /\ cur[t] \in Task /\ cur[t].type = type /\ adding[t] = {}
         /\ type \in {"discrete", "continuous", "flush"} => cur[t] \notin Carrier
         /\ type \in {"traversal", "reemit"} => cur[t] \in Carrier /\ InHand(t)
<1>1. AtPlace(pc[t], cur[t], adding[t], pos[t])
  BY DEF IInv, Control
<1>2. pc[t] = "exec" /\ cur[t] \in Task /\ cur[t].type = type /\ adding[t] = {}
  BY <1>1 DEF Executes, AtPlace
<1> QED
  BY <1>2, TaskKinds DEF InHand

(* A task in hand has a buffer that is in use. *)
LEMMA HandBuffer ==
  ASSUME IInv, NEW t \in Thread, InHand(t)
  PROVE  /\ cur[t].of \in Mine(t) /\ cur[t].of \in Used(buf) /\ cur[t].of \in Buffer
         /\ buf[cur[t].of] \in PhotonBuffer /\ buf[cur[t].of].n \in 0 .. Capacity
<1>1. cur[t] \in Task /\ cur[t].of \in Buffer /\ cur[t].of \in Mine(t)
  BY TaskKinds DEF Mine, InHand
<1>2. cur[t].of \in Used(buf)
  BY <1>1, HoldersApart DEF IInv
<1>3. buf[cur[t].of] \in PhotonBuffer
  BY <1>2, HoldersApart DEF IInv
<1> QED
  BY <1>1, <1>2, <1>3 DEF PhotonBuffer

(* A thread takes a free buffer, and has to add a task for it. *)
LEMMA SentOff ==
  ASSUME IInv, Room, NEW t \in Thread, Others(t), NEW r \in PhotonBuffer, NEW b, b = FreeBuffer(buf),
         buf' = [buf EXCEPT ![b] = r], active' = active, largest' = largest, queued' = queued, MemoryType',
         adding' = [adding EXCEPT ![t] = {TraversalTask(b, r.grid)}],
         cur[t] \notin Carrier, adding[t] = {}, cur' = cur,
         pc[t] # "launched", pc'[t] \notin {"count", "free"}
  PROVE  InMemory'
<1> DEFINE x == TraversalTask(b, r.grid)
<1>f. Functions /\ buf \in Memory
  BY DEF IInv, Control, InMemory, MemoryType
<1>1. b \in Buffer /\ b \notin Used(buf)
  BY NewBuffer, Zenon
<1>2. Used(buf)' = Used(buf) \cup {b} /\ buf'[b] = r
  BY NewBuffer, Zenon
<1>3. \A c \in Used(buf) : buf'[c] = buf[c]
  BY <1>1, <1>f DEF Used, Memory
<1>4. x \in Carrier /\ x.of = b /\ x.dep = r.grid /\ adding'[t] = {x}
  BY <1>1, <1>f DEF Carrier, TraversalTask, PhotonBuffer, Functions
<1> HIDE DEF x
<1>5. Mine(t) = {} /\ Mine(t)' = {b}
  <2>1. Mine(t) = {}
    BY DEF Mine, BuffersOf, InHand
  <2>2. BuffersOf(adding[t])' = {b}
    BY <1>4 DEF BuffersOf
  <2>3. ~ InHand(t)'
    BY DEF InHand
  <2> QED
    BY <2>1, <2>2, <2>3 DEF Mine
<1>6. ThreadMemory(t)'
  <2>1. Fit(x, buf')
    BY <1>2, <1>4 DEF Fit
  <2> QED
    BY <2>1, <1>4 DEF ThreadMemory, OneEach, InHand, Handling
<1>7. Used(buf)' \ Used(buf) = Mine(t)' \ Mine(t) /\ Used(buf) \ Used(buf)' = Mine(t) \ Mine(t)'
  BY <1>1, <1>2, <1>5
<1> QED
  BY <1>3, <1>6, <1>7, OwnOnly

(* The discrete source makes a new buffer and a task for it. *)
LEMMA EmitDiscreteKeeps ==
  ASSUME IInv, Room, NEW t \in Thread, Others(t), EmitDiscrete(t)
  PROVE  InMemory'
<1>f. Functions /\ InMemory
  BY DEF IInv, Control
<1> DEFINE s == cur[t].of
           r == [grid |-> s.grid, dir |-> "in", n |-> s.n]
<1>1. /\ Executes(t, "discrete") /\ buf' = [buf EXCEPT ![FreeBuffer(buf)] = r]
      /\ adding' = [adding EXCEPT ![t] = {TraversalTask(FreeBuffer(buf), s.grid)}]
      /\ pc'[t] = "finish" /\ cur' = cur /\ active' = active /\ largest' = largest
      /\ queued' = queued /\ stale' = stale /\ cont' = cont
  BY <1>f DEF EmitDiscrete, Goto, Functions, source
<1>2. s \in Discrete /\ cur[t] \notin Carrier /\ adding[t] = {} /\ pc[t] = "exec"
  BY <1>1, ExecutesTask, TaskKinds
<1>3. r \in PhotonBuffer /\ s.grid \in Grid
  BY <1>2, SourceAssumption, SizeAssumption DEF PhotonBuffer, Dir
<1>4. PICK c : c = FreeBuffer(buf)
  OBVIOUS
<1>5. PICK rr \in PhotonBuffer : rr = r
  BY <1>3
<1>6. buf' = [buf EXCEPT ![c] = rr] /\ adding' = [adding EXCEPT ![t] = {TraversalTask(c, rr.grid)}]
  BY <1>1, <1>4, <1>5
<1> HIDE DEF r, s
<1>7. buf' \in Memory
  BY <1>4, <1>6, NewBuffer, Zenon
<1>8. MemoryType'
  BY <1>1, <1>7, <1>f DEF InMemory, MemoryType
<1> QED
  BY <1>1, <1>2, <1>4, <1>6, <1>8, SentOff

(* The buffer of a reemission is used for the packets that are reemitted. *)
LEMMA ReemitKeeps ==
  ASSUME IInv, NEW t \in Thread, Others(t), Reemit(t)
  PROVE  InMemory'
<1>f. Functions /\ InMemory
  BY DEF IInv, Control
<1> DEFINE b == cur[t].of
<1>1. PICK k \in 0 .. buf[b].n :
        /\ buf' = [buf EXCEPT ![b].n = k]
        /\ adding' = [adding EXCEPT ![t] = IF k > 0 THEN {TraversalTask(b, buf[b].grid)} ELSE {}]
  BY DEF Reemit
<1>2. /\ Executes(t, "reemit") /\ pc'[t] = "count" /\ cur' = cur /\ active' = active
      /\ largest' = largest /\ queued' = queued /\ stale' = stale /\ cont' = cont
  BY <1>f DEF Reemit, Goto, Functions, source
<1>3. /\ cur[t] \in Carrier /\ InHand(t) /\ adding[t] = {} /\ pc[t] = "exec" /\ cur[t].type = "reemit"
      /\ b \in Mine(t) /\ b \in Used(buf) /\ b \in Buffer /\ buf[b] \in PhotonBuffer
      /\ buf[b].n \in 0 .. Capacity
  BY <1>2, ExecutesTask, HandBuffer
<1>4. k \in 0 .. Capacity /\ buf \in Memory
  BY <1>1, <1>3, SizeAssumption, <1>f DEF InMemory, MemoryType
<1> DEFINE r == [buf[b] EXCEPT !.n = k]
<1>5. r \in PhotonBuffer /\ r.grid = buf[b].grid /\ r.n = k
  BY <1>3, <1>4 DEF PhotonBuffer
<1>6. buf' = [buf EXCEPT ![b] = r]
  BY <1>1
<1> HIDE DEF r
<1>7. /\ buf' \in Memory /\ buf'[b] = r /\ \A c \in Buffer : c # b => buf'[c] = buf[c]
  BY <1>3, <1>4, <1>5, <1>6 DEF Memory
<1>8. Used(buf)' = Used(buf)
  BY <1>3, <1>5, <1>7, NoneAssumption DEF Used
<1>9. MemoryType'
  BY <1>2, <1>7, <1>f DEF InMemory, MemoryType
<1>10. adding'[t] = IF k > 0 THEN {TraversalTask(b, buf[b].grid)} ELSE {}
  BY <1>1, <1>f DEF Functions
<1>11. \A x \in adding'[t] : x.of = b /\ x = TraversalTask(b, buf[b].grid) /\ Fit(x, buf')
  BY <1>5, <1>7, <1>10 DEF TraversalTask, Fit
<1>12. InHand(t)'
  BY <1>2, <1>3 DEF InHand
<1>13. Mine(t) = {b} /\ Mine(t)' = {b}
  <2>1. BuffersOf(adding[t]) = {} /\ BuffersOf(adding[t])' \subseteq {b}
    BY <1>3, <1>11 DEF BuffersOf
  <2> QED
    BY <2>1, <1>12, <1>3, <1>2 DEF Mine
<1>14. ThreadMemory(t)'
  <2>1. OneEach(adding'[t])
    BY <1>11 DEF OneEach
  <2>2. Fit(cur'[t], buf')
    BY <1>2, <1>3 DEF Fit
  <2>3. Handling(pc'[t], cur'[t], adding'[t], buf')
    <3>1. k > 0 => \E y \in adding'[t] : y.of = b
      BY <1>10, <1>11
    <3>2. k = 0 => adding'[t] = {}
      BY <1>10
    <3> QED
      BY <3>1, <3>2, <1>2, <1>3, <1>5, <1>7 DEF Handling
  <2> QED
    BY <2>1, <2>2, <2>3, <1>11 DEF ThreadMemory
<1>15. \A c \in Used(buf) \ Mine(t) : buf'[c] = buf[c]
  BY <1>7, <1>13 DEF Used
<1>16. Used(buf)' \ Used(buf) = Mine(t)' \ Mine(t) /\ Used(buf) \ Used(buf)' = Mine(t) \ Mine(t)'
  BY <1>8, <1>13
<1> HIDE DEF b
<1> QED
  BY <1>2, <1>3, <1>9, <1>14, <1>15, <1>16, OwnOnly

(* The done packets are counted; the buffer of a reemission now belongs to *)
(* the new task, or is freed next.                                         *)
LEMMA CountKeeps ==
  ASSUME IInv, NEW t \in Thread, Others(t), Count(t)
  PROVE  InMemory'
<1>f. Functions /\ InMemory /\ AtPlace(pc[t], cur[t], adding[t], pos[t]) /\ ThreadMemory(t)
  BY DEF IInv, Control, InMemory
<1>1. /\ pc[t] = "count" /\ UNCHANGED <<buf, active, largest, queued, adding, cur, stale, cont>>
      /\ pc'[t] = IF cur[t].type = "traversal" \/ buf[cur[t].of].n = 0 THEN "free" ELSE "finish"
  BY <1>f DEF Count, Goto, Functions, memory, source
<1>2. InHand(t) /\ cur[t] \in Task /\ cur[t].type \in {"traversal", "reemit"}
  BY <1>1, <1>f, TaskKinds DEF AtPlace, InHand
<1>3. cur[t].of \in Mine(t) /\ buf[cur[t].of].n \in 0 .. Capacity
  BY <1>2, HandBuffer
<1>4. adding[t] \subseteq Carrier
  BY <1>f DEF AtPlace
<1>5. Mine(t)' = Mine(t)
  <2>1. CASE pc'[t] = "free"
    BY <2>1, <1>1, <1>2 DEF Mine, InHand
  <2>2. CASE pc'[t] = "finish"
    <3>1. cur[t].type = "reemit" /\ buf[cur[t].of].n > 0
      BY <2>2, <1>1, <1>2, <1>3, SizeAssumption
    <3>2. \E y \in adding[t] : y.of = cur[t].of
      BY <3>1, <1>1, <1>f DEF ThreadMemory, Handling
    <3>3. cur[t].of \in BuffersOf(adding[t])
      BY <3>2, <1>4 DEF BuffersOf
    <3>4. Mine(t)' = BuffersOf(adding[t])
      BY <2>2, <1>1 DEF Mine, InHand
    <3>5. Mine(t) = BuffersOf(adding[t])
      BY <3>3, <1>2 DEF Mine
    <3> QED
      BY <3>4, <3>5
  <2> QED
    BY <2>1, <2>2, <1>1
<1>6. ThreadMemory(t)'
  <2>1. InHand(t)' => Fit(cur'[t], buf')
    BY <1>1, <1>2, <1>f DEF ThreadMemory
  <2>2. Handling(pc'[t], cur'[t], adding'[t], buf')
    <3>1. CASE cur[t].type = "traversal"
      BY <3>1, <1>1, <1>f DEF ThreadMemory, Handling
    <3>2. CASE cur[t].type # "traversal" /\ buf[cur[t].of].n = 0
      BY <3>2, <1>1, <1>f DEF ThreadMemory, Handling
    <3>3. CASE cur[t].type # "traversal" /\ buf[cur[t].of].n # 0
      BY <3>3, <1>1 DEF Handling
    <3> QED
      BY <3>1, <3>2, <3>3
  <2> QED
    BY <2>1, <2>2, <1>1, <1>f DEF ThreadMemory
<1>7. MemoryType'
  BY <1>1, <1>f DEF InMemory, MemoryType
<1>8. Used(buf)' = Used(buf)
  BY <1>1 DEF Used
<1> QED
  BY <1>1, <1>5, <1>6, <1>7, <1>8, OwnOnly

(* The input buffer is freed, which no new task has. *)
LEMMA FreeInputKeeps ==
  ASSUME IInv, NEW t \in Thread, Others(t), FreeInput(t)
  PROVE  InMemory'
<1>f. Functions /\ InMemory /\ AtPlace(pc[t], cur[t], adding[t], pos[t]) /\ ThreadMemory(t)
  BY DEF IInv, Control, InMemory
<1> DEFINE b == cur[t].of
<1>1. /\ pc[t] = "free" /\ pc'[t] = "finish" /\ buf' = [buf EXCEPT ![b] = None]
      /\ UNCHANGED <<active, largest, queued, adding, cur, stale, cont>>
  BY <1>f DEF FreeInput, Freed, Goto, Functions, source
<1>2. InHand(t) /\ cur[t] \in Task /\ cur[t].type \in {"traversal", "reemit"}
  BY <1>1, <1>f, TaskKinds DEF AtPlace, InHand
<1>3. b \in Mine(t) /\ b \in Used(buf) /\ b \in Buffer /\ buf[b].n \in 0 .. Capacity
  BY <1>2, HandBuffer
<1>4. b \notin BuffersOf(adding[t])
  <2>1. \A y \in adding[t] : y.of # b
    <3>1. CASE cur[t].type = "traversal"
      BY <3>1, <1>1, <1>f DEF ThreadMemory, Handling
    <3>2. CASE cur[t].type = "reemit"
      <4>1. buf[b].n = 0 \/ buf[b].n > 0
        BY <1>3, SizeAssumption
      <4> QED
        BY <3>2, <4>1, <1>1, <1>f DEF ThreadMemory, Handling
    <3> QED
      BY <3>1, <3>2, <1>2
  <2> QED
    BY <2>1 DEF BuffersOf
<1>5. Mine(t)' = Mine(t) \ {b}
  BY <1>1, <1>2, <1>4 DEF Mine, InHand
<1>6. buf \in Memory
  BY <1>f DEF InMemory, MemoryType
<1>7. buf' \in Memory /\ buf'[b] = None /\ \A c \in Buffer : c # b => buf'[c] = buf[c]
  BY <1>1, <1>3, <1>6 DEF Memory
<1>8. Used(buf)' = Used(buf) \ {b}
  BY <1>7, <1>3 DEF Used
<1>9. MemoryType'
  BY <1>1, <1>7, <1>f DEF InMemory, MemoryType
<1>10. ThreadMemory(t)'
  <2>1. \A x \in adding[t] : x.of \in Buffer /\ x.of # b
    <3>1. \A x \in adding[t] : x.of \in BuffersOf(adding[t]) /\ x.of \in Mine(t)
      BY <1>f DEF AtPlace, BuffersOf, Mine
    <3> QED
      BY <3>1, <1>4, <1>f, HoldersApart
  <2>2. \A x \in adding[t] : Fit(x, buf')
    BY <2>1, <1>7, <1>f DEF ThreadMemory, Fit
  <2> QED
    BY <2>2, <1>1, <1>f DEF ThreadMemory, OneEach, InHand, Handling
<1>11. \A c \in Used(buf) \ Mine(t) : buf'[c] = buf[c]
  BY <1>3, <1>7 DEF Used
<1>12. Used(buf)' \ Used(buf) = Mine(t)' \ Mine(t) /\ Used(buf) \ Used(buf)' = Mine(t) \ Mine(t)'
  BY <1>3, <1>5, <1>8
<1> HIDE DEF b
<1> QED
  BY <1>1, <1>9, <1>10, <1>11, <1>12, OwnOnly

(* The task is done, and its buffer was freed or given to a new task. *)
LEMMA FinishKeeps ==
  ASSUME IInv, NEW t \in Thread, Others(t), Finish(t)
  PROVE  InMemory'
<1>f. Functions /\ InMemory /\ AtPlace(pc[t], cur[t], adding[t], pos[t]) /\ ThreadMemory(t)
  BY DEF IInv, Control, InMemory
<1>1. /\ pc[t] = "finish" /\ pc'[t] \in {"get", "add"} /\ cur'[t] = None
      /\ stale' = stale \cup ({cur[t].dep} \ {None})
      /\ UNCHANGED <<buf, active, largest, queued, adding, cont>>
  BY <1>f DEF Finish, Goto, Functions, memory, source
<1>2. cur[t] \in Task /\ cur[t].dep \in Lock \cup {None} /\ None \notin Carrier
  BY <1>1, <1>f, TaskKinds DEF AtPlace
<1>3. Mine(t)' = Mine(t)
  BY <1>1, <1>2 DEF Mine, InHand
<1>4. MemoryType'
  BY <1>1, <1>2, <1>f DEF InMemory, MemoryType
<1>5. ThreadMemory(t)'
  BY <1>1, <1>2, <1>f DEF ThreadMemory, InHand, Handling
<1>6. Used(buf)' = Used(buf)
  BY <1>1 DEF Used
<1> QED
  BY <1>1, <1>3, <1>4, <1>5, <1>6, OwnOnly

(* The continuous source, and the flush of its buffers. *)
LEMMA ContinuousKeeps ==
  ASSUME IInv, Room, NEW t \in Thread, Others(t), EmitPacket(t) \/ Flush(t) \/ AddFlush(t)
  PROVE  InMemory'
<1>f. Functions /\ InMemory /\ MemoryType /\ AtPlace(pc[t], cur[t], adding[t], pos[t])
  BY DEF IInv, Control, InMemory
<1>s. /\ Capacity \in Nat \ {0} /\ NGrid \in Nat \ {0} /\ Grid = 1 .. NGrid
      /\ cont \in [Block -> [Grid -> 0 .. Capacity - 1]]
  BY <1>f, SizeAssumption DEF Grid, MemoryType
<1> DEFINE new(g, n) == [grid |-> g, dir |-> "in", n |-> n]
<1>1. ASSUME NEW g \in Grid, NEW n \in 0 .. Capacity PROVE new(g, n) \in PhotonBuffer /\ new(g, n).grid = g
  BY DEF PhotonBuffer, Dir
<1> HIDE DEF new
<1>2. ASSUME NEW g \in Grid, NEW n \in 0 .. Capacity,
             buf' = [buf EXCEPT ![FreeBuffer(buf)] = new(g, n)], active' = active, largest' = largest,
             adding' = [adding EXCEPT ![t] = {TraversalTask(FreeBuffer(buf), g)}], queued' = queued,
             stale' = stale, cont' \in [Block -> [Grid -> 0 .. Capacity - 1]],
             cur[t] \notin Carrier, adding[t] = {}, cur' = cur,
             pc[t] # "launched", pc'[t] \notin {"count", "free"}
      PROVE  InMemory'
  <2>1. PICK b : b = FreeBuffer(buf)
    OBVIOUS
  <2>2. PICK r \in PhotonBuffer : r = new(g, n) /\ r.grid = g
    BY <1>1
  <2>3. buf' = [buf EXCEPT ![b] = r] /\ adding' = [adding EXCEPT ![t] = {TraversalTask(b, r.grid)}]
    BY <1>2, <2>1, <2>2
  <2>4. buf' \in Memory
    BY <2>1, <2>3, NewBuffer, Zenon
  <2>5. MemoryType'
    BY <2>4, <1>2, <1>f DEF MemoryType
  <2> QED
    BY <2>1, <2>3, <2>5, <1>2, SentOff
<1>3. CASE EmitPacket(t)
  <2> DEFINE k == cur[t].of.block
  <2>1. /\ pc[t] = "emit" /\ UNCHANGED <<active, largest, queued, stale, cur>>
    BY <1>3 DEF EmitPacket
  <2>2. cur[t] \in Task /\ cur[t].type = "continuous" /\ cur[t] \notin Carrier /\ adding[t] = {} /\ k \in Block
    <3>1. cur[t] \in Task /\ cur[t].type = "continuous" /\ adding[t] = {}
      BY <2>1, <1>f DEF AtPlace
    <3> QED
      BY <3>1, TaskKinds, SourceAssumption
  <2>3. PICK g \in Grid :
         \/ /\ cont[k][g] + 1 < Capacity
            /\ cont' = [cont EXCEPT ![k][g] = @ + 1]
            /\ UNCHANGED <<buf, adding, pc>>
         \/ /\ cont[k][g] + 1 = Capacity
            /\ cont' = [cont EXCEPT ![k][g] = 0]
            /\ buf' = [buf EXCEPT ![FreeBuffer(buf)] = [grid |-> g, dir |-> "in", n |-> Capacity]]
            /\ adding' = [adding EXCEPT ![t] = {TraversalTask(FreeBuffer(buf), g)}]
            /\ Goto(t, "emit add")
    BY <1>3 DEF EmitPacket
  <2> HIDE DEF k
  <2>4. CASE cont[k][g] + 1 < Capacity /\ cont' = [cont EXCEPT ![k][g] = @ + 1] /\ UNCHANGED <<buf, adding, pc>>
    <3>1. cont' \in [Block -> [Grid -> 0 .. Capacity - 1]]
      <4>1. cont[k][g] \in 0 .. Capacity - 1
        BY <1>s, <2>2
      <4>2. cont[k][g] + 1 \in 0 .. Capacity - 1
        BY <4>1, <2>4, <1>s
      <4> QED
        BY <4>2, <2>2, <2>4, <1>s
    <3>2. MemoryType'
      BY <3>1, <2>1, <2>4, <1>f DEF MemoryType
    <3>3. LargestKnown'
      BY <2>1, <2>4, <1>f, LargestKept
    <3> QED
      BY <2>1, <2>2, <2>4, <3>2, <3>3, Stays
  <2>5. CASE cont' = [cont EXCEPT ![k][g] = 0]
             /\ buf' = [buf EXCEPT ![FreeBuffer(buf)] = [grid |-> g, dir |-> "in", n |-> Capacity]]
             /\ adding' = [adding EXCEPT ![t] = {TraversalTask(FreeBuffer(buf), g)}]
             /\ Goto(t, "emit add")
    <3>1. cont' \in [Block -> [Grid -> 0 .. Capacity - 1]] /\ Capacity \in 0 .. Capacity
      <4>1. cont' = [cont EXCEPT ![k][g] = 0]
        BY <2>5
      <4> QED
        BY <4>1, <2>2, <1>s
    <3>2. buf' = [buf EXCEPT ![FreeBuffer(buf)] = new(g, Capacity)]
      BY <2>5 DEF new
    <3>3. pc'[t] = "emit add"
      BY <2>5, <1>f DEF Goto, Functions
    <3> QED
      BY <3>1, <3>2, <3>3, <2>1, <2>2, <2>5, <1>2
  <2> QED
    BY <2>3, <2>4, <2>5
<1>4. CASE Flush(t)
  <2> DEFINE k == cur[t].of
             g == pos[t][1] + 1
  <2>1. /\ Executes(t, "flush") /\ pc'[t] \in {"exec", "finish", "flush add"}
        /\ UNCHANGED <<active, largest, queued, stale, cur>>
    BY <1>4, <1>f DEF Flush, Goto, Functions
  <2>2. cur[t] \notin Carrier /\ adding[t] = {} /\ k \in Block /\ pc[t] = "exec"
    BY <2>1, ExecutesTask, TaskKinds
  <2>3. g \in Grid
    BY <2>2, <1>f, <1>s DEF AtPlace
  <2>4. CASE cont[k][g] > 0
    <3>1. /\ buf' = [buf EXCEPT ![FreeBuffer(buf)] = new(g, cont[k][g])]
          /\ adding' = [adding EXCEPT ![t] = {TraversalTask(FreeBuffer(buf), g)}]
          /\ cont' = [cont EXCEPT ![k][g] = 0]
      BY <2>4, <1>4 DEF Flush, new
    <3> HIDE DEF k, g
    <3>2. cont[k][g] \in 0 .. Capacity
      <4>1. cont[k][g] \in 0 .. Capacity - 1
        BY <1>s, <2>2, <2>3
      <4> QED
        BY <4>1, <1>s
    <3>3. cont' \in [Block -> [Grid -> 0 .. Capacity - 1]]
      BY <3>1, <2>2, <2>3, <1>s
    <3>4. PICK n \in 0 .. Capacity : n = cont[k][g]
      BY <3>2
    <3>5. PICK h \in Grid : h = g
      BY <2>3
    <3> QED
      BY <3>1, <3>3, <3>4, <3>5, <2>1, <2>2, <1>2
  <2>5. CASE ~ (cont[k][g] > 0)
    <3>1. UNCHANGED <<buf, adding, cont>>
      BY <2>5, <1>4 DEF Flush
    <3>2. MemoryType'
      BY <3>1, <2>1, <1>f DEF MemoryType
    <3>3. LargestKnown'
      BY <3>1, <2>1, <2>2, <1>f, LargestKept
    <3> QED
      BY <2>1, <2>2, <3>1, <3>2, <3>3, Stays
  <2> QED
    BY <2>4, <2>5
<1>5. CASE AddFlush(t)
  <2> DEFINE x == FlushTask(pos[t][1])
  <2>1. /\ pc[t] = "flush" /\ pc'[t] \in {"flush", "finish"} /\ queued' = queued \cup {x}
        /\ UNCHANGED <<buf, active, largest, stale, cont, cur, adding>>
    BY <1>5, <1>f DEF AddFlush, Goto, Functions, memory, source
  <2>2. cur[t] \notin Carrier /\ adding[t] = {} /\ pos[t][1] \in Block
    <3>1. cur[t] \in Task /\ cur[t].type = "continuous" /\ adding[t] = {} /\ pos[t][1] \in Block
      BY <2>1, <1>f DEF AtPlace
    <3> QED
      BY <3>1, TaskKinds
  <2>3. x \in Task /\ x \notin Carrier
    <3>1. x \in Task
      BY <2>2 DEF Task
    <3>2. x.type = "flush"
      BY DEF FlushTask
    <3> QED
      BY <3>1, <3>2, TaskKinds
  <2> HIDE DEF x
  <2>4. MemoryType'
    BY <2>1, <2>3, <1>f DEF MemoryType
  <2>5. LargestKnown'
    BY <2>1, <1>f, LargestKept
  <2>6. BuffersOf(queued)' = BuffersOf(queued) /\ queued' \cap Carrier = queued \cap Carrier
    <3>1. BuffersOf(queued)' = BuffersOf(queued \cup {x})
      BY <2>1 DEF BuffersOf
    <3> QED
      BY <3>1, <2>1, <2>3, BuffersOfMore, Zenon
  <2>7. Mine(t) = {} /\ Mine(t)' = {}
    BY <2>1, <2>2 DEF Mine, InHand, BuffersOf
  <2>8. OneEach(queued)' /\ \A y \in queued' \cap Carrier : Fit(y, buf')
    BY <2>1, <2>6, <1>f DEF InMemory, OneEach
  <2>9. ThreadMemory(t)'
    BY <2>1, <2>2 DEF ThreadMemory, OneEach, InHand, Handling
  <2> DEFINE K == Used(buf) \ (BuffersOf(queued) \cup Mine(t))
  <2>10. /\ BuffersOf(queued)' \cap Mine(t)' = {}
        /\ BuffersOf(queued)' \cap K = {} /\ Mine(t)' \cap K = {}
        /\ Used(buf)' = BuffersOf(queued)' \cup Mine(t)' \cup K
    <3>1. BuffersOf(queued) \subseteq Used(buf)
      BY <1>f, HoldersApart
    <3>2. Used(buf)' = Used(buf)
      BY <2>1 DEF Used
    <3> QED
      BY <3>1, <3>2, <2>6, <2>7
  <2>11. K = Used(buf) \ (BuffersOf(queued) \cup Mine(t))
    OBVIOUS
  <2> HIDE DEF K
  <2>12. \A b \in Used(buf) \ Mine(t) : buf'[b] = buf[b]
    BY <2>1
  <2> QED
    BY <2>1, <2>4, <2>5, <2>8, <2>9, <2>10, <2>11, <2>12, SlotsKept
<1> QED
  BY <1>3, <1>4, <1>5

(* A step to another place that changes nothing in memory. *)
LEMMA Unchanged ==
  ASSUME IInv, NEW t \in Thread, Others(t),
         UNCHANGED <<buf, active, largest, queued, adding, cur, stale, cont>>,
         pc[t] # "launched", pc'[t] \notin {"count", "free"},
         cur[t] \in Carrier => (pc'[t] = "finish" <=> pc[t] = "finish")
  PROVE  InMemory'
<1>1. InMemory
  BY DEF IInv
<1>2. MemoryType'
  BY <1>1 DEF InMemory, MemoryType
<1>3. LargestKnown'
  BY <1>1, LargestKept
<1> QED
  BY <1>2, <1>3, Stays

(* Nothing in memory changes when a thread finds no task, looks at a       *)
(* subgrid without launching, counts, or tests for the end.                *)
LEMMA ControlKeeps ==
  ASSUME IInv, NEW t \in Thread, Others(t),
         \/ GetNothing(t) \/ While(t) \/ ReadLargest(t) \/ LaunchFails(t) \/ LaunchNothing(t)
         \/ LeaveSubgrid(t) \/ StartEmission(t) \/ EmissionDone(t) \/ CheckLeft(t) \/ TestEmpty(t) \/ TestDone(t)
  PROVE  InMemory'
<1>f. Functions /\ AtPlace(pc[t], cur[t], adding[t], pos[t])
  BY DEF IInv, Control
<1>1. CASE \/ GetNothing(t) \/ While(t) \/ ReadLargest(t) \/ LaunchFails(t)
           \/ LaunchNothing(t) \/ LeaveSubgrid(t) \/ TestEmpty(t) \/ TestDone(t)
  <2>1. UNCHANGED <<buf, active, largest, queued, adding, cur, stale, cont>>
    BY <1>1 DEF GetNothing, While, ReadLargest, LaunchFails, LaunchNothing, LeaveSubgrid,
                TestEmpty, TestDone, memory, source
  <2>2. /\ pc[t] \in {"start", "get", "last", "while", "launch", "trylock", "nothing", "test", "count done"}
        /\ pc'[t] \notin {"count", "free", "finish"}
    BY <1>1, <1>f DEF GetNothing, While, ReadLargest, LaunchFails, LaunchNothing, LeaveSubgrid,
                      NextSubgrid, TestEmpty, TestDone,
                      Looking, Goto, Functions
  <2> QED
    BY <2>1, <2>2, Unchanged
<1>2. CASE StartEmission(t) \/ EmissionDone(t) \/ CheckLeft(t)
  <2>1. UNCHANGED <<buf, active, largest, queued, adding, cur, stale, cont>>
    BY <1>2 DEF StartEmission, EmissionDone, CheckLeft, memory, source
  <2>2. /\ pc[t] \in {"exec", "emit", "left"} /\ cur[t].type = "continuous" /\ cur[t] \in Task
        /\ pc'[t] \notin {"count", "free"}
    BY <1>2, <1>f DEF StartEmission, EmissionDone, CheckLeft, Executes, Goto, Functions, AtPlace
  <2>3. cur[t] \notin Carrier
    BY <2>2, TaskKinds
  <2> QED
    BY <2>1, <2>2, <2>3, Unchanged
<1> QED
  BY <1>1, <1>2

(* The subgrid is unlocked when its largest buffer is known again. *)
LEMMA LaunchDoneKeeps ==
  ASSUME IInv, NEW t \in Thread, Others(t), LaunchDone(t)
  PROVE  InMemory'
<1>f. Functions /\ InMemory /\ AtPlace(pc[t], cur[t], adding[t], pos[t])
  BY DEF IInv, Control
<1> DEFINE g == pos[t][2]
<1>1. /\ pc[t] = "launched" /\ pc'[t] = "get" /\ largest' = [largest EXCEPT ![g] = LargestOf(buf, active[g])]
      /\ UNCHANGED <<buf, active, queued, adding, cur, stale, cont>>
  BY <1>f DEF LaunchDone, NewLargest, Goto, Functions, source
<1>2. g \in Grid /\ cur[t] = None /\ cur[t] \notin Carrier
  BY <1>1, <1>f, TaskKinds DEF AtPlace
<1>3. MemoryType'
  BY <1>1, <1>f DEF InMemory, MemoryType
<1>4. LargestKnown'
  <2> SUFFICES ASSUME NEW h \in Grid, ~ Launching(h)' PROVE largest'[h] = LargestOf(buf, active[h])
    BY <1>1 DEF LargestKnown
  <2> HIDE DEF g
  <2>1. CASE h = g
    BY <2>1, <1>1, <1>2, <1>f DEF InMemory, MemoryType
  <2>2. CASE h # g
    <3>1. ~ Launching(h)
      BY <2>2, <1>1 DEF Launching, Others, g
    <3>2. largest[h] = LargestOf(buf, active[h])
      BY <3>1, <1>f DEF InMemory, LargestKnown
    <3> QED
      BY <3>2, <2>2, <1>1, <1>2, <1>f DEF InMemory, MemoryType
  <2> QED
    BY <2>1, <2>2
<1> QED
  BY <1>1, <1>2, <1>3, <1>4, Stays

(* Of three directions one is the first of the largest. *)
LEMMA LargestIsThere ==
  ASSUME NEW m \in Memory, NEW g \in Grid, NEW act \in Slots, Filled(m, act, g), LargestOf(m, act).dir # None
  PROVE  LargestOf(m, act).dir \in Dir /\ act[LargestOf(m, act).dir] # None
<1> DEFINE size == [d \in Dir |-> SizeOf(m, act[d])]
           i == FirstLargest(size)
<1>1. \A d \in Dir : size[d] \in Nat
  BY SizeAssumption DEF SizeOf, Filled, Filling
<1>2. "in" \in Dir /\ "lo" \in Dir /\ "hi" \in Dir
  BY DEF Dir
<1>3. Directions[1] = "in" /\ Directions[2] = "lo" /\ Directions[3] = "hi"
  BY DEF Directions
<1>4. \E k \in 1 .. 3 :
    \A j \in 1 .. 3 : /\ size[Directions[j]] <= size[Directions[k]]
                      /\ j < k => size[Directions[j]] < size[Directions[k]]
  <2> HIDE DEF size
  <2>1. size["in"] \in Nat /\ size["lo"] \in Nat /\ size["hi"] \in Nat
    BY <1>1, <1>2
  <2>2. \A j \in 1 .. 3 : j = 1 \/ j = 2 \/ j = 3
    OBVIOUS
  <2>3. CASE size["lo"] <= size["in"] /\ size["hi"] <= size["in"]
    <3>1. \A j \in 1 .. 3 : /\ size[Directions[j]] <= size[Directions[1]]
                            /\ j < 1 => size[Directions[j]] < size[Directions[1]]
      BY <2>1, <2>2, <2>3, <1>3
    <3> QED
      BY <3>1
  <2>4. CASE size["in"] < size["lo"] /\ size["hi"] <= size["lo"]
    <3>1. \A j \in 1 .. 3 : /\ size[Directions[j]] <= size[Directions[2]]
                            /\ j < 2 => size[Directions[j]] < size[Directions[2]]
      BY <2>1, <2>2, <2>4, <1>3
    <3> QED
      BY <3>1
  <2>5. CASE size["in"] < size["hi"] /\ size["lo"] < size["hi"]
    <3>1. \A j \in 1 .. 3 : /\ size[Directions[j]] <= size[Directions[3]]
                            /\ j < 3 => size[Directions[j]] < size[Directions[3]]
      BY <2>1, <2>2, <2>5, <1>3
    <3> QED
      BY <3>1
  <2> QED
    BY <2>1, <2>3, <2>4, <2>5
<1>5. i \in 1 .. 3
  BY <1>4 DEF FirstLargest
<1>6. Directions[i] \in Dir
  <2>1. i = 1 \/ i = 2 \/ i = 3
    BY <1>5
  <2> QED
    BY <2>1, <1>2, <1>3
<1>7. LargestOf(m, act) = LargestIn(size)
  BY DEF LargestOf
<1> HIDE DEF size, i
<1>8. LargestIn(size).dir = IF size[Directions[i]] = 0 THEN None ELSE Directions[i]
  BY DEF LargestIn, i
<1>9. LargestOf(m, act).dir = Directions[i] /\ size[Directions[i]] # 0
  BY <1>7, <1>8
<1>10. act[Directions[i]] # None
  BY <1>6, <1>9 DEF size, SizeOf
<1> QED
  BY <1>6, <1>9, <1>10


(* The buffer in a slot tells which slot it is. *)
LEMMA SlotUnique ==
  ASSUME InMemory, NEW g \in Grid, NEW d \in Dir, NEW h \in Grid, NEW e \in Dir,
         active[g][d] # None, active[h][e] = active[g][d]
  PROVE  h = g /\ e = d
<1>1. Filling(buf[active[g][d]], g, d) /\ Filling(buf[active[g][d]], h, e)
  BY DEF InMemory, Filled
<1>2. e = d
  BY <1>1, DirectionsDiffer DEF Filling
<1>3. Neighbour(g, d) = Neighbour(h, d) /\ Neighbour(g, d) # None
  BY <1>1, <1>2, NoneAssumption DEF Filling, PhotonBuffer, Lock
<1>4. g \in Int /\ h \in Int /\ NGrid \in Int
  BY SizeAssumption DEF Grid
<1>5. CASE d = "in"
  BY <1>2, <1>3, <1>5 DEF Neighbour
<1>6. CASE d = "lo"
  <2>1. g > 1 /\ h > 1 /\ g - 1 = h - 1
    BY <1>3, <1>6 DEF Neighbour
  <2> QED
    BY <2>1, <1>4, <1>2
<1>7. CASE d = "hi"
  <2>1. g < NGrid /\ h < NGrid /\ g + 1 = h + 1
    BY <1>3, <1>7 DEF Neighbour
  <2> QED
    BY <2>1, <1>4, <1>2
<1> QED
  BY <1>2, <1>5, <1>6, <1>7 DEF Dir

(* Premature launch: a buffer goes from its slot to a queue. *)
LEMMA LaunchKeeps ==
  ASSUME IInv, NEW t \in Thread, Others(t), Launch(t)
  PROVE  InMemory'
<1>f. Functions /\ InMemory /\ MemoryType /\ AtPlace(pc[t], cur[t], adding[t], pos[t]) /\ ThreadMemory(t)
  BY DEF IInv, Control, InMemory
<1> DEFINE g == pos[t][2]
           d == largest[g].dir
           b == active[g][d]
<1>1. /\ pc[t] = "trylock" /\ pc'[t] = "launched" /\ pos'[t] = pos[t] /\ ~ locked[g] /\ d # None
      /\ active' = [active EXCEPT ![g][d] = None]
      /\ UNCHANGED <<buf, largest, adding, cur, stale, cont>>
      /\ \E x \in LaunchTask(g, d) : queued' = queued \cup {x}
  BY <1>f DEF Launch, Deactivate, Goto, Functions, source
<1>2. g \in Grid /\ cur[t] = None /\ cur[t] \notin Carrier /\ adding[t] = {}
  BY <1>1, <1>f, TaskKinds DEF AtPlace
<1>3. ~ Launching(g)
  <2> SUFFICES ASSUME NEW u \in Thread, pc[u] = "launched", pos[u][2] = g PROVE FALSE
    BY DEF Launching
  <2>1. g \in Locks(u)
    BY <1>2 DEF Locks, Lock
  <2> QED
    BY <2>1, <1>1 DEF IInv, Locking
<1>4. largest[g] = LargestOf(buf, active[g])
  BY <1>2, <1>3, <1>f DEF InMemory, LargestKnown
<1>5. d \in Dir /\ b # None
  <2>1. buf \in Memory /\ active[g] \in Slots /\ Filled(buf, active[g], g)
    BY <1>2, <1>f DEF InMemory, MemoryType
  <2>2. LargestOf(buf, active[g]).dir # None
    BY <1>1, <1>4
  <2>3. LargestOf(buf, active[g]).dir \in Dir /\ active[g][LargestOf(buf, active[g]).dir] # None
    BY <1>2, <2>1, <2>2, LargestIsThere
  <2> QED
    BY <2>3, <1>4
<1>6. b \in Buffer /\ Filling(buf[b], g, d) /\ b \in AllSlots /\ b \in Used(buf)
  <2> HIDE DEF g, d
  <2>0. Filled(buf, active[g], g) /\ active[g] \in [Dir -> Buffer \cup {None}]
    BY <1>2, <1>f DEF InMemory, MemoryType, Slots
  <2>1. b \in Buffer /\ Filling(buf[b], g, d)
    BY <2>0, <1>5 DEF Filled
  <2>2. b \in InSlots(active[g])
    BY <2>1, <1>5 DEF InSlots
  <2>3. b \in AllSlots
    BY <2>2, <1>2 DEF AllSlots
  <2> QED
    BY <2>1, <2>3, <1>f, HoldersApart
<1>7. PICK x \in LaunchTask(g, d) : queued' = queued \cup {x}
  BY <1>1
<1>c. \A c \in Buffer : /\ \A l \in Lock \cup {None} : ReemitTask(c, l) \in Carrier
                       /\ \A h \in Grid : TraversalTask(c, h) \in Carrier
  BY DEF Carrier
<1>8. x \in Carrier /\ x.of = b /\ Fit(x, buf) /\ x \in Task
  <2>1. x \in Carrier /\ x.of = b /\ Fit(x, buf)
    <3>1. CASE d = "in"
      <4>1. PICK l \in stale \cup {None} : x = ReemitTask(b, l)
        BY <3>1, <1>7 DEF LaunchTask
      <4>2. l \in Lock \cup {None}
        BY <1>f DEF MemoryType
      <4>3. x.of = b /\ x.type = "reemit"
        BY <4>1 DEF ReemitTask
      <4>4. x \in Carrier
        BY <4>1, <4>2, <1>6, <1>c
      <4> QED
        BY <4>3, <4>4 DEF Fit
    <3>2. CASE d # "in"
      <4>1. x = TraversalTask(b, buf[b].grid)
        BY <3>2, <1>7 DEF LaunchTask
      <4>2. buf[b].grid \in Grid
        BY <1>6 DEF Filling, PhotonBuffer
      <4>3. x.of = b /\ x.dep = buf[b].grid
        BY <4>1 DEF TraversalTask
      <4>4. x \in Carrier
        BY <4>1, <4>2, <1>6, <1>c
      <4> QED
        BY <4>3, <4>4 DEF Fit
    <3> QED
      BY <3>1, <3>2
  <2> QED
    BY <2>1, TaskKinds
<1> HIDE DEF g, d, b
<1>9. /\ active' \in [Grid -> Slots] /\ active'[g][d] = None
      /\ \A h \in Grid, e \in Dir : h # g \/ e # d => active'[h][e] = active[h][e]
  <2>1. active \in [Grid -> [Dir -> Buffer \cup {None}]]
    BY <1>f DEF MemoryType, Slots
  <2>2. active'[g] = [active[g] EXCEPT ![d] = None] /\ \A h \in Grid : h # g => active'[h] = active[h]
    BY <2>1, <1>1, <1>2, <1>5
  <2>3. active' \in [Grid -> [Dir -> Buffer \cup {None}]]
    BY <2>1, <1>1, <1>2, <1>5
  <2> QED
    BY <2>1, <2>2, <2>3, <1>2, <1>5 DEF Slots
<1>10. AllSlots' = AllSlots \ {b}
  <2>1. ASSUME NEW c \in AllSlots' PROVE c \in AllSlots \ {b}
    <3>1. PICK h \in Grid, e \in Dir : c \in Buffer /\ active'[h][e] = c
      BY <2>1 DEF AllSlots, InSlots
    <3>2. c # None
      BY <3>1, NoneAssumption
    <3>3. (h # g \/ e # d) /\ active[h][e] = c
      BY <3>1, <3>2, <1>9
    <3>4. c # b
      BY <3>3, <1>2, <1>5, <1>f, SlotUnique DEF b
    <3>5. c \in InSlots(active[h])
      BY <3>1, <3>3 DEF InSlots
    <3> QED
      BY <3>4, <3>5 DEF AllSlots
  <2>2. ASSUME NEW c \in AllSlots \ {b} PROVE c \in AllSlots'
    <3>1. PICK h \in Grid, e \in Dir : c \in Buffer /\ active[h][e] = c
      BY <2>2 DEF AllSlots, InSlots
    <3>2. active'[h][e] = c
      BY <2>2, <3>1, <1>9 DEF b
    <3>3. c \in InSlots(active'[h])
      BY <3>1, <3>2 DEF InSlots
    <3> QED
      BY <3>3 DEF AllSlots
  <2> QED
    BY <2>1, <2>2
<1>11. BuffersOf(queued)' = BuffersOf(queued) \cup {b}
  <2>1. BuffersOf(queued)' = BuffersOf(queued \cup {x})
    BY <1>7 DEF BuffersOf
  <2>2. BuffersOf(queued \cup {x}) = BuffersOf(queued) \cup {x.of}
    BY <1>8, BuffersOfMore, Zenon
  <2> QED
    BY <2>1, <2>2, <1>8
<1>12. MemoryType'
  BY <1>1, <1>7, <1>8, <1>9, <1>f DEF MemoryType
<1>13. OneEach(queued)' /\ \A y \in queued' \cap Carrier : Fit(y, buf')
  <2>1. \A y \in queued \cap Carrier : y.of # b
    <3>1. \A y \in queued \cap Carrier : y.of \in BuffersOf(queued)
      BY DEF BuffersOf
    <3> QED
      BY <3>1, <1>6, <1>f, HoldersApart
  <2>2. OneEach(queued)'
    BY <2>1, <1>7, <1>8, <1>f DEF InMemory, OneEach
  <2>3. \A y \in queued' \cap Carrier : Fit(y, buf')
    BY <1>1, <1>7, <1>8, <1>f DEF InMemory
  <2> QED
    BY <2>2, <2>3
<1>14. \A h \in Grid : Filled(buf', active'[h], h)
  <2> SUFFICES ASSUME NEW h \in Grid, NEW e \in Dir, active'[h][e] # None
               PROVE  Filling(buf[active'[h][e]], h, e)
    BY <1>1 DEF Filled
  <2>1. active'[h][e] = active[h][e]
    BY <1>9
  <2> QED
    BY <2>1, <1>f DEF InMemory, Filled
<1>15. LargestKnown'
  <2> SUFFICES ASSUME NEW h \in Grid, ~ Launching(h)' PROVE largest'[h] = LargestOf(buf', active'[h])
    BY DEF LargestKnown
  <2>2. h # g
    BY <1>1 DEF Launching, g
  <2>3. ~ Launching(h)
    BY <1>1 DEF Launching, Others
  <2>4. active'[h] = active[h]
    BY <2>2, <1>1, <1>f DEF MemoryType
  <2> QED
    BY <2>3, <2>4, <1>1, <1>f DEF InMemory, LargestKnown
<1>16. \A u \in Thread : ThreadMemory(u)' /\ Mine(u)' = Mine(u)
  <2>1. \A u \in Thread \ {t} : ThreadMemory(u)' /\ Mine(u)' = Mine(u)
    <3>1. \A u \in Thread \ {t} : \A c \in Mine(u) : buf'[c] = buf[c]
      BY <1>1
    <3> QED
      BY <3>1, OthersKeep
  <2>2. Mine(t) = {} /\ Mine(t)' = {}
    BY <1>1, <1>2 DEF Mine, BuffersOf, InHand
  <2>3. ThreadMemory(t)'
    BY <1>1, <1>2 DEF ThreadMemory, OneEach, InHand, Handling
  <2> QED
    BY <2>1, <2>2, <2>3
<1>17. Held'
  <2>1. /\ Used(buf)' = Used(buf) /\ \A u \in Thread : Mine(u)' = Mine(u)
    BY <1>1, <1>16 DEF Used
  <2>2. Apart(Used(buf), AllSlots, BuffersOf(queued), [u \in Thread |-> Mine(u)])
    BY <1>f DEF InMemory, Held
  <2>3. [u \in Thread |-> Mine(u)'] = [u \in Thread |-> Mine(u)]
    BY <2>1
  <2> DEFINE M == [u \in Thread |-> Mine(u)]
  <2> HIDE DEF M
  <2>4. Apart(Used(buf), AllSlots, BuffersOf(queued), M)
    BY <2>2 DEF M
  <2>5. Apart(Used(buf), AllSlots \ {b}, BuffersOf(queued) \cup {b}, M)
    BY <2>4, <1>6 DEF Apart
  <2> QED
    BY <2>1, <2>3, <2>5, <1>10, <1>11 DEF Held, M
<1> QED
  BY <1>12, <1>13, <1>14, <1>15, <1>16, <1>17 DEF InMemory, OneEach

(* A traversal: the full buffers of the subgrid go from its slots to the   *)
(* thread, as tasks, and the slots get new ones.                           *)
LEMMA TraverseKeeps ==
  ASSUME IInv, Room, NEW t \in Thread, Others(t), Traverse(t)
  PROVE  InMemory'
<1>f. Functions /\ InMemory /\ MemoryType
  BY DEF IInv, Control, InMemory
<1>1. /\ Executes(t, "traversal") /\ pc'[t] = "count"
      /\ UNCHANGED <<queued, stale, cur, cont>>
  BY <1>f DEF Traverse, Goto, Functions, source
<1>2. /\ cur[t] \in Carrier /\ InHand(t) /\ adding[t] = {} /\ pc[t] = "exec" /\ cur[t].type = "traversal"
      /\ cur[t].of \in Mine(t) /\ cur[t].of \in Used(buf) /\ cur[t].of \in Buffer
  BY <1>1, ExecutesTask, HandBuffer
<1>3. PICK b : b = cur[t].of
  OBVIOUS
<1>4. PICK g \in Grid : \E s : \E l \in Lock \cup {None} :
              /\ Storing(s, g, Used(buf) \ InSlots(active[g]), buf)
              /\ TraverseMakes(t, s, g, l)
  BY TraverseStores
<1>s. PICK s : \E l \in Lock \cup {None} :
              /\ Storing(s, g, Used(buf) \ InSlots(active[g]), buf)
              /\ TraverseMakes(t, s, g, l)
  BY <1>4
<1>5. PICK l \in Lock \cup {None} :
              /\ Storing(s, g, Used(buf) \ InSlots(active[g]), buf)
              /\ TraverseMakes(t, s, g, l)
  BY <1>s
<1>6. PICK U, A, Q, A2, F : U = Used(buf) /\ A = InSlots(active[g]) /\ Q = BuffersOf(queued)
                            /\ A2 = InSlots(s.act) /\ F = s.full
  OBVIOUS
<1>7. PICK K : K = U \ A
  OBVIOUS
<1>8. PICK R : R = UNION {InSlots(active[h]) : h \in Grid \ {g}}
  OBVIOUS
<1>9. /\ buf' = s.buf /\ s.buf \in Memory /\ s.act \in Slots /\ F \subseteq Buffer
      /\ Filled(s.buf, s.act, g) /\ Used(s.buf) = K \cup A2 \cup F
      /\ K \cap A2 = {} /\ K \cap F = {} /\ F \cap A2 = {}
      /\ \A c \in K : s.buf[c] = buf[c]
  BY <1>5, <1>6, <1>7 DEF Storing, TraverseMakes
<1>10. /\ active' \in [Grid -> Slots] /\ active'[g] = s.act
       /\ DOMAIN largest' = Grid /\ largest'[g] = LargestOf(s.buf, s.act)
       /\ \A h \in Grid : h # g => active'[h] = active[h] /\ largest'[h] = largest[h]
  BY <1>5, <1>9, <1>f DEF TraverseMakes, MemoryType
<1>11. AllSlots = R \cup A /\ AllSlots' = R \cup A2
  <2>1. AllSlots = R \cup A
    BY <1>6, <1>8 DEF AllSlots
  <2>2. ASSUME NEW c \in AllSlots' PROVE c \in R \cup A2
    BY <2>2, <1>6, <1>8, <1>10 DEF AllSlots
  <2>3. ASSUME NEW c \in R PROVE c \in AllSlots'
    BY <2>3, <1>8, <1>10 DEF AllSlots
  <2>4. ASSUME NEW c \in A2 PROVE c \in AllSlots'
    BY <2>4, <1>6, <1>10 DEF AllSlots
  <2> QED
    BY <2>1, <2>2, <2>3, <2>4
<1>12. R \cap A = {}
  <2> SUFFICES ASSUME NEW c \in R \cap A PROVE FALSE
    OBVIOUS
  <2>1. PICK h \in Grid \ {g} : c \in InSlots(active[h])
    BY <1>8
  <2>2. PICK e \in Dir, d \in Dir : c \in Buffer /\ active[h][e] = c /\ active[g][d] = c
    BY <2>1, <1>6 DEF InSlots
  <2> QED
    BY <2>2, <1>f, NoneAssumption, SlotUnique
<1>13. /\ R \subseteq K /\ Q \subseteq K /\ b \in K /\ Mine(t) \subseteq K
       /\ \A u \in Thread : Mine(u) \subseteq K
  BY <1>2, <1>3, <1>6, <1>7, <1>11, <1>12, <1>f, HoldersApart
<1> DEFINE task(c) == IF s.buf[c].dir = "in" THEN ReemitTask(c, l) ELSE TraversalTask(c, s.buf[c].grid)
<1>14. adding'[t] = {task(c) : c \in F}
  BY <1>5, <1>6, <1>f, Zenon DEF TraverseMakes, Functions
<1>t. \A c \in F : task(c) = ReemitTask(c, l) \/ task(c) = TraversalTask(c, s.buf[c].grid)
  OBVIOUS
<1>o. \A c \in F : task(c).of = c
  BY DEF ReemitTask, TraversalTask
<1> HIDE DEF task
<1>15. \A c \in F : c \in Buffer /\ s.buf[c] \in PhotonBuffer /\ s.buf[c].grid \in Grid
  BY <1>9 DEF Used, Memory, PhotonBuffer
<1>16. ASSUME NEW x, x \in adding'[t] PROVE x \in Carrier /\ x.of \in F /\ Fit(x, buf')
  <2>1. PICK c \in F : x = task(c)
    BY <1>14, <1>16
  <2>2. CASE x = ReemitTask(c, l)
    <3>1. x \in Carrier
      BY <2>2, <1>15 DEF Carrier
    <3>2. x.of = c /\ x.type = "reemit"
      BY <2>2 DEF ReemitTask
    <3> QED
      BY <3>1, <3>2 DEF Fit
  <2>3. CASE x = TraversalTask(c, s.buf[c].grid)
    <3>1. x \in Carrier
      BY <2>3, <1>15 DEF Carrier
    <3>2. x.of = c /\ x.dep = s.buf[c].grid
      BY <2>3 DEF TraversalTask
    <3> QED
      BY <3>1, <3>2, <1>9 DEF Fit
  <2> QED
    BY <2>1, <2>2, <2>3, <1>t
<1>17. ASSUME NEW c \in F PROVE \E x \in adding'[t] : x.of = c
  BY <1>14, <1>o
<1>18. OneEach(adding'[t])
  <2> SUFFICES ASSUME NEW x \in adding'[t], NEW y \in adding'[t], x.of = y.of PROVE x = y
    BY DEF OneEach
  <2>1. PICK c \in F : x = task(c)
    BY <1>14
  <2>2. PICK e \in F : y = task(e)
    BY <1>14
  <2>3. x.of = c /\ y.of = e
    BY <2>1, <2>2, <1>o
  <2> QED
    BY <2>1, <2>2, <2>3
<1>19. BuffersOf(adding'[t]) = F
  BY <1>16, <1>17 DEF BuffersOf
<1>20. Mine(t) = {b} /\ Mine(t)' = {b} \cup F
  <2>1. BuffersOf(adding[t])' = F
    BY <1>19 DEF BuffersOf
  <2>2. InHand(t)'
    BY <1>1, <1>2 DEF InHand
  <2>3. BuffersOf(adding[t]) = {}
    BY <1>2 DEF BuffersOf
  <2> QED
    BY <2>1, <2>2, <2>3, <1>1, <1>2, <1>3 DEF Mine
<1>21. \A u \in Thread \ {t} : ThreadMemory(u)' /\ Mine(u)' = Mine(u)
  <2>1. \A u \in Thread \ {t} : \A c \in Mine(u) : buf'[c] = buf[c]
    BY <1>9, <1>13
  <2> QED
    BY <2>1, OthersKeep
<1>22. ThreadMemory(t)'
  <2>1. Fit(cur'[t], buf')
    <3>1. Fit(cur[t], buf)
      BY <1>2, <1>f DEF InMemory, ThreadMemory
    <3>2. buf'[cur[t].of] = buf[cur[t].of]
      BY <1>3, <1>9, <1>13
    <3> QED
      BY <3>1, <3>2, <1>1 DEF Fit
  <2>2. Handling(pc'[t], cur'[t], adding'[t], buf')
    <3>1. \A y \in adding'[t] : y.of # cur[t].of
      BY <1>3, <1>9, <1>13, <1>16
    <3> QED
      BY <3>1, <1>1, <1>2 DEF Handling
  <2> QED
    BY <2>1, <2>2, <1>16, <1>18 DEF ThreadMemory
<1>23. MemoryType'
  BY <1>1, <1>9, <1>10, <1>f DEF MemoryType
<1>24. OneEach(queued)' /\ \A y \in queued' \cap Carrier : Fit(y, buf')
  <2>1. \A y \in queued \cap Carrier : y.of \in K
    BY <1>6, <1>13 DEF BuffersOf
  <2> QED
    BY <2>1, <1>1, <1>9, <1>f DEF InMemory, OneEach, Fit
<1>25. \A h \in Grid : Filled(buf', active'[h], h)
  <2> SUFFICES ASSUME NEW h \in Grid, h # g PROVE Filled(buf', active[h], h)
    BY <1>9, <1>10
  <2>1. InSlots(active[h]) \subseteq K
    BY <1>8, <1>13
  <2>2. Filled(buf, active[h], h) /\ active[h] \in Slots
    BY <1>f DEF InMemory, MemoryType
  <2>3. \A e \in Dir : active[h][e] # None => active[h][e] \in K
    BY <2>1, <2>2 DEF InSlots, Slots
  <2> QED
    BY <2>2, <2>3, <1>9 DEF Filled
<1>26. LargestKnown'
  <2> SUFFICES ASSUME NEW h \in Grid, ~ Launching(h)' PROVE largest'[h] = LargestOf(buf', active'[h])
    BY DEF LargestKnown
  <2>1. CASE h = g
    BY <2>1, <1>9, <1>10
  <2>2. CASE h # g
    <3>1. ~ Launching(h)
      BY <1>2 DEF Launching, Others
    <3>2. largest[h] = LargestOf(buf, active[h]) /\ active[h] \in Slots
      BY <3>1, <1>f DEF InMemory, LargestKnown, MemoryType
    <3>3. \A c \in InSlots(active[h]) : buf'[c] = buf[c]
      BY <2>2, <1>8, <1>9, <1>13
    <3> QED
      BY <2>2, <3>2, <3>3, <1>10, SameLargest
  <2> QED
    BY <2>1, <2>2
<1>27. Held'
  <2> DEFINE M == [u \in Thread |-> Mine(u)]
             M2 == [u \in Thread |-> Mine(u)']
  <2>1. Apart(U, R \cup A, Q, M)
    BY <1>6, <1>11, <1>f DEF InMemory, Held
  <2>2. /\ \A u \in Thread \ {t} : M2[u] = M[u]
        /\ M[t] = {b} /\ M2[t] = {b} \cup F
    BY <1>20, <1>21
  <2> HIDE DEF M, M2
  <2>3. /\ (R \cup A) \cap Q = {} /\ b \notin R /\ b \notin Q /\ A \subseteq U
    BY <2>1, <2>2 DEF Apart
  <2>4. PICK S, S2, U2, N2 : S = R \cup A /\ S2 = R \cup A2 /\ U2 = K \cup A2 \cup F /\ N2 = {b} \cup F
    OBVIOUS
  <2>5. S2 \cap Q = {} /\ S2 \cap M2[t] = {} /\ Q \cap M2[t] = {}
    BY <2>2, <2>3, <2>4, <1>9, <1>13
  <2>6. (S2 \cup Q \cup M2[t]) \cap (U \ (S \cup Q \cup M[t])) = {}
    BY <2>2, <2>3, <2>4, <1>7, <1>9, <1>13
  <2>7. U2 = (S2 \cup Q \cup M2[t]) \cup (U \ (S \cup Q \cup M[t]))
    BY <2>2, <2>3, <2>4, <1>7, <1>9, <1>13
  <2>8. Apart(U, S, Q, M)
    BY <2>1, <2>4
  <2>9. Apart(U2, S2, Q, M2)
    BY <2>2, <2>5, <2>6, <2>7, <2>8, Exchange
  <2>10. Used(buf)' = U2 /\ AllSlots' = S2 /\ BuffersOf(queued)' = Q
    <3>1. Used(buf)' = Used(s.buf)
      BY <1>9 DEF Used
    <3>2. BuffersOf(queued)' = BuffersOf(queued)
      BY <1>1 DEF BuffersOf
    <3> QED
      BY <3>1, <3>2, <2>4, <1>6, <1>9, <1>11
  <2> QED
    BY <2>9, <2>10 DEF Held, M2
<1>28. \A u \in Thread : ThreadMemory(u)'
  BY <1>21, <1>22
<1> QED
  BY <1>23, <1>24, <1>25, <1>26, <1>27, <1>28 DEF InMemory, OneEach

(* Every step leaves every buffer with one holder. *)
LEMMA MemoryStep ==
  ASSUME IInv, Room, NEW t \in Thread, Step(t)
  PROVE  InMemory'
<1>1. Others(t)
  BY StepOthers DEF IInv, Control
<1>2. CASE GetTask(t) \/ AddTask(t) \/ AddEmitted(t) \/ AddFlushed(t) \/ Finish(t)
  BY <1>1, <1>2, GetTaskKeeps, AddTaskKeeps, FinishKeeps
<1>3. CASE GetNothing(t) \/ While(t) \/ ReadLargest(t) \/ LaunchFails(t) \/ LaunchNothing(t)
           \/ LeaveSubgrid(t) \/ StartEmission(t) \/ EmissionDone(t) \/ CheckLeft(t) \/ TestEmpty(t) \/ TestDone(t)
  BY <1>1, <1>3, ControlKeeps
<1>4. CASE Launch(t) \/ LaunchDone(t)
  BY <1>1, <1>4, LaunchKeeps, LaunchDoneKeeps
<1>5. CASE EmitDiscrete(t) \/ Traverse(t) \/ Reemit(t)
  BY <1>1, <1>5, EmitDiscreteKeeps, TraverseKeeps, ReemitKeeps
<1>6. CASE Count(t) \/ FreeInput(t)
  BY <1>1, <1>6, CountKeeps, FreeInputKeeps
<1>7. CASE EmitPacket(t) \/ Flush(t) \/ AddFlush(t)
  BY <1>1, <1>7, ContinuousKeeps
<1> QED
  BY <1>2, <1>3, <1>4, <1>5, <1>6, <1>7, Zenon DEF Step

(* Every step of the program keeps the invariant, as long as there is room *)
(* in the memory space.                                                    *)
LEMMA IInvNext == IInv /\ Room /\ [Next]_vars => IInv'
<1> SUFFICES ASSUME IInv, Room, [Next]_vars PROVE IInv'
  OBVIOUS
<1>1. ASSUME NEW t \in Thread, Step(t) PROVE IInv'
  BY <1>1, ControlStep, LockStep, MemoryStep DEF IInv
<1>2. CASE UNCHANGED vars
  <2>1. Control' /\ Locking'
    BY <1>2 DEF vars, IInv, Control, Functions, Locking, Locks
  <2>2. MemoryType' /\ OneEach(queued)' /\ LargestKnown'
        /\ (\A x \in queued' \cap Carrier : Fit(x, buf'))
        /\ (\A g \in Grid : Filled(buf', active'[g], g))
    BY <1>2 DEF vars, memory, source, IInv, InMemory, MemoryType, OneEach, LargestKnown, Launching
  <2>3. (\A t \in Thread : ThreadMemory(t)') /\ \A t \in Thread : Mine(t)' = Mine(t)
    BY <1>2 DEF vars, memory, source, IInv, InMemory, ThreadMemory, OneEach, InHand, Mine, BuffersOf
  <2>4. Held'
    <3>1. /\ Used(buf)' = Used(buf) /\ AllSlots' = AllSlots /\ BuffersOf(queued)' = BuffersOf(queued)
          /\ [t \in Thread |-> Mine(t)]' = [t \in Thread |-> Mine(t)]
      BY <1>2, <2>3 DEF vars, memory, source, Used, AllSlots, BuffersOf
    <3>2. Held
      BY DEF IInv, InMemory
    <3> QED
      BY <3>1, <3>2 DEF Held
  <2> QED
    BY <2>1, <2>2, <2>3, <2>4 DEF IInv, InMemory
<1> QED
  BY <1>1, <1>2 DEF Next

(* In the beginning no buffer is in use, and nobody has a lock. *)
LEMMA IInvInit == Init => IInv
<1> SUFFICES ASSUME Init PROVE IInv
  OBVIOUS
<1>k. \A x \in Task : x # None
  BY TaskKinds
<1>n. None \notin Carrier /\ None \notin Buffer
  BY <1>k, TaskKinds, NoneAssumption
<1>1. Control
  <2>1. <<0, 0>> \in Int \X Int /\ <<0, 0>>[1] = 0
    OBVIOUS
  <2>2. Functions
    BY DEF Init, Functions
  <2>3. ASSUME NEW t \in Thread
        PROVE  pc[t] = "start" /\ cur[t] = None /\ adding[t] = {} /\ pos[t] = <<0, 0>>
    BY DEF Init
  <2>4. ASSUME NEW t \in Thread PROVE AtPlace(pc[t], cur[t], adding[t], pos[t])
    BY <2>1, <2>3 DEF AtPlace, Label
  <2> QED
    BY <2>2, <2>4 DEF Control
<1>2. Locking
  <2>1. \A t \in Thread : Locks(t) = {}
    BY DEF Init, Locks
  <2> QED
    BY <2>1 DEF Locking, Init
<1>3. Used(buf) = {} /\ buf \in Memory
  BY DEF Init, Used, Memory
<1>4. AllSlots = {} /\ active \in [Grid -> Slots] /\ \A g \in Grid : Filled(buf, active[g], g)
  BY <1>n DEF Init, AllSlots, InSlots, Slots, Filled
<1>5. queued \subseteq Task /\ queued \cap Carrier = {} /\ BuffersOf(queued) = {}
  <2>1. \A x \in queued : (\E s \in Discrete : x = DiscreteTask(s)) \/ (\E s \in Continuous : x = ContinuousTask(s))
    BY DEF Init
  <2>2. \A x \in queued : x \in Task
    BY <2>1 DEF Task
  <2>3. \A x \in queued : x.type \in {"discrete", "continuous"}
    BY <2>1 DEF DiscreteTask, ContinuousTask
  <2>4. \A x \in queued : x \notin Carrier
    BY <2>2, <2>3, TaskKinds
  <2> QED
    BY <2>2, <2>4 DEF BuffersOf
<1>6. ASSUME NEW t \in Thread PROVE Mine(t) = {} /\ ThreadMemory(t)
  <2>1. cur[t] = None /\ adding[t] = {} /\ pc[t] = "start"
    BY DEF Init
  <2> QED
    BY <2>1, <1>n DEF Mine, BuffersOf, InHand, ThreadMemory, OneEach, Handling
<1>7. MemoryType
  <2>1. cont \in [Block -> [Grid -> 0 .. Capacity - 1]]
    BY SizeAssumption DEF Init
  <2> QED
    BY <1>3, <1>4, <1>5, <2>1 DEF MemoryType, Init
<1>8. Held
  BY <1>3, <1>4, <1>5, <1>6 DEF Held, Apart
<1>9. LargestKnown
  <2> SUFFICES ASSUME NEW g \in Grid PROVE largest[g] = LargestOf(buf, active[g])
    BY DEF LargestKnown
  <2> DEFINE size == [d \in Dir |-> SizeOf(buf, active[g][d])]
             i == FirstLargest(size)
  <2>1. \A d \in Dir : size[d] = 0
    BY DEF Init, SizeOf
  <2>2. LargestOf(buf, active[g]) = LargestIn(size)
    BY DEF LargestOf
  <2> HIDE DEF size
  <2>3. Directions[1] \in Dir /\ Directions[2] \in Dir /\ Directions[3] \in Dir
    BY DEF Directions, Dir
  <2>4. \A j \in 1 .. 3 : size[Directions[j]] = 0
    <3>1. \A j \in 1 .. 3 : j = 1 \/ j = 2 \/ j = 3
      OBVIOUS
    <3> QED
      BY <2>1, <2>3, <3>1
  <2>5. i \in 1 .. 3
    <3>1. \A j \in 1 .. 3 : /\ size[Directions[j]] <= size[Directions[1]]
                            /\ j < 1 => size[Directions[j]] < size[Directions[1]]
      BY <2>4
    <3> QED
      BY <3>1 DEF FirstLargest
  <2> HIDE DEF i
  <2>6. LargestIn(size) = [dir |-> IF size[Directions[i]] = 0 THEN None ELSE Directions[i], n |-> size[Directions[i]]]
    BY DEF LargestIn, i
  <2>7. LargestIn(size) = [dir |-> None, n |-> 0]
    BY <2>4, <2>5, <2>6
  <2> QED
    BY <2>2, <2>7 DEF Init
<1> QED
  BY <1>1, <1>2, <1>4, <1>5, <1>6, <1>7, <1>8, <1>9 DEF IInv, InMemory, OneEach

-----------------------------------------------------------------------------
(* What follows from the invariant. *)

(* Without a lock nobody launches a buffer of the subgrid, so that the     *)
(* largest one is known.                                                   *)
LEMMA ActiveBuffersHolds == IInv => ActiveBuffers
<1> SUFFICES ASSUME IInv, NEW g \in Grid, ~ locked[g]
             PROVE  /\ largest[g] = LargestOf(buf, active[g])
                    /\ \A d \in Dir : active[g][d] # None =>
                         LET b == buf[active[g][d]] IN
                         /\ b.n \in 1 .. Capacity - 1
                         /\ b.grid = Neighbour(g, d)
                         /\ b.dir = InputDirection(d)
  BY DEF ActiveBuffers
<1>1. ~ Launching(g)
  <2> SUFFICES ASSUME NEW t \in Thread, pc[t] = "launched", pos[t][2] = g PROVE FALSE
    BY DEF Launching
  <2>1. g \in Locks(t)
    BY DEF Locks, Lock
  <2> QED
    BY <2>1 DEF IInv, Locking
<1>2. largest[g] = LargestOf(buf, active[g])
  BY <1>1 DEF IInv, InMemory, LargestKnown
<1>3. Filled(buf, active[g], g)
  BY DEF IInv, InMemory
<1> QED
  BY <1>2, <1>3 DEF Filled, Filling

(* Whatever a thread works on, it has the lock of. *)
LEMMA ExclusiveHolds == IInv => Exclusive
<1> SUFFICES ASSUME IInv PROVE Exclusive
  OBVIOUS
<1>1. ASSUME NEW t \in Thread PROVE Working(t) \subseteq Locks(t)
  <2> SUFFICES ASSUME NEW l \in Working(t) PROVE l \in Locks(t)
    OBVIOUS
  <2>1. CASE pc[t] \in {"launched", "nothing"} /\ l = pos[t][2]
    BY <2>1 DEF Working, Locks
  <2>2. CASE cur[t] # None /\ l = cur[t].dep
    BY <2>2 DEF Working, Locks
  <2>3. cur[t] \in Task \cup {None}
    BY DEF IInv, Control, AtPlace
  <2>4. CASE cur[t] # None /\ cur[t].type = "traversal" /\ pc[t] \in {"exec", "count", "free"}
             /\ l = buf[cur[t].of].grid
    <3>1. InHand(t)
      BY <2>3, <2>4, TaskKinds DEF InHand
    <3>2. cur[t].dep = buf[cur[t].of].grid
      BY <3>1, <2>4 DEF IInv, InMemory, ThreadMemory, Fit
    <3> QED
      BY <3>2, <2>2, <2>4
  <2>5. CASE cur[t] # None /\ cur[t].type = "continuous" /\ l = cur[t].of.block
    BY <2>2, <2>3, <2>5, TaskKinds
  <2>6. CASE cur[t] # None /\ cur[t].type = "flush" /\ l = cur[t].of
    BY <2>2, <2>3, <2>6, TaskKinds
  <2> QED
    BY <2>1, <2>4, <2>5, <2>6 DEF Working
<1>2. \A t, u \in Thread : t # u => Locks(t) \cap Locks(u) = {}
  BY DEF IInv, Locking
<1> QED
  BY <1>1, <1>2 DEF Exclusive

(* A set whose elements stand for different elements of a finite set, all  *)
(* of them, has as many.                                                   *)
LEMMA SameSize ==
  ASSUME NEW S, NEW T, IsFiniteSet(T), NEW f \in [S -> T],
         \A x, y \in S : f[x] = f[y] => x = y, \A y \in T : \E x \in S : f[x] = y
  PROVE  IsFiniteSet(S) /\ Cardinality(S) = Cardinality(T)
<1>1. f \in Injection(S, T)
  BY DEF Injection, IsInjective
<1>2. f \in Surjection(S, T)
  BY DEF Surjection
<1> QED
  BY <1>1, <1>2, FS_Injection

(* The slots in use, the tasks and the threads that have a buffer in hand  *)
(* are as many as their buffers: a slot, a task and a thread tell which    *)
(* buffer they have, and no two have the same.                             *)
LEMMA OneHolderHolds == IInv => OneHolder
<1> SUFFICES ASSUME IInv PROVE OneHolder
  OBVIOUS
<1>f. InMemory /\ MemoryType
  BY DEF IInv, InMemory
<1> DEFINE slots == {gd \in Grid \X Dir : active[gd[1]][gd[2]] # None}
           tasks == {x \in Pending : x.type \in {"traversal", "reemit"}}
           hands == {t \in Thread : /\ cur[t] # None
                                     /\ cur[t].type \in {"traversal", "reemit"}
                                     /\ pc[t] # "finish"
                                     /\ ~ \E x \in adding[t] : x.of = cur[t].of}
           S == {active[gd[1]][gd[2]] : gd \in slots}
           T == {x.of : x \in tasks}
           H == {cur[t].of : t \in hands}
<1>1. \A t \in Thread : adding[t] \subseteq Carrier /\ cur[t] \in Task \cup {None}
  BY DEF IInv, Control, AtPlace
<1>2. tasks = Pending \cap Carrier /\ (queued \cap Carrier) \subseteq tasks
      /\ \A t \in Thread : adding[t] \subseteq tasks
  <2>1. Pending \subseteq Task
    BY <1>1, <1>f, TaskKinds DEF Pending, MemoryType
  <2>2. tasks = Pending \cap Carrier
    BY <2>1, TaskKinds
  <2> QED
    BY <2>2, <1>1 DEF Pending
<1>3. \A t \in Thread : t \in hands <=> InHand(t) /\ cur[t].of \notin BuffersOf(adding[t])
  <2> SUFFICES ASSUME NEW t \in Thread PROVE t \in hands <=> InHand(t) /\ cur[t].of \notin BuffersOf(adding[t])
    OBVIOUS
  <2>1. InHand(t) <=> cur[t] # None /\ cur[t].type \in {"traversal", "reemit"} /\ pc[t] # "finish"
    BY <1>1, TaskKinds DEF InHand
  <2>2. (\E x \in adding[t] : x.of = cur[t].of) <=> cur[t].of \in BuffersOf(adding[t])
    BY <1>1 DEF BuffersOf
  <2> QED
    BY <2>1, <2>2
<1>4. \A x \in tasks :
         \/ x \in queued /\ x.of \in BuffersOf(queued)
         \/ \E t \in Thread : x \in adding[t] /\ x.of \in BuffersOf(adding[t]) /\ x.of \in Mine(t)
  <2> SUFFICES ASSUME NEW x \in tasks
               PROVE  \/ x \in queued /\ x.of \in BuffersOf(queued)
                      \/ \E t \in Thread : x \in adding[t] /\ x.of \in BuffersOf(adding[t]) /\ x.of \in Mine(t)
    OBVIOUS
  <2>1. x \in Carrier /\ (x \in queued \/ \E t \in Thread : x \in adding[t])
    BY <1>2 DEF Pending
  <2> QED
    BY <2>1 DEF BuffersOf, Mine
<1>5. \A t \in hands : t \in Thread /\ cur[t].of \in Mine(t) /\ cur[t].of \in Buffer
                       /\ cur[t].of \notin BuffersOf(adding[t])
  BY <1>3, HandBuffer
<1>6. S = AllSlots
  <2>1. ASSUME NEW gd \in slots PROVE active[gd[1]][gd[2]] \in AllSlots
    <3>1. gd[1] \in Grid /\ gd[2] \in Dir /\ active[gd[1]][gd[2]] # None
      OBVIOUS
    <3>2. active[gd[1]][gd[2]] \in Buffer
      BY <3>1, <1>f DEF MemoryType, Slots
    <3> QED
      BY <3>1, <3>2 DEF AllSlots, InSlots
  <2>2. ASSUME NEW b \in AllSlots PROVE b \in S
    <3>1. PICK g \in Grid, d \in Dir : b \in Buffer /\ active[g][d] = b
      BY <2>2 DEF AllSlots, InSlots
    <3>2. <<g, d>> \in slots
      BY <3>1, NoneAssumption
    <3> QED
      BY <3>1, <3>2
  <2> QED
    BY <2>1, <2>2
<1>7. S \cap T = {} /\ S \cap H = {} /\ T \cap H = {} /\ S \cup T \cup H = Used(buf)
  <2>1. S \cap T = {} /\ S \cap H = {}
    BY <1>4, <1>5, <1>6, <1>f, HoldersApart
  <2>2. ASSUME NEW x \in tasks, NEW t \in hands, x.of = cur[t].of PROVE FALSE
    BY <2>2, <1>4, <1>5, <1>f, HoldersApart
  <2>3. ASSUME NEW b \in Used(buf) PROVE b \in S \cup T \cup H
    <3>1. CASE b \in AllSlots
      BY <3>1, <1>6
    <3>2. CASE b \in BuffersOf(queued)
      BY <3>2, <1>2 DEF BuffersOf
    <3>3. CASE \E t \in Thread : b \in Mine(t)
      <4>1. PICK t \in Thread : b \in Mine(t)
        BY <3>3
      <4>2. CASE b \in BuffersOf(adding[t])
        BY <4>2, <1>2 DEF BuffersOf
      <4>3. CASE b \notin BuffersOf(adding[t])
        <5>1. InHand(t) /\ b = cur[t].of
          BY <4>1, <4>3 DEF Mine
        <5> QED
          BY <5>1, <4>3, <1>3
      <4> QED
        BY <4>2, <4>3
    <3> QED
      BY <3>1, <3>2, <3>3, <1>f, HoldersApart
  <2>4. S \subseteq Used(buf) /\ T \subseteq Used(buf) /\ H \subseteq Used(buf)
    BY <1>4, <1>5, <1>6, <1>f, HoldersApart
  <2>5. T \cap H = {}
    BY <2>2
  <2> HIDE DEF S, T, H
  <2> QED
    BY <2>1, <2>3, <2>4, <2>5
<1>8. IsFiniteSet(S) /\ IsFiniteSet(T) /\ IsFiniteSet(H)
  <2>1. IsFiniteSet(Buffer)
    <3>1. 1 \in Int /\ NBuffer \in Int
      BY SizeAssumption
    <3> QED
      BY <3>1, FS_Interval, Zenon DEF Buffer
  <2>2. S \subseteq Buffer /\ T \subseteq Buffer /\ H \subseteq Buffer
    BY <1>7 DEF Used
  <2> HIDE DEF S, T, H
  <2> QED
    BY <2>1, <2>2, FS_Subset
<1>9. Cardinality(slots) = Cardinality(S)
  <2> DEFINE fs == [gd \in slots |-> active[gd[1]][gd[2]]]
  <2>1. fs \in [slots -> S] /\ \A b \in S : \E gd \in slots : fs[gd] = b
    OBVIOUS
  <2>2. ASSUME NEW x \in slots, NEW y \in slots, fs[x] = fs[y] PROVE x = y
    <3>1. x[1] \in Grid /\ x[2] \in Dir /\ y[1] \in Grid /\ y[2] \in Dir /\ x = <<x[1], x[2]>> /\ y = <<y[1], y[2]>>
      OBVIOUS
    <3>2. active[y[1]][y[2]] = active[x[1]][x[2]] /\ active[x[1]][x[2]] # None
      BY <2>2
    <3>3. y[1] = x[1] /\ y[2] = x[2]
      BY <3>1, <3>2, <1>f, SlotUnique
    <3> QED
      BY <3>1, <3>3
  <2> HIDE DEF fs, slots, S
  <2> QED
    BY <2>1, <2>2, <1>8, SameSize
<1>10. Cardinality(tasks) = Cardinality(T)
  <2> DEFINE ft == [x \in tasks |-> x.of]
  <2>1. ft \in [tasks -> T] /\ \A b \in T : \E x \in tasks : ft[x] = b
    OBVIOUS
  <2>2. ASSUME NEW x \in tasks, NEW y \in tasks, x.of = y.of PROVE x = y
    <3>1. x \in Carrier /\ y \in Carrier
      BY <1>2
    <3>2. CASE x \in queued /\ y \in queued
      BY <2>2, <3>1, <3>2, <1>f DEF InMemory, OneEach
    <3>3. CASE \E t \in Thread : x \in adding[t] /\ y \in adding[t]
      BY <2>2, <3>1, <3>3, <1>f DEF InMemory, ThreadMemory, OneEach
    <3> QED
      BY <2>2, <3>2, <3>3, <1>4, <1>f, HoldersApart
  <2>3. \A x, y \in tasks : ft[x] = ft[y] => x = y
    BY <2>2
  <2> HIDE DEF ft, tasks, T
  <2> QED
    BY <2>1, <2>3, <1>8, SameSize
<1>11. Cardinality(hands) = Cardinality(H)
  <2> DEFINE fh == [t \in hands |-> cur[t].of]
  <2>1. fh \in [hands -> H] /\ \A b \in H : \E t \in hands : fh[t] = b
    OBVIOUS
  <2>2. \A t, u \in hands : fh[t] = fh[u] => t = u
    <3> SUFFICES ASSUME NEW t \in hands, NEW u \in hands, cur[t].of = cur[u].of PROVE t = u
      OBVIOUS
    <3> QED
      BY <1>5, <1>f, HoldersApart
  <2> HIDE DEF fh, hands, H
  <2> QED
    BY <2>1, <2>2, <1>8, SameSize
<1> HIDE DEF slots, tasks, hands, S, T, H
<1>12. Cardinality(slots) + Cardinality(tasks) + Cardinality(hands) = Cardinality(S \cup T \cup H)
  <2>1. IsFiniteSet(S \cup T) /\ Cardinality(S \cup T) = Cardinality(S) + Cardinality(T) - Cardinality(S \cap T)
    BY <1>8, FS_Union
  <2>2. Cardinality((S \cup T) \cup H) = Cardinality(S \cup T) + Cardinality(H) - Cardinality((S \cup T) \cap H)
    BY <2>1, <1>8, FS_Union
  <2>3. S \cap T = {} /\ (S \cup T) \cap H = {}
    BY <1>7
  <2>4. Cardinality(S \cap T) = 0 /\ Cardinality((S \cup T) \cap H) = 0
    BY <2>3, FS_EmptySet
  <2>5. Cardinality(S) \in Nat /\ Cardinality(T) \in Nat /\ Cardinality(H) \in Nat
    BY <1>8, FS_CardinalityType
  <2> QED
    BY <2>1, <2>2, <2>4, <2>5, <1>9, <1>10, <1>11
<1>13. OneHolder <=> /\ S \cup T \cup H = Used(buf)
                     /\ Cardinality(slots) + Cardinality(tasks) + Cardinality(hands) = Cardinality(S \cup T \cup H)
  BY DEF OneHolder, slots, tasks, hands, S, T, H
<1> QED
  BY <1>7, <1>12, <1>13

(* Every reachable state satisfies the invariant, if there always is room. *)
LEMMA Invariant == Spec /\ []Room => []IInv
<1>1. Init => IInv
  BY IInvInit
<1>2. IInv /\ Room /\ [Next]_vars => IInv'
  BY IInvNext
<1> QED
  BY <1>1, <1>2, PTL DEF Spec

(* As long as the memory space is not exhausted, every buffer in use has   *)
(* exactly one holder: no buffer is leaked, freed while it is in use, or   *)
(* filled or processed by two (property OneHolder).                        *)
THEOREM OneHolderEach == Spec /\ []Room => []OneHolder
  BY Invariant, OneHolderHolds, PTL

(* As long as the memory space is not exhausted, the active buffers of a   *)
(* subgrid that is not locked are neither empty nor full, lead to the      *)
(* right neighbour, and the recorded largest one is the largest (property  *)
(* ActiveBuffers), although threads fill and launch them at the same time. *)
THEOREM ActiveBuffersKnown == Spec /\ []Room => []ActiveBuffers
  BY Invariant, ActiveBuffersHolds, PTL

(* As long as the memory space is not exhausted, at most one thread works  *)
(* on a subgrid or on a block of the continuous source (property           *)
(* Exclusive).                                                             *)
THEOREM WorkExclusive == Spec /\ []Room => []Exclusive
  BY Invariant, ExclusiveHolds, PTL

-----------------------------------------------------------------------------
(* A nonempty set of subsets of a finite set has a least one. *)
LEMMA LeastSet ==
  ASSUME NEW S, IsFiniteSet(S), NEW B \in SUBSET SUBSET S, B # {}
  PROVE  \E s \in B : \A r \in B : ~ (r \subseteq s /\ r # s)
<1>1. B \subseteq FiniteSubsetsOf(S)
  BY FS_Subset DEF FiniteSubsetsOf
<1>2. PICK s \in B : \A r \in B : ~ (<<r, s>> \in StrictSubsetOrdering(S))
  BY <1>1, WFMin, FS_StrictSubsetOrderingWellFounded
<1>3. ASSUME NEW r \in B, r \subseteq s, r # s PROVE FALSE
  BY <1>2, <1>3 DEF StrictSubsetOrdering
<1> QED
  BY <1>3

(* The element that is taken out of a set first, and what is left. *)
First(s) == CHOOSE x \in s : TRUE
Rest(s) == s \ {First(s)}

(* What is left is less. *)
LEMMA RestLess ==
  ASSUME NEW s, s # {}
  PROVE  First(s) \in s /\ Rest(s) \subseteq s /\ Rest(s) # s
<1>1. First(s) \in s
  BY DEF First
<1> QED
  BY <1>1 DEF Rest

(* G adds up the values of f over each of the sets in its domain. *)
Adds(G, f) ==
  /\ G = [s \in DOMAIN G |-> G[s]]
  /\ \A s \in DOMAIN G :
       IF s = {} THEN G[s] = 0
       ELSE Rest(s) \in DOMAIN G /\ G[s] = f[First(s)] + G[Rest(s)]

(* There is only one way to do so. *)
LEMMA AddsAgree ==
  ASSUME NEW f, NEW S, IsFiniteSet(S), NEW G, NEW H, Adds(G, f), Adds(H, f),
         S \in DOMAIN G, S \in DOMAIN H
  PROVE  G[S] = H[S]
<1> DEFINE B == {s \in SUBSET S : s \in DOMAIN G /\ s \in DOMAIN H /\ G[s] # H[s]}
<1> SUFFICES ASSUME B # {} PROVE FALSE
  OBVIOUS
<1>1. PICK s \in B : \A r \in B : ~ (r \subseteq s /\ r # s)
  <2>1. B \in SUBSET SUBSET S
    OBVIOUS
  <2> HIDE DEF B
  <2> QED
    BY <2>1, LeastSet
<1>2. s # {}
  BY <1>1 DEF Adds
<1>3. Rest(s) \in DOMAIN G /\ Rest(s) \in DOMAIN H /\ G[Rest(s)] # H[Rest(s)]
  BY <1>1, <1>2 DEF Adds
<1>4. Rest(s) \in B
  BY <1>1, <1>2, <1>3, RestLess
<1> QED
  BY <1>1, <1>2, <1>4, RestLess

(* And there is one. *)
LEMMA AddsExist ==
  ASSUME NEW f, NEW S, IsFiniteSet(S)
  PROVE  \E G : Adds(G, f) /\ S \in DOMAIN G
<1> DEFINE Has(s) == \E G : Adds(G, f) /\ s \in DOMAIN G
           B == {s \in SUBSET S : ~ Has(s)}
<1> SUFFICES ASSUME B # {} PROVE FALSE
  OBVIOUS
<1>1. PICK s \in B : \A r \in B : ~ (r \subseteq s /\ r # s)
  <2>1. B \in SUBSET SUBSET S
    OBVIOUS
  <2> HIDE DEF B
  <2> QED
    BY <2>1, LeastSet
<1>2. s # {}
  <2>1. Adds([r \in {{}} |-> 0], f)
    BY DEF Adds
  <2> QED
    BY <2>1, <1>1
<1>3. Rest(s) \in SUBSET S /\ Rest(s) \notin B
  BY <1>1, <1>2, RestLess
<1>4. PICK G : Adds(G, f) /\ Rest(s) \in DOMAIN G
  BY <1>3
<1>5. s \notin DOMAIN G
  BY <1>1, <1>4
<1> DEFINE H == [r \in DOMAIN G \cup {s} |-> IF r = s THEN f[First(s)] + G[Rest(s)] ELSE G[r]]
<1>6. ASSUME NEW r \in DOMAIN H, r # {}
      PROVE  Rest(r) \in DOMAIN H /\ H[r] = f[First(r)] + H[Rest(r)]
  <2>1. CASE r = s
    BY <2>1, <1>4, <1>5, <1>2, RestLess
  <2>2. CASE r # s
    BY <2>2, <1>4, <1>5, <1>6 DEF Adds
  <2> QED
    BY <2>1, <2>2
<1>7. Adds(H, f)
  <2>1. ASSUME NEW r \in DOMAIN H, r = {} PROVE H[r] = 0
    BY <2>1, <1>2, <1>4 DEF Adds
  <2>2. H = [r \in DOMAIN H |-> H[r]]
    OBVIOUS
  <2> HIDE DEF H
  <2> QED
    BY <1>6, <2>1, <2>2 DEF Adds
<1>8. s \in DOMAIN H
  OBVIOUS
<1> HIDE DEF H
<1> QED
  BY <1>7, <1>8, <1>1

(* The sum of the library is that. *)
LEMMA SumAdds ==
  ASSUME NEW f, NEW S, IsFiniteSet(S)
  PROVE  \E G : Adds(G, f) /\ S \in DOMAIN G /\ Sum(f, S) = G[S]
<1> DEFINE Of(s) == CHOOSE G : Adds(G, f) /\ s \in DOMAIN G
           Body(g) == [s \in SUBSET S |-> IF s = {} THEN 0
            ELSE f[CHOOSE x \in s : TRUE] + g[s \ {CHOOSE x \in s : TRUE}]]
           A == [s \in SUBSET S |-> Of(s)[s]]
<1>1. \A s \in SUBSET S : Adds(Of(s), f) /\ s \in DOMAIN Of(s)
  BY AddsExist, FS_Subset
<1>2. ASSUME NEW s \in SUBSET S, s # {} PROVE A[s] = f[First(s)] + A[Rest(s)]
  <2>1. Rest(s) \in SUBSET S
    BY <1>2, RestLess
  <2>2. Rest(s) \in DOMAIN Of(s) /\ Of(s)[s] = f[First(s)] + Of(s)[Rest(s)]
    BY <1>1, <1>2 DEF Adds
  <2>3. Of(s)[Rest(s)] = Of(Rest(s))[Rest(s)]
    <3> HIDE DEF Of
    <3> QED
      BY <2>1, <2>2, <1>1, AddsAgree, FS_Subset
  <2> QED
    BY <2>1, <2>2, <2>3
<1>3. ASSUME NEW s \in SUBSET S, s = {} PROVE A[s] = 0
  BY <1>1, <1>3 DEF Adds
<1>4. A = Body(A)
  <2> HIDE DEF Of
  <2>1. ASSUME NEW s \in SUBSET S
        PROVE  A[s] = IF s = {} THEN 0 ELSE f[CHOOSE x \in s : TRUE] + A[s \ {CHOOSE x \in s : TRUE}]
    <3> HIDE DEF A
    <3> QED
    BY <1>2, <1>3 DEF First, Rest
  <2> QED
    BY <2>1
<1> DEFINE F == CHOOSE g : g = Body(g)
<1>5. F = Body(F)
  <2> HIDE DEF A, Body
  <2> QED
    BY <1>4
<1>6. Sum(f, S) = F[S]
  BY DEF Sum, MapThenSumSet, MapThenFoldSet
<1> HIDE DEF F
<1>7. Adds(F, f) /\ S \in DOMAIN F
  <2>1. DOMAIN F = SUBSET S /\ F = [s \in DOMAIN F |-> F[s]]
    BY <1>5
  <2>2. ASSUME NEW s \in SUBSET S PROVE F[s] = IF s = {} THEN 0 ELSE f[First(s)] + F[Rest(s)]
    BY <1>5 DEF First, Rest
  <2> QED
    BY <2>1, <2>2, RestLess DEF Adds
<1> QED
  BY <1>6, <1>7

(* The sum over nothing is zero. *)
LEMMA SumEmpty ==
  ASSUME NEW f
  PROVE  Sum(f, {}) = 0
<1>1. PICK G : Adds(G, f) /\ {} \in DOMAIN G /\ Sum(f, {}) = G[{}]
  BY SumAdds, FS_EmptySet
<1> QED
  BY <1>1 DEF Adds

(* The sum over a set is that over the rest and the first element. *)
LEMMA SumRest ==
  ASSUME NEW f, NEW S, IsFiniteSet(S), S # {}
  PROVE  Sum(f, S) = f[First(S)] + Sum(f, Rest(S))
<1>1. PICK G : Adds(G, f) /\ S \in DOMAIN G /\ Sum(f, S) = G[S]
  BY SumAdds
<1>2. IsFiniteSet(Rest(S))
  BY RestLess, FS_Subset
<1>3. PICK H : Adds(H, f) /\ Rest(S) \in DOMAIN H /\ Sum(f, Rest(S)) = H[Rest(S)]
  BY <1>2, SumAdds
<1>4. Rest(S) \in DOMAIN G /\ G[S] = f[First(S)] + G[Rest(S)]
  BY <1>1 DEF Adds
<1>5. G[Rest(S)] = H[Rest(S)]
  BY <1>1, <1>2, <1>3, <1>4, AddsAgree
<1> QED
  BY <1>1, <1>3, <1>4, <1>5

(* A sum of numbers is a number. *)
LEMMA SumNat ==
  ASSUME NEW f, NEW S, IsFiniteSet(S), \A x \in S : f[x] \in Nat
  PROVE  Sum(f, S) \in Nat
<1> DEFINE B == {s \in SUBSET S : Sum(f, s) \notin Nat}
<1> SUFFICES ASSUME B # {} PROVE FALSE
  OBVIOUS
<1>1. PICK s \in B : \A r \in B : ~ (r \subseteq s /\ r # s)
  <2>1. B \in SUBSET SUBSET S
    OBVIOUS
  <2> HIDE DEF B
  <2> QED
    BY <2>1, LeastSet
<1>2. s # {}
  <2>1. Sum(f, {}) \in Nat
    BY SumEmpty
  <2> QED
    BY <1>1, <2>1
<1>3. Rest(s) \in SUBSET S /\ Rest(s) \notin B /\ First(s) \in S
  BY <1>1, <1>2, RestLess
<1>4. Sum(f, s) = f[First(s)] + Sum(f, Rest(s))
  BY <1>1, <1>2, SumRest, FS_Subset
<1> QED
  BY <1>1, <1>3, <1>4

(* Whichever element is taken out, the sum is that of the others and it.   *)
LEMMA SumWithout ==
  ASSUME NEW f, NEW S, IsFiniteSet(S), \A x \in S : f[x] \in Nat, NEW x \in S
  PROVE  Sum(f, S) = f[x] + Sum(f, S \ {x})
<1> DEFINE B == {s \in SUBSET S : \E y \in s : Sum(f, s) # f[y] + Sum(f, s \ {y})}
<1> SUFFICES ASSUME B # {} PROVE FALSE
  OBVIOUS
<1>1. PICK s \in B : \A r \in B : ~ (r \subseteq s /\ r # s)
  <2>1. B \in SUBSET SUBSET S
    OBVIOUS
  <2> HIDE DEF B
  <2> QED
    BY <2>1, LeastSet
<1>2. PICK y \in s : Sum(f, s) # f[y] + Sum(f, s \ {y})
  BY <1>1
<1> DEFINE c == First(s)
           both == Sum(f, s \ {c, y})
<1>3. s \in SUBSET S /\ s # {} /\ IsFiniteSet(s)
  BY <1>1, <1>2, FS_Subset
<1>4. c \in s /\ Sum(f, s) = f[c] + Sum(f, s \ {c})
  BY <1>3, SumRest, RestLess DEF Rest
<1> HIDE DEF c
<1>5. c # y
  BY <1>2, <1>4
<1>6. s \ {c} \notin B /\ s \ {y} \notin B
  BY <1>1, <1>2, <1>4
<1>7. (s \ {c}) \ {y} = s \ {c, y} /\ (s \ {y}) \ {c} = s \ {c, y}
  OBVIOUS
<1>8. Sum(f, s \ {c}) = f[y] + both /\ Sum(f, s \ {y}) = f[c] + both
  BY <1>2, <1>3, <1>4, <1>5, <1>6, <1>7
<1>9. both \in Nat
  BY <1>3, SumNat, FS_Subset
<1> HIDE DEF both
<1> QED
  BY <1>2, <1>3, <1>4, <1>8, <1>9

(* Functions with the same values have the same sum. *)
LEMMA SumSame ==
  ASSUME NEW f, NEW g, NEW S, IsFiniteSet(S), \A x \in S : f[x] = g[x]
  PROVE  Sum(f, S) = Sum(g, S)
<1> DEFINE B == {s \in SUBSET S : Sum(f, s) # Sum(g, s)}
<1> SUFFICES ASSUME B # {} PROVE FALSE
  OBVIOUS
<1>1. PICK s \in B : \A r \in B : ~ (r \subseteq s /\ r # s)
  <2>1. B \in SUBSET SUBSET S
    OBVIOUS
  <2> HIDE DEF B
  <2> QED
    BY <2>1, LeastSet
<1>2. s # {}
  BY <1>1, SumEmpty
<1>3. Rest(s) \in SUBSET S /\ Rest(s) \notin B /\ First(s) \in S
  BY <1>1, <1>2, RestLess
<1>4. Sum(f, s) = f[First(s)] + Sum(f, Rest(s)) /\ Sum(g, s) = g[First(s)] + Sum(g, Rest(s))
  BY <1>1, <1>2, SumRest, FS_Subset
<1> QED
  BY <1>1, <1>3, <1>4

-----------------------------------------------------------------------------
(* Totals of functions to numbers, on a finite set.                        *)

(* If the value of one element changes the total changes by as much. *)
LEMMA TotalChange ==
  ASSUME NEW S, IsFiniteSet(S), NEW f \in [S -> Nat], NEW g \in [S -> Nat], NEW x \in S,
         \A y \in S \ {x} : g[y] = f[y]
  PROVE  /\ Total(f) \in Nat /\ Total(g) \in Nat
         /\ Total(g) + f[x] = Total(f) + g[x]
<1>1. Total(f) = Sum(f, S) /\ Total(g) = Sum(g, S)
  BY DEF Total
<1>2. Sum(f, S) = f[x] + Sum(f, S \ {x}) /\ Sum(g, S) = g[x] + Sum(g, S \ {x})
  BY SumWithout
<1>3. IsFiniteSet(S \ {x})
  BY FS_Subset
<1>4. Sum(f, S \ {x}) = Sum(g, S \ {x}) /\ Sum(f, S \ {x}) \in Nat
  BY <1>3, SumSame, SumNat
<1>5. f[x] \in Nat /\ g[x] \in Nat
  OBVIOUS
<1> QED
  BY <1>1, <1>2, <1>4, <1>5

(* The total is a number, and none of the values is more than it. *)
LEMMA TotalBound ==
  ASSUME NEW S, IsFiniteSet(S), NEW f \in [S -> Nat]
  PROVE  /\ Total(f) \in Nat
         /\ \A x \in S : f[x] <= Total(f)
<1>1. Total(f) = Sum(f, S) /\ Sum(f, S) \in Nat
  BY SumNat DEF Total
<1>2. ASSUME NEW x \in S PROVE f[x] <= Total(f)
  <2>1. Sum(f, S) = f[x] + Sum(f, S \ {x})
    BY SumWithout
  <2>2. Sum(f, S \ {x}) \in Nat
    BY SumNat, FS_Subset
  <2> QED
    BY <1>1, <2>1, <2>2
<1> QED
  BY <1>1, <1>2

(* If all values are zero the total is. *)
LEMMA TotalZero ==
  ASSUME NEW S, IsFiniteSet(S), NEW f \in [S -> Nat], \A x \in S : f[x] = 0
  PROVE  Total(f) = 0
<1> DEFINE B == {s \in SUBSET S : Sum(f, s) # 0}
<1>1. SUFFICES ASSUME B # {} PROVE FALSE
  BY DEF Total
<1>2. PICK s \in B : \A r \in B : ~ (r \subseteq s /\ r # s)
  <2>1. B \in SUBSET SUBSET S
    OBVIOUS
  <2> HIDE DEF B
  <2> QED
    BY <1>1, <2>1, LeastSet
<1>3. s # {}
  <2>1. Sum(f, {}) = 0
    BY SumEmpty
  <2> QED
    BY <1>2, <2>1
<1>4. Rest(s) \in SUBSET S /\ Rest(s) \notin B /\ First(s) \in S
  BY <1>2, <1>3, RestLess
<1>5. Sum(f, s) = f[First(s)] + Sum(f, Rest(s))
  BY <1>2, <1>3, SumRest, FS_Subset
<1> QED
  BY <1>2, <1>4, <1>5

(* The total of a sum is the sum of the totals. *)
LEMMA TotalPlus ==
  ASSUME NEW S, IsFiniteSet(S), NEW f \in [S -> Nat], NEW g \in [S -> Nat], NEW h \in [S -> Nat],
         \A x \in S : h[x] = f[x] + g[x]
  PROVE  Total(h) = Total(f) + Total(g)
<1> DEFINE B == {s \in SUBSET S : Sum(h, s) # Sum(f, s) + Sum(g, s)}
<1>1. SUFFICES ASSUME B # {} PROVE FALSE
  BY DEF Total
<1>2. PICK s \in B : \A r \in B : ~ (r \subseteq s /\ r # s)
  <2>1. B \in SUBSET SUBSET S
    OBVIOUS
  <2> HIDE DEF B
  <2> QED
    BY <1>1, <2>1, LeastSet
<1>3. s # {}
  <2>1. Sum(f, {}) = 0 /\ Sum(g, {}) = 0 /\ Sum(h, {}) = 0
    BY SumEmpty
  <2>2. Sum(h, {}) = Sum(f, {}) + Sum(g, {})
    BY <2>1
  <2> QED
    BY <1>2, <2>2
<1>4. Rest(s) \in SUBSET S /\ Rest(s) \notin B /\ First(s) \in S
  BY <1>2, <1>3, RestLess
<1>5. /\ Sum(f, s) = f[First(s)] + Sum(f, Rest(s))
      /\ Sum(g, s) = g[First(s)] + Sum(g, Rest(s))
      /\ Sum(h, s) = h[First(s)] + Sum(h, Rest(s))
  BY <1>2, <1>3, SumRest, FS_Subset
<1>6. Sum(f, Rest(s)) \in Nat /\ Sum(g, Rest(s)) \in Nat
  BY <1>4, SumNat, FS_Subset
<1>7. PICK a \in Nat, c \in Nat : a = f[First(s)] /\ c = g[First(s)]
  BY <1>4
<1>8. h[First(s)] = a + c
  BY <1>4, <1>7
<1>9. Sum(h, Rest(s)) = Sum(f, Rest(s)) + Sum(g, Rest(s)) /\ Sum(h, s) # Sum(f, s) + Sum(g, s)
  BY <1>2, <1>4
<1> QED
  BY <1>5, <1>6, <1>7, <1>8, <1>9

(* A part of a set has no larger sum. *)
LEMMA SumPart ==
  ASSUME NEW S, IsFiniteSet(S), NEW f, \A x \in S : f[x] \in Nat, NEW T \in SUBSET S
  PROVE  Sum(f, T) \in Nat /\ Sum(f, S) \in Nat /\ Sum(f, T) <= Sum(f, S)
<1>1. Sum(f, S) \in Nat /\ Sum(f, T) \in Nat
  BY SumNat, FS_Subset
<1> DEFINE B == {s \in SUBSET S : ~ Sum(f, s \cap T) <= Sum(f, s)}
<1>2. SUFFICES ASSUME B # {} PROVE FALSE
  <2>1. S \cap T = T
    OBVIOUS
  <2>2. S \notin B
    BY <1>2
  <2> QED
    BY <1>1, <2>1, <2>2
<1>3. PICK s \in B : \A r \in B : ~ (r \subseteq s /\ r # s)
  <2>1. B \in SUBSET SUBSET S
    OBVIOUS
  <2> HIDE DEF B
  <2> QED
    BY <1>2, <2>1, LeastSet
<1>4. s # {}
  <2>1. Sum(f, {}) = 0 /\ {} \cap T = {}
    BY SumEmpty
  <2>2. Sum(f, {} \cap T) <= Sum(f, {})
    BY <2>1
  <2> QED
    BY <1>3, <2>2
<1> DEFINE c == First(s)
           r == Rest(s)
<1>5. r \in SUBSET S /\ r \notin B /\ c \in s /\ c \in S /\ IsFiniteSet(s)
  BY <1>3, <1>4, RestLess, FS_Subset
<1>6. Sum(f, s) = f[c] + Sum(f, r) /\ ~ Sum(f, s \cap T) <= Sum(f, s)
  BY <1>3, <1>4, <1>5, SumRest
<1>7. Sum(f, r \cap T) <= Sum(f, r)
  BY <1>5
<1>8. Sum(f, r \cap T) \in Nat /\ Sum(f, r) \in Nat /\ f[c] \in Nat
  <2>1. r \cap T \subseteq S
    BY <1>5
  <2> QED
    BY <2>1, <1>5, SumNat, FS_Subset
<1>9. s \cap T = r \cap T \/ (c \in s \cap T /\ (s \cap T) \ {c} = r \cap T)
  BY <1>5 DEF Rest
<1>10. CASE s \cap T = r \cap T
  <2> HIDE DEF c, r
  <2> QED
    BY <1>10, <1>6, <1>7, <1>8
<1>11. CASE c \in s \cap T /\ (s \cap T) \ {c} = r \cap T
  <2>1. Sum(f, s \cap T) = f[c] + Sum(f, r \cap T)
    <3>1. IsFiniteSet(s \cap T) /\ \A x \in s \cap T : f[x] \in Nat
      BY <1>5, <1>3, FS_Subset
    <3> HIDE DEF c, r
    <3> QED
      BY <3>1, <1>11, SumWithout
  <2> HIDE DEF c, r
  <2> QED
    BY <2>1, <1>6, <1>7, <1>8
<1> QED
  BY <1>9, <1>10, <1>11

(* The sets the totals are over are finite. *)
LEMMA FiniteSets ==
  IsFiniteSet(Buffer) /\ IsFiniteSet(Grid) /\ IsFiniteSet(Block)
    /\ IsFiniteSet(Thread) /\ IsFiniteSet(Discrete) /\ IsFiniteSet(Continuous)
<1>1. 1 \in Int /\ NBuffer \in Int /\ NGrid \in Int /\ NGrid + 1 \in Int /\ NGrid + NBlock \in Int
  BY SizeAssumption
<1>2. IsFiniteSet(1 .. NBuffer) /\ IsFiniteSet(1 .. NGrid) /\ IsFiniteSet(NGrid + 1 .. NGrid + NBlock)
  BY <1>1, FS_Interval, Zenon
<1> QED
  BY <1>2, ThreadAssumption, SourceAssumption DEF Buffer, Grid, Block

-----------------------------------------------------------------------------
(* The packets of a traversal. *)

(* The packets in the memory space. *)
PacketsOf(m) == [b \in Buffer |-> IF m[b] = None THEN 0 ELSE m[b].n]

(* No full buffer is empty. *)
FullLoaded(s) == \A b \in s.full : s.buf[b].n > 0

(* The packets of a buffer, and of all buffers, are a number. *)
LEMMA PacketsNat ==
  ASSUME NEW m \in Memory
  PROVE  PacketsOf(m) \in [Buffer -> Nat] /\ Total(PacketsOf(m)) \in Nat
<1>1. ASSUME NEW b \in Buffer, m[b] # None PROVE m[b].n \in Nat
  <2>1. m[b] \in PhotonBuffer
    BY <1>1 DEF Memory
  <2> QED
    BY <2>1 DEF PhotonBuffer
<1>2. PacketsOf(m) \in [Buffer -> Nat]
  BY <1>1 DEF PacketsOf
<1> QED
  BY <1>2, TotalBound, FiniteSets

(* If one buffer changes there are as many more packets as in it. *)
LEMMA PacketsChange ==
  ASSUME NEW m \in Memory, NEW m2 \in Memory, NEW b \in Buffer,
         \A c \in Buffer : c # b => m2[c] = m[c]
  PROVE  /\ Total(PacketsOf(m)) \in Nat /\ Total(PacketsOf(m2)) \in Nat
         /\ PacketsOf(m)[b] \in Nat /\ PacketsOf(m2)[b] \in Nat
         /\ Total(PacketsOf(m2)) + PacketsOf(m)[b] = Total(PacketsOf(m)) + PacketsOf(m2)[b]
<1>1. PacketsOf(m) \in [Buffer -> Nat] /\ PacketsOf(m2) \in [Buffer -> Nat]
  BY PacketsNat
<1>2. \A c \in Buffer \ {b} : PacketsOf(m2)[c] = PacketsOf(m)[c]
  BY DEF PacketsOf
<1> QED
  BY <1>1, <1>2, TotalChange, FiniteSets

(* The packets for one direction are added to those in the memory.         *)
LEMMA StoreAdds ==
  ASSUME NEW s, NEW K, NEW m0, NEW g \in Grid, NEW d \in Dir, NEW n \in 1 .. Capacity,
         Neighbour(g, d) # None, Storing(s, g, K, m0), Cardinality(Free(s.buf)) >= 2,
         FullLoaded(s)
  PROVE  LET r == StoreOutgoing(s, g, d, n) IN
         /\ Total(PacketsOf(r.buf)) = Total(PacketsOf(s.buf)) + n
         /\ FullLoaded(r)
<1> DEFINE a == s.act[d]
           b == IF a = None THEN FreeBuffer(s.buf) ELSE a
           m == IF a = None
            THEN [s.buf EXCEPT ![b] =
                    [grid |-> Neighbour(g, d), dir |-> InputDirection(d), n |-> 0]]
            ELSE s.buf
           o == m[b].n
           moved == Moves(m[b], n)
           m1 == [m EXCEPT ![b].n = @ + moved]
           r == StoreOutgoing(s, g, d, n)
<1>a. Neighbour(g, d) \in Grid /\ InputDirection(d) \in Dir
  BY NeighbourIsGrid
<1>b. s.buf \in Memory /\ s.act \in Slots /\ None \notin Buffer /\ None \notin PhotonBuffer
      /\ Capacity \in Nat \ {0} /\ a \in Buffer \cup {None} /\ s.full \subseteq Buffer
  BY NoneAssumption, SizeAssumption DEF Storing, Slots
<1>c. Free(s.buf) # {}
  BY FS_EmptySet
<1>1. /\ b \in Buffer /\ b \notin s.full
      /\ m \in Memory /\ \A c \in Buffer : c # b => m[c] = s.buf[c]
      /\ m[b] = [grid |-> Neighbour(g, d), dir |-> InputDirection(d), n |-> o]
      /\ o \in 0 .. Capacity - 1
      /\ Used(m) = Used(s.buf) \cup {b}
      /\ PacketsOf(s.buf)[b] = o
  <2>1. CASE a = None
    <3>1. b \in Buffer /\ b \notin Used(s.buf)
      BY <2>1, <1>c, FreeIsFree DEF Free
    <3>2. [grid |-> Neighbour(g, d), dir |-> InputDirection(d), n |-> 0] \in PhotonBuffer
      BY <1>a, <1>b DEF PhotonBuffer
    <3>3. /\ m \in Memory /\ \A c \in Buffer : c # b => m[c] = s.buf[c]
          /\ m[b] = [grid |-> Neighbour(g, d), dir |-> InputDirection(d), n |-> 0]
      BY <3>1, <3>2, <2>1, <1>b, Zenon DEF Memory
    <3>4. Used(m) = Used(s.buf) \cup {b}
      BY <3>3, <3>2, <3>1, <1>b, Zenon DEF Used
    <3>5. b \notin s.full
      BY <3>1 DEF Storing
    <3>6. o = 0 /\ o \in 0 .. Capacity - 1
      BY <3>3, <1>b
    <3>7. PacketsOf(s.buf)[b] = 0
      BY <3>1 DEF PacketsOf, Used
    <3> QED
      BY <3>1, <3>3, <3>4, <3>5, <3>6, <3>7
  <2>2. CASE a # None
    <3>1. b = a /\ m = s.buf /\ Filling(s.buf[b], g, d) /\ b \in Buffer
      BY <2>2, <1>b, Zenon DEF Storing, Filled
    <3>2. b \in InSlots(s.act) /\ b \in Used(s.buf)
      BY <3>1 DEF InSlots, Storing
    <3>3. m[b] = [grid |-> Neighbour(g, d), dir |-> InputDirection(d), n |-> o] /\ o \in 0 .. Capacity - 1
      BY <3>1, <1>b DEF Filling, PhotonBuffer
    <3>4. b \notin s.full /\ Used(m) = Used(s.buf) \cup {b}
      BY <3>1, <3>2 DEF Storing
    <3>5. PacketsOf(s.buf)[b] = o
      BY <3>1, <3>2 DEF PacketsOf, Used
    <3> QED
      BY <3>1, <3>3, <3>4, <3>5, <1>b
  <2> QED
    BY <2>1, <2>2
<1>r. r = [buf  |-> IF NewIsEmpty(AddPhotons(m, b, n).buf, b, AddPhotons(m, b, n).out)
                    THEN [AddPhotons(m, b, n).buf EXCEPT ![AddPhotons(m, b, n).out] = None] ELSE AddPhotons(m, b, n).buf,
           act  |-> [s.act EXCEPT ![d] = IF NewIsEmpty(AddPhotons(m, b, n).buf, b, AddPhotons(m, b, n).out)
                                         THEN None ELSE AddPhotons(m, b, n).out],
           full |-> IF AddPhotons(m, b, n).out = b THEN s.full ELSE s.full \cup {b}]
  BY DEF StoreOutgoing
<1>p. AddPhotons(m, b, n) =
      IF m1[b].n < Capacity
      THEN [buf |-> m1, out |-> b]
      ELSE [buf |-> [m1 EXCEPT ![FreeBuffer(m1)] = [m[b] EXCEPT !.n = n - moved]], out |-> FreeBuffer(m1)]
  BY DEF AddPhotons
<1> HIDE DEF b, m, a, r
<1>2. moved = IF Capacity - o <= n THEN Capacity - o ELSE n
  <2>1. o \in 0 .. Capacity /\ n \in Nat /\ m[b].n = o
    BY <1>1, <1>b
  <2> QED
    BY <2>1, MovesFit
<1> HIDE DEF o, moved
<1>3. /\ m1 \in Memory /\ \A c \in Buffer : c # b => m1[c] = s.buf[c]
      /\ m1[b] = [grid |-> Neighbour(g, d), dir |-> InputDirection(d), n |-> o + moved]
      /\ o + moved \in 0 .. Capacity
      /\ m1[b] \in PhotonBuffer
  <2>1. o + moved \in 0 .. Capacity
    BY <1>2, <1>1, <1>b
  <2>2. [grid |-> Neighbour(g, d), dir |-> InputDirection(d), n |-> o + moved] \in PhotonBuffer
    BY <2>1, <1>a DEF PhotonBuffer
  <2>3. m1 = [m EXCEPT ![b] = [grid |-> Neighbour(g, d), dir |-> InputDirection(d), n |-> o + moved]]
    <3>1. [m[b] EXCEPT !.n = m[b].n + moved] = [grid |-> Neighbour(g, d), dir |-> InputDirection(d), n |-> o + moved]
      BY <1>1, SetSize
    <3>2. m1 = [m EXCEPT ![b] = [m[b] EXCEPT !.n = m[b].n + moved]]
      BY Zenon
    <3> QED
      BY <3>1, <3>2
  <2> QED
    BY <2>1, <2>2, <2>3, <1>1, Zenon DEF Memory
<1> HIDE DEF m1
<1>4. Used(m1) = Used(s.buf) \cup {b}
  BY <1>3, <1>1, <1>b, Zenon DEF Used, Memory
<1>5. /\ Total(PacketsOf(s.buf)) \in Nat /\ Total(PacketsOf(m1)) \in Nat
      /\ Total(PacketsOf(m1)) = Total(PacketsOf(s.buf)) + moved
  <2>1. PacketsOf(m1)[b] = o + moved
    <3>1. m1[b].n = o + moved /\ m1[b] # None
      BY <1>3, <1>b
    <3> QED
      BY <3>1, <1>1 DEF PacketsOf
  <2>2. moved \in Nat
    BY <1>2, <1>1, <1>b
  <2>3. /\ Total(PacketsOf(s.buf)) \in Nat /\ Total(PacketsOf(m1)) \in Nat
        /\ Total(PacketsOf(m1)) + PacketsOf(s.buf)[b] = Total(PacketsOf(s.buf)) + PacketsOf(m1)[b]
    BY <1>1, <1>3, <1>b, PacketsChange
  <2> QED
    BY <2>1, <2>2, <2>3, <1>1, <1>b
<1>6. \A c \in s.full : c # b /\ m1[c].n > 0 /\ c \in Used(s.buf)
  BY <1>1, <1>3, <1>b DEF FullLoaded, Storing
<1>7. CASE o + n < Capacity
  <2>1. moved = n /\ m1[b].n = o + n /\ m1[b].n < Capacity
    BY <1>7, <1>2, <1>3, <1>1, <1>b
  <2>2. r.buf = m1 /\ r.full = s.full
    BY <2>1, <1>r, <1>p DEF NewIsEmpty
  <2> QED
    BY <2>1, <2>2, <1>5, <1>6 DEF FullLoaded, r
<1>8. CASE o + n >= Capacity
  <2> DEFINE c == FreeBuffer(m1)
             rest == [m[b] EXCEPT !.n = n - moved]
             m2 == [m1 EXCEPT ![c] = rest]
  <2>1. moved = Capacity - o /\ m1[b].n = Capacity /\ n - moved \in 0 .. Capacity - 1
    BY <1>8, <1>2, <1>3, <1>1, <1>b
  <2>2. c \in Buffer /\ c \notin Used(m1) /\ c # b
    <3>1. Cardinality(Free(m1)) >= Cardinality(Free(s.buf)) - 1
          /\ Cardinality(Free(m1)) \in Nat /\ Cardinality(Free(s.buf)) \in Nat
      BY <1>1, <1>4, FreeCount
    <3>2. Cardinality(Free(m1)) # 0
      BY <3>1
    <3> QED
      BY <3>2, FS_EmptySet, FreeIsFree, <1>4 DEF Free
  <2>3. rest = [grid |-> Neighbour(g, d), dir |-> InputDirection(d), n |-> n - moved]
    BY <1>1, SetSize
  <2>p. AddPhotons(m, b, n) = [buf |-> m2, out |-> c]
    BY <2>1, <1>p, <1>b
  <2> HIDE DEF rest, c
  <2>4. /\ m2[c] = rest /\ m2 \in Memory /\ rest # None
        /\ \A y \in Buffer : y # c => m2[y] = m1[y]
    <3>1. rest \in PhotonBuffer
      <4>1. n - moved \in 0 .. Capacity
        BY <2>1, <1>b
      <4> QED
        BY <4>1, <2>3, <1>a DEF PhotonBuffer
    <3> QED
      BY <3>1, <2>2, <1>3, <1>b DEF Memory
  <2> HIDE DEF m2
  <2>5. PacketsOf(m1)[c] = 0
    BY <2>2 DEF PacketsOf, Used
  <2>6. CASE n = moved
    <3> DEFINE m3 == [m2 EXCEPT ![c] = None]
    <3>1. r.buf = m3 /\ r.full = s.full \cup {b}
      <4>1. m2[c].n = 0
        BY <2>1, <2>3, <2>4, <2>6
      <4>2. NewIsEmpty(m2, b, c)
        BY <4>1, <2>2 DEF NewIsEmpty
      <4> QED
        BY <4>2, <2>2, <2>p, <1>r
    <3>2. m3 \in Memory /\ m3[c] = None /\ \A y \in Buffer : y # c => m3[y] = m1[y]
      BY <2>2, <2>4 DEF Memory
    <3> HIDE DEF m3
    <3>3. PacketsOf(m3)[c] = 0
      BY <3>2, <2>2 DEF PacketsOf
    <3>4. /\ Total(PacketsOf(m3)) \in Nat
          /\ Total(PacketsOf(m3)) + PacketsOf(m1)[c] = Total(PacketsOf(m1)) + PacketsOf(m3)[c]
      BY <3>2, <1>3, <2>2, PacketsChange
    <3>5. Total(PacketsOf(m3)) = Total(PacketsOf(s.buf)) + n
      BY <3>3, <3>4, <2>5, <2>6, <1>5
    <3>6. \A y \in s.full \cup {b} : m3[y].n > 0
      BY <3>2, <1>6, <2>1, <2>2, <1>1, <1>4, <1>b
    <3> QED
      BY <3>1, <3>5, <3>6 DEF FullLoaded, r
  <2>7. CASE n # moved
    <3>1. r.buf = m2 /\ r.full = s.full \cup {b}
      <4>1. m2[c].n # 0
        BY <2>1, <2>3, <2>4, <2>7
      <4>2. ~ NewIsEmpty(m2, b, c)
        BY <4>1 DEF NewIsEmpty
      <4> QED
        BY <4>2, <2>2, <2>p, <1>r
    <3>2. PacketsOf(m2)[c] = n - moved
      <4>1. rest.n = n - moved
        BY <2>3
      <4> QED
        BY <4>1, <2>4, <2>2 DEF PacketsOf
    <3>3. /\ Total(PacketsOf(m2)) \in Nat
          /\ Total(PacketsOf(m2)) + PacketsOf(m1)[c] = Total(PacketsOf(m1)) + PacketsOf(m2)[c]
      BY <2>4, <1>3, <2>2, PacketsChange
    <3>4. Total(PacketsOf(m2)) = Total(PacketsOf(s.buf)) + n
      BY <3>2, <3>3, <2>1, <2>5, <1>5, <1>1, <1>b
    <3>5. \A y \in s.full \cup {b} : m2[y].n > 0
      BY <2>4, <1>6, <2>1, <2>2, <1>1, <1>4, <1>b
    <3> QED
      BY <3>1, <3>4, <3>5 DEF FullLoaded, r
  <2> QED
    BY <2>6, <2>7
<1> QED
  BY <1>7, <1>8, <1>1, <1>b

(* What is stored in direction d. *)
Part(out, kept, d) == IF d \in kept THEN out[d] ELSE 0

(* A direction in which nothing is kept adds nothing. *)
LEMMA StoreKeptAdds ==
  ASSUME NEW s, NEW K, NEW m0, NEW g \in Grid, NEW d \in Dir, NEW out, NEW kept,
         d \in kept => out[d] \in 1 .. Capacity /\ Neighbour(g, d) # None,
         Storing(s, g, K, m0), Cardinality(Free(s.buf)) >= 2, FullLoaded(s)
  PROVE  LET r == StoreKept(s, g, d, out, kept) IN
         /\ Total(PacketsOf(r.buf)) = Total(PacketsOf(s.buf)) + Part(out, kept, d)
         /\ FullLoaded(r)
<1>1. CASE d \in kept
  BY <1>1, StoreAdds DEF StoreKept, Part
<1>2. CASE d \notin kept
  <2>1. Total(PacketsOf(s.buf)) \in Nat
    BY PacketsNat DEF Storing
  <2> QED
    BY <1>2, <2>1 DEF StoreKept, Part
<1> QED
  BY <1>1, <1>2

(* The same for all directions. *)
LEMMA StoreAllAdds ==
  ASSUME NEW s, NEW K, NEW m0, NEW g \in Grid, NEW out, NEW kept,
         \A d \in Dir \cap kept : out[d] \in 1 .. Capacity /\ Neighbour(g, d) # None,
         Storing(s, g, K, m0), Cardinality(Free(s.buf)) >= 4, FullLoaded(s)
  PROVE  LET r == StoreAll(s, g, out, kept) IN
         /\ Total(PacketsOf(r.buf)) = Total(PacketsOf(s.buf)) + Part(out, kept, "in")
                                       + Part(out, kept, "lo") + Part(out, kept, "hi")
         /\ FullLoaded(r)
<1> DEFINE s1 == StoreKept(s, g, "in", out, kept)
           s2 == StoreKept(s1, g, "lo", out, kept)
           s3 == StoreKept(s2, g, "hi", out, kept)
<1>d. "in" \in Dir /\ "lo" \in Dir /\ "hi" \in Dir
  BY DEF Dir
<1>n. Cardinality(Free(s.buf)) \in Nat
  <2>1. 1 \in Buffer
    BY SizeAssumption DEF Buffer
  <2>2. Used(s.buf) \subseteq Used(s.buf) \cup {1}
    OBVIOUS
  <2> QED
    BY <2>1, <2>2, FreeCount
<1>1. /\ Storing(s1, g, K, m0) /\ Cardinality(Free(s1.buf)) \in Nat /\ Cardinality(Free(s1.buf)) >= 3
      /\ FullLoaded(s1) /\ Total(PacketsOf(s1.buf)) = Total(PacketsOf(s.buf)) + Part(out, kept, "in")
  <2>1. Cardinality(Free(s.buf)) >= 2
    BY <1>n
  <2>2. Storing(s1, g, K, m0) /\ Cardinality(Free(s1.buf)) \in Nat
        /\ Cardinality(Free(s1.buf)) >= Cardinality(Free(s.buf)) - 1
    BY <1>d, <2>1, StoreKeptKeeps
  <2>3. FullLoaded(s1) /\ Total(PacketsOf(s1.buf)) = Total(PacketsOf(s.buf)) + Part(out, kept, "in")
    BY <1>d, <2>1, StoreKeptAdds
  <2> QED
    BY <2>2, <2>3, <1>n
<1> HIDE DEF s1
<1>2. /\ Storing(s2, g, K, m0) /\ Cardinality(Free(s2.buf)) >= 2
      /\ FullLoaded(s2) /\ Total(PacketsOf(s2.buf)) = Total(PacketsOf(s1.buf)) + Part(out, kept, "lo")
  <2>1. Cardinality(Free(s1.buf)) >= 2
    BY <1>1
  <2>2. Storing(s2, g, K, m0) /\ Cardinality(Free(s2.buf)) \in Nat
        /\ Cardinality(Free(s2.buf)) >= Cardinality(Free(s1.buf)) - 1
    BY <1>1, <1>d, <2>1, StoreKeptKeeps
  <2>3. FullLoaded(s2) /\ Total(PacketsOf(s2.buf)) = Total(PacketsOf(s1.buf)) + Part(out, kept, "lo")
    BY <1>1, <1>d, <2>1, StoreKeptAdds
  <2> QED
    BY <2>2, <2>3, <1>1
<1> HIDE DEF s2
<1>3. FullLoaded(s3) /\ Total(PacketsOf(s3.buf)) = Total(PacketsOf(s2.buf)) + Part(out, kept, "hi")
  BY <1>2, <1>d, StoreKeptAdds
<1>4. StoreAll(s, g, out, kept) = s3
  BY DEF StoreAll, s2, s1
<1> HIDE DEF s3
<1>5. Total(PacketsOf(s3.buf)) = Total(PacketsOf(s.buf)) + Part(out, kept, "in")
                                       + Part(out, kept, "lo") + Part(out, kept, "hi")
  BY <1>1, <1>2, <1>3
<1> QED
  BY <1>3, <1>4, <1>5

(* The sum of what is kept is the sum over the directions. *)
LEMMA KeptSum ==
  ASSUME NEW out, NEW kept \in SUBSET Dir, \A d \in kept : out[d] \in Nat
  PROVE  Sum(out, kept) = Part(out, kept, "in") + Part(out, kept, "lo") + Part(out, kept, "hi")
<1>f. IsFiniteSet(Dir)
  <2>1. {"in"} \cup {"lo"} \cup {"hi"} = Dir
    BY DEF Dir
  <2>2. IsFiniteSet({"in"}) /\ IsFiniteSet({"lo"}) /\ IsFiniteSet({"hi"})
    BY FS_Singleton
  <2> QED
    BY <2>1, <2>2, FS_Union
<1>1. ASSUME NEW T \in SUBSET kept, NEW d \in Dir, d \in T <=> d \in kept
      PROVE  Sum(out, T) = Part(out, kept, d) + Sum(out, T \ {d}) /\ Sum(out, T \ {d}) \in Nat
  <2>1. IsFiniteSet(T) /\ IsFiniteSet(T \ {d}) /\ \A e \in T : out[e] \in Nat
    <3>1. T \in SUBSET Dir /\ T \ {d} \in SUBSET Dir
      OBVIOUS
    <3> QED
      BY <3>1, <1>f, FS_Subset
  <2>2. Sum(out, T \ {d}) \in Nat
    BY <2>1, SumNat
  <2>3. CASE d \in T
    BY <2>1, <2>2, <2>3, <1>1, SumWithout DEF Part
  <2>4. CASE d \notin T
    <3>1. T \ {d} = T /\ Part(out, kept, d) = 0
      BY <2>4, <1>1 DEF Part
    <3> QED
      BY <3>1, <2>2
  <2> QED
    BY <2>2, <2>3, <2>4
<1> DEFINE T1 == kept \ {"in"}
           T2 == T1 \ {"lo"}
           T3 == T2 \ {"hi"}
<1>2. Sum(out, kept) = Part(out, kept, "in") + Sum(out, T1)
  BY <1>1 DEF Dir
<1>3. Sum(out, T1) = Part(out, kept, "lo") + Sum(out, T2)
  <2>1. T1 \in SUBSET kept /\ "lo" \in Dir /\ ("lo" \in T1 <=> "lo" \in kept)
    BY DEF Dir
  <2> HIDE DEF T1
  <2> QED
    BY <2>1, <1>1
<1>4. Sum(out, T2) = Part(out, kept, "hi") + Sum(out, T3) /\ Sum(out, T3) \in Nat
  <2>1. T2 \in SUBSET kept /\ "hi" \in Dir /\ ("hi" \in T2 <=> "hi" \in kept)
    BY DEF Dir
  <2> HIDE DEF T2
  <2> QED
    BY <2>1, <1>1
<1>5. T3 = {} /\ Sum(out, {}) = 0
  BY SumEmpty DEF Dir
<1>6. \A d \in Dir : Part(out, kept, d) \in Nat
  BY DEF Part
<1>7. Sum(out, T3) = 0 /\ "in" \in Dir /\ "lo" \in Dir /\ "hi" \in Dir
  BY <1>5 DEF Dir
<1> HIDE DEF T1, T2, T3
<1> QED
  BY <1>2, <1>3, <1>4, <1>6, <1>7

-----------------------------------------------------------------------------
(* A traversal: its packets are in the memory now, in buffers that are not *)
(* empty, or are about to be counted.                                      *)
LEMMA TraverseAdds ==
  ASSUME IInv, Room, NEW t \in Thread, Traverse(t)
  PROVE  LET b == cur[t].of
             g == buf[b].grid
         IN
         /\ g \in Grid /\ b \in Buffer /\ buf[b].n \in Nat
         /\ \E s : \E l \in Lock \cup {None} :
              /\ Storing(s, g, Used(buf) \ InSlots(active[g]), buf)
              /\ TraverseMakes(t, s, g, l)
              /\ FullLoaded(s)
         /\ \E k \in Nat :
              /\ doneNow' = [doneNow EXCEPT ![t] = k]
              /\ Total(PacketsOf(buf')) + k = Total(PacketsOf(buf)) + buf[b].n
<1> DEFINE b == cur[t].of
           g == buf[b].grid
           K == Used(buf) \ InSlots(active[g])
<1>1. /\ cur[t] \in Task /\ cur[t].type = "traversal" /\ cur[t] \in Carrier /\ b \in Buffer /\ pc[t] = "exec"
  BY TaskKinds DEF IInv, Control, AtPlace, Traverse, Executes
<1>2. b \in Used(buf)
  <2>1. b \in Mine(t)
    BY <1>1 DEF Mine, InHand
  <2> QED
    BY <2>1 DEF IInv, InMemory, Held, Apart
<1>3. buf[b] \in PhotonBuffer /\ buf \in Memory
  BY <1>2 DEF Used, IInv, InMemory, MemoryType, Memory
<1>4. g \in Grid /\ buf[b].dir \in Dir /\ buf[b].n \in 0 .. Capacity /\ buf[b].n \in Nat
  BY <1>3, SizeAssumption DEF PhotonBuffer
<1>5. InSlots(active[g]) \subseteq Used(buf)
  BY <1>4 DEF IInv, InMemory, Held, Apart, AllSlots
<1> DEFINE s0 == [buf |-> buf, act |-> active[g], full |-> {}]
<1>6. Storing(s0, g, K, buf) /\ FullLoaded(s0)
  BY <1>4, <1>5 DEF Storing, IInv, InMemory, MemoryType, FullLoaded
<1>7. Results(buf[b].dir) \subseteq Dir
  BY <1>4 DEF Results, InputDirection, Dir
<1>8. PICK out \in [Results(buf[b].dir) -> 0 .. buf[b].n] :
        LET kept == {d \in DOMAIN out : Stored(g, d) /\ out[d] > 0} IN
        /\ Total(out) = buf[b].n
        /\ \E s \in {StoreAll(s0, g, out, kept)} :
            /\ buf' = s.buf
            /\ active' = [active EXCEPT ![g] = s.act]
            /\ largest' = [largest EXCEPT ![g] = LargestOf(s.buf, s.act)]
            /\ \E l \in stale \cup {None} :
                 adding' = [adding EXCEPT ![t] =
                   {IF s.buf[c].dir = "in" THEN ReemitTask(c, l) ELSE TraversalTask(c, s.buf[c].grid) :
                      c \in s.full}]
        /\ doneNow' = [doneNow EXCEPT ![t] = NotStored(buf[b].n, out, kept)]
  BY Zenon DEF Traverse
<1> DEFINE kept == {d \in DOMAIN out : Stored(g, d) /\ out[d] > 0}
           s == StoreAll(s0, g, out, kept)
           k == NotStored(buf[b].n, out, kept)
<1>9. \A d \in Dir \cap kept : out[d] \in 1 .. Capacity /\ Neighbour(g, d) # None
  BY <1>4, <1>7, SizeAssumption DEF Stored
<1>10. Cardinality(Free(s0.buf)) >= 4
  BY DEF Room, Free
<1>11. Storing(s, g, K, buf)
  BY <1>9, <1>10, <1>4, <1>6, StoreAllKeeps
<1>12. /\ Total(PacketsOf(s.buf)) = Total(PacketsOf(buf)) + Part(out, kept, "in")
                                       + Part(out, kept, "lo") + Part(out, kept, "hi")
       /\ FullLoaded(s)
  <2>1. s0.buf = buf
    OBVIOUS
  <2> HIDE DEF s0, kept, g, K
  <2> QED
    BY <2>1, <1>9, <1>10, <1>4, <1>6, StoreAllAdds
<1>13. kept \in SUBSET Dir /\ kept \in SUBSET DOMAIN out /\ \A d \in DOMAIN out : out[d] \in Nat
  BY <1>4, <1>7
<1>14. Sum(out, kept) = Part(out, kept, "in") + Part(out, kept, "lo") + Part(out, kept, "hi")
  <2> HIDE DEF kept
  <2> QED
    BY <1>13, KeptSum
<1>15. Sum(out, kept) \in Nat /\ Sum(out, kept) <= buf[b].n
  <2>1. IsFiniteSet(DOMAIN out)
    <3>1. Dir = {"in"} \cup {"lo"} \cup {"hi"}
      BY DEF Dir
    <3>2. IsFiniteSet({"in"}) /\ IsFiniteSet({"lo"}) /\ IsFiniteSet({"hi"})
      BY FS_Singleton
    <3> QED
      BY <3>1, <3>2, <1>7, FS_Union, FS_Subset
  <2>2. Sum(out, DOMAIN out) = buf[b].n
    BY <1>8 DEF Total
  <2> HIDE DEF kept
  <2> QED
    BY <2>1, <2>2, <1>13, SumPart
<1>16. /\ k = buf[b].n - Sum(out, kept)
       /\ doneNow' = [doneNow EXCEPT ![t] = k]
  BY <1>8 DEF NotStored
<1>17. buf' = s.buf
  BY <1>8
<1>18. \A d \in Dir : Part(out, kept, d) \in Nat
  BY <1>13 DEF Part
<1>19. Total(PacketsOf(buf)) \in Nat
  BY <1>3, PacketsNat
<1> HIDE DEF s
<1>20. \E l \in stale \cup {None} : TraverseMakes(t, s, g, l)
  <2>1. \E r \in {s} : \E l \in stale \cup {None} : TraverseMakes(t, r, g, l)
    BY <1>8 DEF TraverseMakes, s
  <2> QED
    BY <2>1, Zenon
<1>21. stale \subseteq Lock
  BY DEF IInv, InMemory, MemoryType
<1>22. k \in Nat /\ Total(PacketsOf(buf')) + k = Total(PacketsOf(buf)) + buf[b].n
  <2>1. "in" \in Dir /\ "lo" \in Dir /\ "hi" \in Dir
    BY DEF Dir
  <2> HIDE DEF kept, k, b
  <2> QED
    BY <2>1, <1>4, <1>12, <1>14, <1>15, <1>16, <1>17, <1>18, <1>19
<1> HIDE DEF g, b, k, kept
<1>23. \E q \in Nat : /\ doneNow' = [doneNow EXCEPT ![t] = q]
                      /\ Total(PacketsOf(buf')) + q = Total(PacketsOf(buf)) + buf[b].n
  BY <1>16, <1>22
<1>24. \E r : \E l \in Lock \cup {None} :
              /\ Storing(r, g, Used(buf) \ InSlots(active[g]), buf)
              /\ TraverseMakes(t, r, g, l)
              /\ FullLoaded(r)
  BY <1>11, <1>12, <1>20, <1>21
<1> QED
  BY <1>1, <1>4, <1>23, <1>24 DEF g, b

-----------------------------------------------------------------------------
(* The inductive invariant: what is needed to conserve packets, besides    *)
(* that every buffer has one holder.                                       *)

(* A packet is about to be counted only between the two steps that do it,  *)
(* and a thread emits a number of packets.                                 *)
Amounts ==
  /\ numDone \in Nat /\ doneNow \in [Thread -> Nat]
  /\ \A t \in Thread : /\ doneNow[t] # 0 => pc[t] = "count"
                       /\ pc[t] \in {"emit", "emit add"} => pos[t][1] \in Nat

(* A batch of a source is in one place. *)
Batch == {DiscreteTask(s) : s \in Discrete} \cup {ContinuousTask(s) : s \in Continuous}

BatchesOnce ==
  \A t \in Thread : cur[t] \in Batch =>
    cur[t] \notin queued /\ \A u \in Thread : u # t => cur[u] # cur[t]

(* Only a reemission empties a buffer, and then it is about to be freed.   *)
Emptied(t, b) ==
  pc[t] \in {"count", "free"} /\ cur[t].type = "reemit" /\ cur[t].of = b

Loaded == \A b \in Used(buf) : buf[b].n = 0 => \E t \in Thread : Emptied(t, b)

CInv == IInv /\ Amounts /\ BatchesOnce /\ Loaded /\ Conserved

(* The buffer whose packets a thread has moved on. *)
Own(t) == {b \in Buffer : Moved(t) /\ cur[t].of = b}
MovedOn == UNION {Own(t) : t \in Thread}

(* A thread has a batch that was not turned into packets yet. *)
Has(t, x) == cur[t] = x /\ pc[t] \in {"exec", "while", "exit"}

(* The tasks of the sources are no other tasks. *)
LEMMA Batches ==
  /\ Batch \subseteq Task /\ Batch \cap Carrier = {} /\ None \notin Batch
  /\ \A x \in Batch : x.type \in {"discrete", "continuous"}
  /\ \A x \in Task : x.type \in {"discrete", "continuous"} => x \in Batch
  /\ \A k : FlushTask(k) \notin Batch
  /\ \A b, g : TraversalTask(b, g) \notin Batch
<1>1. \A x \in Batch : x.type \in {"discrete", "continuous"}
  BY DEF Batch, DiscreteTask, ContinuousTask
<1>2. Batch \subseteq Task
  <2> DEFINE V == {TraversalTask(b, g) : b \in Buffer, g \in Grid}
             R == {ReemitTask(b, d) : b \in Buffer, d \in Lock \cup {None}}
             A == {DiscreteTask(s) : s \in Discrete}
             B == {ContinuousTask(s) : s \in Continuous}
             F == {FlushTask(k) : k \in Block}
  <2>1. Task = A \cup B \cup F \cup V \cup R /\ Batch = A \cup B
    BY DEF Task, Batch
  <2> HIDE DEF A, B, F, V, R
  <2> QED
    BY <2>1
<1>3. Batch \cap Carrier = {} /\ None \notin Batch
  BY <1>1, <1>2, TaskKinds
<1>4. ASSUME NEW x \in Task, x.type \in {"discrete", "continuous"} PROVE x \in Batch
  BY <1>4, TaskKinds DEF Batch
<1>5. \A k : FlushTask(k) \notin Batch
  BY <1>1 DEF FlushTask
<1>6. \A b, g : TraversalTask(b, g) \notin Batch
  BY <1>1 DEF TraversalTask
<1> QED
  BY <1>1, <1>2, <1>3, <1>4, <1>5, <1>6

(* What a step does to the queues and to the task of the thread. *)
LEMMA QueueStep ==
  ASSUME IInv, NEW t \in Thread, Step(t), ~ GetTask(t)
  PROVE  queued' \cap Batch = queued \cap Batch /\ cur'[t] \in {cur[t], None}
<1>f. Functions /\ AtPlace(pc[t], cur[t], adding[t], pos[t])
  BY DEF IInv, Control
<1> USE <1>f DEF Functions
<1>1. CASE \/ GetNothing(t) \/ While(t) \/ ReadLargest(t) \/ LaunchFails(t) \/ LaunchNothing(t)
           \/ LeaveSubgrid(t) \/ LaunchDone(t) \/ EmitDiscrete(t) \/ Reemit(t) \/ Count(t) \/ FreeInput(t)
  BY <1>1 DEF GetNothing, While, ReadLargest, LaunchFails, LaunchNothing, LeaveSubgrid,
     LaunchDone, EmitDiscrete, Reemit, Count, FreeInput
<1>2. CASE Traverse(t)
  BY <1>2 DEF Traverse
<1>3. CASE StartEmission(t) \/ EmissionDone(t) \/ CheckLeft(t) \/ TestEmpty(t) \/ TestDone(t)
  BY <1>3 DEF StartEmission, EmissionDone, CheckLeft, TestEmpty, TestDone
<1>4. CASE Finish(t)
  BY <1>4 DEF Finish
<1>5. CASE EmitPacket(t) \/ Flush(t)
  BY <1>5 DEF EmitPacket, Flush
<1>6. CASE AddFlush(t)
  BY <1>6, Batches DEF AddFlush
<1>7. CASE AddTask(t) \/ AddEmitted(t) \/ AddFlushed(t)
  <2>1. PICK X \in SUBSET adding[t] : queued' = queued \cup X /\ cur' = cur
    BY <1>7 DEF AddTask, AddEmitted, AddFlushed
  <2>2. X \cap Batch = {}
    BY <2>1, Batches DEF AtPlace
  <2> QED
    BY <2>1, <2>2
<1>8. CASE Launch(t)
  <2>1. PICK x \in LaunchTask(pos[t][2], largest[pos[t][2]].dir) : queued' = queued \cup {x}
    BY <1>8 DEF Launch
  <2>2. x.type \in {"traversal", "reemit"}
    BY <2>1 DEF LaunchTask, TraversalTask, ReemitTask
  <2>3. x \notin Batch
    BY <2>2, Batches
  <2> QED
    BY <1>8, <2>1, <2>3 DEF Launch
<1> QED
  BY <1>1, <1>2, <1>3, <1>4, <1>5, <1>6, <1>7, <1>8 DEF Step

(* A batch stays in one place. *)
LEMMA BatchesStep ==
  ASSUME IInv, BatchesOnce, NEW t \in Thread, Others(t), Step(t)
  PROVE  BatchesOnce'
<1>1. CASE GetTask(t)
  <2>1. PICK x \in queued : queued' = queued \ {x} /\ cur'[t] = x
    BY <1>1 DEF GetTask, IInv, Control, Functions
  <2>2. \A u \in Thread : cur[u] \in Batch => cur[u] # x
    BY <2>1 DEF BatchesOnce
  <2> QED
    BY <2>1, <2>2 DEF BatchesOnce, Others
<1>2. CASE ~ GetTask(t)
  <2>1. queued' \cap Batch = queued \cap Batch /\ cur'[t] \in {cur[t], None}
    BY <1>2, QueueStep
  <2> QED
    BY <2>1, Batches DEF BatchesOnce, Others
<1> QED
  BY <1>1, <1>2

(* A batch that a thread looks at waits or not as before, if it is where   *)
(* it was.                                                                 *)
LEMMA WaitingSame ==
  ASSUME NEW t \in Thread, Others(t), NEW x,
         (x \in queued \/ Has(t, x)) <=> (x \in queued \/ Has(t, x))'
  PROVE  Waiting(x)' <=> Waiting(x)
<1>1. \A u \in Thread \ {t} : Has(u, x)' <=> Has(u, x)
  BY DEF Has, Others
<1>2. Waiting(x) <=> x \in queued \/ \E u \in Thread : Has(u, x)
  BY DEF Waiting, Has
<1>3. Waiting(x)' <=> x \in queued' \/ \E u \in Thread : Has(u, x)'
  BY DEF Waiting, Has
<1> QED
  BY <1>1, <1>2, <1>3

(* Then the packets of the batches are the same. *)
LEMMA LeftSame ==
  ASSUME \A x \in Batch : Waiting(x)' <=> Waiting(x)
  PROVE  DiscreteLeft' = DiscreteLeft /\ ContinuousLeft' = ContinuousLeft
<1>1. \A s \in Discrete : DiscreteTask(s) \in Batch
  BY DEF Batch
<1>2. \A s \in Continuous : ContinuousTask(s) \in Batch
  BY DEF Batch
<1>3. \A s \in Discrete : Waiting(DiscreteTask(s))' <=> Waiting(DiscreteTask(s))
  BY <1>1
<1>4. \A s \in Continuous : Waiting(ContinuousTask(s))' <=> Waiting(ContinuousTask(s))
  BY <1>2
<1> QED
  BY <1>3, <1>4 DEF DiscreteLeft, ContinuousLeft

(* A batch waits until the source makes packets of it. *)
LEMMA WaitingStep ==
  ASSUME IInv, NEW t \in Thread, Others(t), Step(t), ~ EmitDiscrete(t), ~ StartEmission(t)
  PROVE  \A x \in Batch : Waiting(x)' <=> Waiting(x)
<1>f. Functions /\ AtPlace(pc[t], cur[t], adding[t], pos[t])
  BY DEF IInv, Control
<1> SUFFICES ASSUME NEW x \in Batch PROVE Waiting(x)' <=> Waiting(x)
  OBVIOUS
<1>1. CASE GetTask(t)
  <2>1. PICK y \in queued : queued' = queued \ {y} /\ cur'[t] = y /\ pc'[t] \in {"exec", "while"}
    BY <1>1, <1>f DEF GetTask, Functions, Goto
  <2>2. cur[t] = None
    BY <1>1, <1>f DEF GetTask, AtPlace, Looking
  <2>3. x # None
    BY Batches
  <2>4. (x \in queued \/ Has(t, x)) <=> (x \in queued \/ Has(t, x))'
    BY <2>1, <2>2, <2>3 DEF Has
  <2> QED
    BY <2>4, WaitingSame
<1>2. CASE ~ GetTask(t)
  <2>1. x \in queued' <=> x \in queued
    BY <1>2, QueueStep
  <2>2. x # None /\ x.type \in {"discrete", "continuous"}
    BY Batches
  <2>3. Has(t, x)' <=> Has(t, x)
    <3> USE <1>f, <2>2 DEF Has, Functions, Goto, AtPlace
    <3>1. CASE GetNothing(t) \/ While(t)
      BY <3>1 DEF GetNothing, While, Looking
    <3>2. CASE \/ ReadLargest(t) \/ LaunchFails(t) \/ LaunchNothing(t) \/ LeaveSubgrid(t)
             \/ Launch(t) \/ LaunchDone(t)
      BY <3>2 DEF ReadLargest, LaunchFails, LaunchNothing, LeaveSubgrid, Launch, LaunchDone, NextSubgrid
    <3>3. CASE Reemit(t) \/ Count(t) \/ FreeInput(t)
      BY <3>3 DEF Reemit, Count, FreeInput, Executes
    <3>4. CASE Traverse(t)
      BY <3>4 DEF Traverse, Executes
    <3>5. CASE EmitPacket(t) \/ AddEmitted(t) \/ EmissionDone(t) \/ CheckLeft(t) \/ AddFlush(t)
      BY <3>5 DEF EmitPacket, AddEmitted, EmissionDone, CheckLeft, AddFlush
    <3>6. CASE Flush(t) \/ AddFlushed(t)
      BY <3>6 DEF Flush, AddFlushed, Executes
    <3>7. CASE Finish(t) \/ AddTask(t) \/ TestEmpty(t) \/ TestDone(t)
      BY <3>7 DEF Finish, AddTask, TestEmpty, TestDone
    <3> QED
      BY <3>1, <3>2, <3>3, <3>4, <3>5, <3>6, <3>7, <1>2 DEF Step
  <2> QED
    BY <2>1, <2>3, WaitingSame
<1> QED
  BY <1>1, <1>2

-----------------------------------------------------------------------------
(* What a step does to the amounts and to the emptied buffers. *)

(* Only what a thread has in its own hands to count or to emit changes. *)
LEMMA AmountsStep ==
  ASSUME IInv, Room, Amounts, NEW t \in Thread, Others(t), Step(t)
  PROVE  Amounts'
<1>f. Functions /\ AtPlace(pc[t], cur[t], adding[t], pos[t])
  BY DEF IInv, Control
<1>1. ASSUME NEW k \in Nat, doneNow' = [doneNow EXCEPT ![t] = k], numDone' \in Nat,
             k # 0 => pc'[t] = "count", pc'[t] \in {"emit", "emit add"} => pos'[t][1] \in Nat
      PROVE  Amounts'
  <2>1. doneNow' \in [Thread -> Nat] /\ doneNow'[t] = k /\ \A u \in Thread \ {t} : doneNow'[u] = doneNow[u]
    BY <1>1 DEF Amounts
  <2>2. ASSUME NEW u \in Thread
        PROVE  (doneNow'[u] # 0 => pc'[u] = "count") /\ (pc'[u] \in {"emit", "emit add"} => pos'[u][1] \in Nat)
    BY <2>1, <1>1 DEF Amounts, Others
  <2> QED
    BY <2>1, <2>2, <1>1 DEF Amounts
<1>2. ASSUME pc[t] # "count", doneNow' = doneNow, numDone' = numDone,
             pc'[t] \in {"emit", "emit add"} => pos'[t][1] \in Nat
      PROVE  Amounts'
  <2>1. PICK k \in Nat : k = 0
    OBVIOUS
  <2>2. doneNow' = [doneNow EXCEPT ![t] = k] /\ numDone' \in Nat
    BY <2>1, <1>2 DEF Amounts
  <2> QED
    BY <2>1, <2>2, <1>2, <1>1, Zenon
<1>3. CASE \/ GetTask(t) \/ GetNothing(t) \/ While(t) \/ ReadLargest(t) \/ LaunchFails(t)
           \/ LaunchNothing(t) \/ LeaveSubgrid(t) \/ Launch(t) \/ LaunchDone(t) \/ EmitDiscrete(t)
  BY <1>3, <1>2, <1>f DEF GetTask, GetNothing, While, ReadLargest, LaunchFails, LaunchNothing,
     LeaveSubgrid, Launch, LaunchDone, NextSubgrid, EmitDiscrete, Executes, Looking, Functions, Goto
<1>4. CASE Traverse(t)
  <2>1. PICK k \in Nat : doneNow' = [doneNow EXCEPT ![t] = k]
    BY <1>4, TraverseAdds
  <2> QED
    BY <2>1, <1>4, <1>1, <1>f DEF Traverse, Amounts, Functions, Goto
<1>5. CASE Reemit(t)
  <2>1. buf[cur[t].of].n \in Nat
    <3>1. InHand(t)
      BY <1>5, ExecutesTask DEF Reemit
    <3>2. buf[cur[t].of].n \in 0 .. Capacity
      BY <3>1, HandBuffer
    <3> QED
      BY <3>2
  <2>2. PICK k \in 0 .. buf[cur[t].of].n : doneNow' = [doneNow EXCEPT ![t] = buf[cur[t].of].n - k]
    BY <1>5 DEF Reemit
  <2>3. PICK j \in Nat : j = buf[cur[t].of].n - k
    BY <2>1, <2>2
  <2>4. doneNow' = [doneNow EXCEPT ![t] = j] /\ numDone' \in Nat /\ pc'[t] = "count"
    BY <2>2, <2>3, <1>5, <1>f DEF Reemit, Amounts, Functions, Goto
  <2> QED
    BY <2>4, <1>1
<1>6. CASE Count(t)
  <2>1. PICK k \in Nat : k = 0
    OBVIOUS
  <2>2. doneNow' = [doneNow EXCEPT ![t] = k]
    BY <2>1, <1>6 DEF Count
  <2>3. numDone' = numDone + doneNow[t] /\ numDone \in Nat /\ doneNow[t] \in Nat
    BY <1>6 DEF Count, Amounts
  <2>4. numDone' \in Nat
    BY <2>3
  <2>5. pc'[t] \in {"free", "finish"}
    BY <1>6, <1>f DEF Count, Goto, Functions
  <2>6. (k # 0 => pc'[t] = "count") /\ (pc'[t] \in {"emit", "emit add"} => pos'[t][1] \in Nat)
    BY <2>1, <2>5
  <2> QED
    BY <2>2, <2>4, <2>6, <1>1, Zenon
<1>7. CASE \/ FreeInput(t) \/ EmissionDone(t) \/ CheckLeft(t) \/ AddFlush(t) \/ Flush(t)
           \/ AddFlushed(t) \/ Finish(t) \/ AddTask(t) \/ TestEmpty(t) \/ TestDone(t)
  BY <1>7, <1>2, <1>f DEF FreeInput, EmissionDone, CheckLeft, AddFlush, Flush, AddFlushed, Finish, AddTask,
     TestEmpty, TestDone, Executes, Functions, Goto
<1>8. CASE StartEmission(t)
  <2>1. cur[t].of.n \in Nat
    <3>1. cur[t] \in Task /\ cur[t].type = "continuous"
      BY <1>8, ExecutesTask DEF StartEmission
    <3>2. cur[t].of \in Continuous
      BY <3>1, TaskKinds
    <3>3. cur[t].of.n \in 1 .. Capacity
      BY <3>2, SourceAssumption
    <3> QED
      BY <3>3
  <2> QED
    BY <2>1, <1>8, <1>2, <1>f DEF StartEmission, Executes, Functions, Goto
<1>9. CASE EmitPacket(t)
  <2>1. pos[t][1] \in Nat /\ pos[t][1] > 0 /\ pos' = [pos EXCEPT ![t][1] = @ - 1]
    BY <1>9 DEF EmitPacket, Amounts
  <2>2. pos'[t][1] = pos[t][1] - 1
    <3>1. pos[t] \in Int \X Int /\ DOMAIN pos = Thread
      BY <1>f DEF AtPlace, Functions
    <3> QED
      BY <2>1, <3>1
  <2>3. pos'[t][1] \in Nat
    BY <2>1, <2>2
  <2> QED
    BY <2>3, <1>9, <1>2, <1>f DEF EmitPacket, Functions, Goto
<1>10. CASE AddEmitted(t)
  BY <1>10, <1>2 DEF AddEmitted, Amounts
<1> QED
  BY <1>3, <1>4, <1>5, <1>6, <1>7, <1>8, <1>9, <1>10 DEF Step

(* Buffers with packets, and the ones a thread empties, are all there is   *)
(* besides those that stay as they are.                                    *)
LEMMA LoadedKept ==
  ASSUME Loaded, NEW t \in Thread, Others(t), pc[t] \notin {"count", "free"},
         \A b \in Used(buf)' : \/ b \in Used(buf) /\ buf'[b] = buf[b]
                               \/ buf'[b].n # 0
                               \/ Emptied(t, b)'
  PROVE  Loaded'
<1> SUFFICES ASSUME NEW b \in Used(buf)', buf'[b].n = 0 PROVE \E u \in Thread : Emptied(u, b)'
  BY DEF Loaded
<1>1. CASE Emptied(t, b)'
  BY <1>1
<1>2. CASE b \in Used(buf) /\ buf'[b] = buf[b]
  <2>1. PICK u \in Thread : Emptied(u, b)
    BY <1>2 DEF Loaded
  <2>2. u # t
    BY <2>1 DEF Emptied
  <2> QED
    BY <2>1, <2>2 DEF Emptied, Others
<1> QED
  BY <1>1, <1>2

(* The steps that take a new buffer fill it. *)
LEMMA SourceFills ==
  ASSUME IInv, Room, NEW t \in Thread, EmitDiscrete(t) \/ EmitPacket(t) \/ Flush(t)
  PROVE  \/ buf' = buf
         \/ \E r \in PhotonBuffer : r.n > 0 /\ buf' = [buf EXCEPT ![FreeBuffer(buf)] = r]
<1>f. Functions /\ AtPlace(pc[t], cur[t], adding[t], pos[t]) /\ Capacity \in Nat \ {0} /\ NGrid \in Nat \ {0}
      /\ cont \in [Block -> [Grid -> 0 .. Capacity - 1]]
  BY SizeAssumption DEF IInv, Control, InMemory, MemoryType
<1>r. ASSUME NEW g \in Grid, NEW n \in 1 .. Capacity
      PROVE  [grid |-> g, dir |-> "in", n |-> n] \in PhotonBuffer
  BY <1>f DEF PhotonBuffer, Dir
<1>1. CASE EmitDiscrete(t)
  <2>1. cur[t] \in Task /\ cur[t].type = "discrete"
    BY <1>1, ExecutesTask DEF EmitDiscrete
  <2>2. cur[t].of.grid \in Grid /\ cur[t].of.n \in 1 .. Capacity
    BY <2>1, TaskKinds, SourceAssumption
  <2>3. [grid |-> cur[t].of.grid, dir |-> "in", n |-> cur[t].of.n] \in PhotonBuffer
    BY <2>2, <1>r
  <2>4. cur[t].of.n > 0
    BY <2>2
  <2> QED
    BY <2>3, <2>4, <1>1 DEF EmitDiscrete
<1>2. CASE EmitPacket(t)
  <2>1. PICK g \in Grid :
          buf' = buf \/ buf' = [buf EXCEPT ![FreeBuffer(buf)] = [grid |-> g, dir |-> "in", n |-> Capacity]]
    BY <1>2 DEF EmitPacket
  <2>2. [grid |-> g, dir |-> "in", n |-> Capacity] \in PhotonBuffer /\ Capacity > 0
    BY <1>f, <1>r
  <2> QED
    BY <2>1, <2>2
<1>3. CASE Flush(t)
  <2> DEFINE k == cur[t].of
             g == pos[t][1] + 1
  <2>1. cur[t] \in Task /\ cur[t].type = "flush" /\ pc[t] = "exec"
    BY <1>3, ExecutesTask DEF Flush
  <2>2. k \in Block
    BY <2>1, TaskKinds
  <2>3. g \in Grid
    <3>1. pos[t][1] \in 0 .. NGrid - 1
      BY <1>f, <2>1 DEF AtPlace
    <3> QED
      BY <3>1, <1>f DEF Grid
  <2>4. cont[k][g] \in 0 .. Capacity - 1
    BY <2>2, <2>3, <1>f
  <2>5. cont[k][g] > 0 => [grid |-> g, dir |-> "in", n |-> cont[k][g]] \in PhotonBuffer
    <3> SUFFICES ASSUME cont[k][g] > 0 PROVE [grid |-> g, dir |-> "in", n |-> cont[k][g]] \in PhotonBuffer
      OBVIOUS
    <3> HIDE DEF k, g
    <3>1. cont[k][g] \in 1 .. Capacity
      BY <2>4, <1>f
    <3> QED
      BY <3>1, <2>3, <1>r
  <2>6. \/ buf' = buf
        \/ /\ cont[k][g] > 0
           /\ buf' = [buf EXCEPT ![FreeBuffer(buf)] = [grid |-> g, dir |-> "in", n |-> cont[k][g]]]
    BY <1>3 DEF Flush
  <2> HIDE DEF k, g
  <2> QED
    BY <2>5, <2>6
<1> QED
  BY <1>1, <1>2, <1>3

(* No other buffer gets empty. *)
LEMMA LoadedStep ==
  ASSUME IInv, Room, Loaded, NEW t \in Thread, Others(t), Step(t)
  PROVE  Loaded'
<1>f. Functions /\ InMemory /\ MemoryType /\ Functions'
  BY StepOthers DEF IInv, Control, InMemory
<1>1. ASSUME buf' = buf, pc[t] \notin {"count", "free"} PROVE Loaded'
  <2>1. Used(buf)' = Used(buf)
    BY <1>1 DEF Used
  <2> QED
    BY <2>1, <1>1, LoadedKept
<1>2. CASE \/ GetTask(t) \/ GetNothing(t) \/ While(t) \/ ReadLargest(t) \/ LaunchFails(t)
           \/ LaunchNothing(t) \/ LeaveSubgrid(t) \/ Launch(t) \/ LaunchDone(t) \/ StartEmission(t) \/ EmissionDone(t) \/ CheckLeft(t)
  BY <1>2, <1>1 DEF GetTask, GetNothing, While, ReadLargest, LaunchFails, LaunchNothing,
     LeaveSubgrid, Launch, LaunchDone, StartEmission, EmissionDone, CheckLeft, Executes, Looking, memory
<1>3. CASE \/ AddFlush(t) \/ Finish(t) \/ AddTask(t) \/ AddEmitted(t) \/ AddFlushed(t)
           \/ TestEmpty(t) \/ TestDone(t)
  BY <1>3, <1>1 DEF AddFlush, AddEmitted, AddFlushed, Finish, AddTask, TestEmpty, TestDone, memory
<1>4. CASE EmitDiscrete(t) \/ EmitPacket(t) \/ Flush(t)
  <2>1. pc[t] \notin {"count", "free"}
    BY <1>4 DEF EmitDiscrete, EmitPacket, Flush, Executes
  <2>2. ASSUME NEW r \in PhotonBuffer, r.n > 0, buf' = [buf EXCEPT ![FreeBuffer(buf)] = r]
        PROVE  Loaded'
    <3>1. PICK b : b = FreeBuffer(buf)
      OBVIOUS
    <3>2. buf' = [buf EXCEPT ![b] = r]
      BY <2>2, <3>1
    <3>3. /\ b \in Buffer /\ Used(buf)' = Used(buf) \cup {b} /\ buf'[b] = r
          /\ \A c \in Buffer : c # b => buf'[c] = buf[c]
      BY <3>1, <3>2, NewBuffer, Zenon
    <3>4. r.n # 0
      BY <2>2 DEF PhotonBuffer
    <3>5. \A c \in Used(buf)' : (c \in Used(buf) /\ buf'[c] = buf[c]) \/ buf'[c].n # 0
      BY <3>3, <3>4 DEF Used
    <3> QED
      BY <2>1, <3>5, LoadedKept
  <2> QED
    BY <2>1, <2>2, <1>1, <1>4, SourceFills
<1>5. CASE Traverse(t)
  <2> DEFINE g == buf[cur[t].of].grid
  <2>1. PICK s : \E l \in Lock \cup {None} :
              /\ Storing(s, g, Used(buf) \ InSlots(active[g]), buf)
              /\ TraverseMakes(t, s, g, l)
              /\ FullLoaded(s)
    BY <1>5, TraverseAdds
  <2> HIDE DEF g
  <2>2. buf' = s.buf
    BY <2>1 DEF TraverseMakes
  <2>3. Used(buf)' = Used(s.buf)
    BY <2>2 DEF Used
  <2>4. ASSUME NEW b \in Used(buf)' PROVE (b \in Used(buf) /\ buf'[b] = buf[b]) \/ buf'[b].n # 0
    <3>1. CASE b \in Used(buf) \ InSlots(active[g])
      BY <3>1, <2>1, <2>2 DEF Storing
    <3>2. CASE b \in InSlots(s.act)
      <4>1. PICK d \in Dir : s.act[d] = b /\ b \in Buffer
        BY <3>2 DEF InSlots
      <4>2. Filling(s.buf[b], g, d)
        BY <4>1, <2>1, NoneAssumption DEF Storing, Filled
      <4>3. s.buf[b].n # 0
        BY <4>2 DEF Filling
      <4> QED
        BY <4>3, <2>2
    <3>3. CASE b \in s.full
      <4>1. s.buf[b].n > 0
        BY <3>3, <2>1 DEF FullLoaded
      <4> QED
        BY <4>1, <2>2
    <3> QED
      BY <3>1, <3>2, <3>3, <2>1, <2>3 DEF Storing
  <2>5. pc[t] \notin {"count", "free"}
    BY <1>5 DEF Traverse, Executes
  <2> QED
    BY <2>4, <2>5, LoadedKept
<1>6. CASE Reemit(t)
  <2> DEFINE b == cur[t].of
  <2>1. PICK k : buf' = [buf EXCEPT ![b].n = k]
    BY <1>6 DEF Reemit
  <2>2. /\ pc[t] = "exec" /\ pc'[t] = "count" /\ cur'[t] = cur[t] /\ cur[t].type = "reemit" /\ InHand(t)
    BY <1>6, <1>f, ExecutesTask DEF Reemit, Goto, Functions
  <2>4. ASSUME NEW c \in Used(buf)' PROVE (c \in Used(buf) /\ buf'[c] = buf[c]) \/ Emptied(t, c)'
    <3>1. CASE c = b
      BY <3>1, <2>2 DEF Emptied
    <3>2. CASE c # b
      <4>1. c \in Buffer /\ buf'[c] # None /\ DOMAIN buf = Buffer
        BY <1>f DEF Used, MemoryType, Memory
      <4>2. buf'[c] = buf[c]
        BY <4>1, <3>2, <2>1
      <4> QED
        BY <4>1, <4>2 DEF Used
    <3> QED
      BY <3>1, <3>2
  <2> QED
    BY <2>2, <2>4, LoadedKept
<1>7. CASE Count(t)
  <2>1. buf' = buf /\ cur' = cur /\ pc[t] = "count"
        /\ (cur[t].type = "traversal" \/ buf[cur[t].of].n = 0 => pc'[t] = "free")
    BY <1>7, <1>f DEF Count, Goto, Functions, memory
  <2> SUFFICES ASSUME NEW b \in Used(buf), buf[b].n = 0 PROVE \E u \in Thread : Emptied(u, b)'
    BY <2>1 DEF Loaded, Used
  <2>2. PICK u \in Thread : Emptied(u, b)
    BY DEF Loaded
  <2>3. CASE u = t
    BY <2>1, <2>2, <2>3 DEF Emptied
  <2>4. CASE u # t
    BY <2>2, <2>4 DEF Emptied, Others
  <2> QED
    BY <2>3, <2>4
<1>8. CASE FreeInput(t)
  <2>1. buf' = [buf EXCEPT ![cur[t].of] = None] /\ cur' = cur
    BY <1>8 DEF FreeInput, Freed
  <2> SUFFICES ASSUME NEW b \in Used(buf)', buf'[b].n = 0 PROVE \E u \in Thread : Emptied(u, b)'
    BY DEF Loaded
  <2>2. b # cur[t].of /\ b \in Used(buf) /\ buf'[b] = buf[b]
    BY <2>1, <1>f DEF Used, MemoryType, Memory
  <2>3. PICK u \in Thread : Emptied(u, b)
    BY <2>2 DEF Loaded
  <2> QED
    BY <2>2, <2>3 DEF Emptied, Others
<1> QED
  BY <1>2, <1>3, <1>4, <1>5, <1>6, <1>7, <1>8 DEF Step

-----------------------------------------------------------------------------
(* The totals. *)

(* All packets there are, wherever they are. *)
Balance ==
  Total(DiscreteLeft) + Total(ContinuousLeft) + Total(BeingEmitted) + Total(InBlocks)
    + Total(InBuffers) + Total(doneNow) + numDone

(* Each part is a number of packets for each of its places. *)
Parts ==
  /\ DiscreteLeft \in [Discrete -> Nat] /\ Total(DiscreteLeft) \in Nat
  /\ ContinuousLeft \in [Continuous -> Nat] /\ Total(ContinuousLeft) \in Nat
  /\ BeingEmitted \in [Thread -> Nat] /\ Total(BeingEmitted) \in Nat
  /\ InBlocks \in [Block -> Nat] /\ Total(InBlocks) \in Nat
  /\ InBuffers \in [Buffer -> Nat] /\ Total(InBuffers) \in Nat
  /\ doneNow \in [Thread -> Nat] /\ Total(doneNow) \in Nat
  /\ numDone \in Nat

(* A buffer has its packets unless they were moved on. *)
LEMMA InBuffersIs ==
  InBuffers = [b \in Buffer |-> IF b \in MovedOn THEN 0 ELSE PacketsOf(buf)[b]]
<1>1. \A b \in Buffer : b \in MovedOn <=> \E t \in Thread : Moved(t) /\ cur[t].of = b
  BY DEF MovedOn, Own
<1> QED
  BY <1>1 DEF InBuffers, PacketsOf

(* The parts are what they are meant to be. *)
LEMMA PartsHold == IInv /\ Amounts => Parts
<1> SUFFICES ASSUME IInv, Amounts PROVE Parts
  OBVIOUS
<1>m. buf \in Memory /\ cont \in [Block -> [Grid -> 0 .. Capacity - 1]]
  BY DEF IInv, InMemory, MemoryType
<1>1. DiscreteLeft \in [Discrete -> Nat] /\ ContinuousLeft \in [Continuous -> Nat]
  <2>1. (\A s \in Discrete : s.n \in Nat) /\ \A s \in Continuous : s.n \in Nat
    BY SourceAssumption, SizeAssumption
  <2>2. \A s \in Discrete : (IF Waiting(DiscreteTask(s)) THEN s.n ELSE 0) \in Nat
    BY <2>1
  <2>3. \A s \in Continuous : (IF Waiting(ContinuousTask(s)) THEN s.n ELSE 0) \in Nat
    BY <2>1
  <2> QED
    BY <2>2, <2>3 DEF DiscreteLeft, ContinuousLeft
<1>2. BeingEmitted \in [Thread -> Nat]
  BY DEF BeingEmitted, Amounts
<1>3. InBlocks \in [Block -> Nat]
  <2> SUFFICES ASSUME NEW k \in Block PROVE Sum(cont[k], Grid) \in Nat
    BY DEF InBlocks
  <2>1. \A g \in Grid : cont[k][g] \in Nat
    BY <1>m, SizeAssumption
  <2> QED
    BY <2>1, SumNat, FiniteSets
<1>4. InBuffers \in [Buffer -> Nat]
  <2>1. PacketsOf(buf) \in [Buffer -> Nat]
    BY <1>m, PacketsNat
  <2> QED
    BY <2>1, InBuffersIs
<1>5. doneNow \in [Thread -> Nat] /\ numDone \in Nat
  BY DEF Amounts
<1>6. /\ Total(DiscreteLeft) \in Nat /\ Total(ContinuousLeft) \in Nat /\ Total(BeingEmitted) \in Nat
      /\ Total(InBlocks) \in Nat /\ Total(InBuffers) \in Nat /\ Total(doneNow) \in Nat
  BY <1>1, <1>2, <1>3, <1>4, <1>5, TotalBound, FiniteSets
<1> QED
  BY <1>1, <1>2, <1>3, <1>4, <1>5, <1>6 DEF Parts

(* Also after a step. *)
LEMMA PartsNext == IInv' /\ Amounts' => Parts'
  BY PartsHold, PTL

(* The same after a step. *)
LEMMA InBuffersNext ==
  InBuffers' = [b \in Buffer |-> IF b \in MovedOn' THEN 0 ELSE PacketsOf(buf')[b]]
<1>1. \A b \in Buffer : b \in MovedOn' <=> \E t \in Thread : Moved(t)' /\ cur'[t].of = b
  BY DEF MovedOn, Own
<1> QED
  BY <1>1 DEF InBuffers, PacketsOf

(* What a thread has moved on is in its hands. *)
LEMMA OwnIsMine ==
  ASSUME IInv, NEW t \in Thread
  PROVE  Own(t) \subseteq Mine(t) /\ Own(t) \subseteq Used(buf)
<1>1. Own(t) \subseteq Mine(t)
  <2> SUFFICES ASSUME NEW b \in Own(t) PROVE b \in Mine(t)
    OBVIOUS
  <2>1. cur[t].of = b /\ b \in Buffer /\ pc[t] \in {"count", "free"}
    BY DEF Own, Moved
  <2>2. cur[t] \in Carrier
    BY <2>1 DEF IInv, Control, AtPlace
  <2> QED
    BY <2>1, <2>2 DEF Mine, InHand
<1>2. Mine(t) \subseteq Used(buf)
  BY HoldersApart DEF IInv
<1> QED
  BY <1>1, <1>2

(* The other threads have moved on what they had. *)
LEMMA OwnOthers ==
  ASSUME NEW t \in Thread, Others(t)
  PROVE  \A b : b \in MovedOn' <=> b \in Own(t)' \/ \E u \in Thread \ {t} : b \in Own(u)
<1>1. \A u \in Thread \ {t} : Own(u)' = Own(u)
  BY DEF Others, Own, Moved
<1> QED
  BY <1>1 DEF MovedOn

(* A thread moves on nothing outside of the traversal of its task. *)
LEMMA MovedSame ==
  ASSUME NEW t \in Thread, Others(t), Own(t)' = Own(t)
  PROVE  MovedOn' = MovedOn
<1>1. MovedOn = Own(t) \cup UNION {Own(u) : u \in Thread \ {t}}
  BY DEF MovedOn
<1> QED
  BY <1>1, OwnOthers

(* A step that emits no packet leaves the number to be emitted alone. *)
LEMMA EmittedSame ==
  ASSUME NEW t \in Thread, Others(t),
         pc[t] \in {"emit", "emit add"} <=> pc'[t] \in {"emit", "emit add"}, pc[t] \in {"emit", "emit add"} => pos'[t] = pos[t]
  PROVE  BeingEmitted' = BeingEmitted
<1>1. \A u \in Thread : (IF pc'[u] \in {"emit", "emit add"} THEN pos'[u][1] ELSE 0)
                         = (IF pc[u] \in {"emit", "emit add"} THEN pos[u][1] ELSE 0)
  BY DEF Others
<1> QED
  BY <1>1 DEF BeingEmitted

(* A new buffer has its packets, and the other buffers have theirs. *)
LEMMA NewPackets ==
  ASSUME IInv, Amounts, Room, Parts', NEW t \in Thread, Others(t), Own(t)' = Own(t),
         NEW r \in PhotonBuffer, buf' = [buf EXCEPT ![FreeBuffer(buf)] = r]
  PROVE  Total(InBuffers') = Total(InBuffers) + r.n
<1>p. PICK b : b = FreeBuffer(buf)
  OBVIOUS
<1>1. buf' = [buf EXCEPT ![b] = r]
  BY <1>p
<1>2. /\ b \in Buffer /\ b \notin Used(buf) /\ buf' \in Memory
      /\ Used(buf)' = Used(buf) \cup {b} /\ buf'[b] = r
      /\ \A c \in Buffer : c # b => buf'[c] = buf[c]
  <2>1. b \in Buffer /\ b \notin Used(buf) /\ buf' \in Memory
    BY <1>p, <1>1, NewBuffer, Zenon
  <2>2. Used(buf)' = Used(buf) \cup {b} /\ buf'[b] = r
    BY <1>p, <1>1, NewBuffer, Zenon
  <2>3. \A c \in Buffer : c # b => buf'[c] = buf[c]
    BY <1>1 DEF IInv, InMemory, MemoryType, Memory
  <2> QED
    BY <2>1, <2>2, <2>3
<1>3. r # None /\ r.n \in Nat
  BY NoneAssumption DEF PhotonBuffer
<1>4. b \notin MovedOn /\ MovedOn' = MovedOn
  BY <1>2, OwnIsMine, MovedSame DEF MovedOn
<1>5. Parts
  BY PartsHold
<1>6. InBuffers[b] = 0 /\ InBuffers'[b] = r.n
  BY <1>2, <1>3, <1>4, InBuffersIs, InBuffersNext DEF PacketsOf, Used
<1>7. \A c \in Buffer \ {b} : InBuffers'[c] = InBuffers[c]
  BY <1>2, <1>4, InBuffersIs, InBuffersNext DEF PacketsOf
<1>8. Total(InBuffers') + InBuffers[b] = Total(InBuffers) + InBuffers'[b]
  BY <1>2, <1>5, <1>7, TotalChange, FiniteSets DEF Parts
<1> QED
  BY <1>3, <1>5, <1>6, <1>8 DEF Parts

(* A buffer of the continuous source is emptied or gets packets. *)
LEMMA BlockChange ==
  ASSUME IInv, Amounts, Parts', NEW k \in Block, NEW g \in Grid, NEW v \in Nat,
         cont' = [cont EXCEPT ![k][g] = v]
  PROVE  cont[k][g] \in Nat /\ Total(InBlocks') + cont[k][g] = Total(InBlocks) + v
<1>m. cont \in [Block -> [Grid -> 0 .. Capacity - 1]]
  BY DEF IInv, InMemory, MemoryType
<1>1. /\ \A h \in Grid : cont[k][h] \in Nat
      /\ \A h \in Grid \ {g} : cont'[k][h] = cont[k][h]
      /\ cont'[k][g] = v /\ cont[k] \in [Grid -> Nat] /\ cont'[k] \in [Grid -> Nat]
      /\ \A j \in Block \ {k} : cont'[j] = cont[j]
  BY <1>m, SizeAssumption
<1>2. /\ DOMAIN cont[k] = Grid /\ DOMAIN cont'[k] = Grid
  BY <1>1
<1>3. Total(cont'[k]) + cont[k][g] = Total(cont[k]) + v
  <2>1. PICK f \in [Grid -> Nat] : f = cont[k]
    BY <1>1
  <2>2. PICK h \in [Grid -> Nat] : h = cont'[k]
    BY <1>1
  <2>3. Total(h) + f[g] = Total(f) + h[g]
    <3>1. \A y \in Grid \ {g} : h[y] = f[y]
      BY <1>1, <2>1, <2>2
    <3> QED
      BY <3>1, TotalChange, FiniteSets
  <2> QED
    BY <2>1, <2>2, <2>3, <1>1
<1>4. InBlocks[k] = Total(cont[k]) /\ InBlocks'[k] = Total(cont'[k])
  BY <1>2 DEF InBlocks, Total
<1>5. \A j \in Block \ {k} : InBlocks'[j] = InBlocks[j]
  BY <1>1 DEF InBlocks
<1>6. Parts
  BY PartsHold
<1>7. Total(InBlocks') + InBlocks[k] = Total(InBlocks) + InBlocks'[k]
  BY <1>5, <1>6, TotalChange, FiniteSets DEF Parts
<1>8. InBlocks[k] \in Nat /\ InBlocks'[k] \in Nat /\ cont[k][g] \in Nat
  BY <1>1, <1>6 DEF Parts
<1> QED
  BY <1>3, <1>4, <1>6, <1>7, <1>8 DEF Parts

-----------------------------------------------------------------------------
(* No step changes the balance. *)

(* The steps that leave the packets where they are do not. *)
LEMMA BalanceSame ==
  ASSUME IInv, NEW t \in Thread, Others(t), Step(t), ~ EmitDiscrete(t), ~ StartEmission(t),
         pc[t] \notin {"emit", "emit add", "count", "free"},
         pc'[t] \notin {"emit", "emit add", "count", "free"},
         buf' = buf, cont' = cont, doneNow' = doneNow, numDone' = numDone
  PROVE  Balance' = Balance
<1>1. DiscreteLeft' = DiscreteLeft /\ ContinuousLeft' = ContinuousLeft
  BY WaitingStep, LeftSame
<1>2. BeingEmitted' = BeingEmitted
  BY EmittedSame
<1>3. InBlocks' = InBlocks
  BY DEF InBlocks
<1>4. InBuffers' = InBuffers
  <2>1. Own(t) = {} /\ Own(t)' = {}
    BY DEF Own, Moved
  <2>2. MovedOn' = MovedOn
    BY <2>1, MovedSame
  <2> QED
    BY <2>2, InBuffersIs, InBuffersNext DEF PacketsOf
<1> QED
  BY <1>1, <1>2, <1>3, <1>4 DEF Balance

(* A batch is turned into packets: it, and no other one, does not wait     *)
(* any more.                                                               *)
LEMMA BatchStarts ==
  ASSUME IInv, BatchesOnce, NEW t \in Thread, Others(t), NEW x \in Batch, cur[t] = x,
         pc[t] = "exec", pc'[t] \notin {"exec", "while", "exit"}, cur' = cur, queued' = queued
  PROVE  /\ Waiting(x) /\ ~ Waiting(x)'
         /\ \A y \in Batch \ {x} : Waiting(y)' <=> Waiting(y)
<1>1. Waiting(x)
  BY DEF Waiting
<1>2. x \notin queued /\ \A u \in Thread : u # t => cur[u] # x
  BY DEF BatchesOnce
<1>3. ~ Waiting(x)'
  BY <1>2 DEF Waiting
<1>4. ASSUME NEW y \in Batch \ {x} PROVE Waiting(y)' <=> Waiting(y)
  <2>1. ~ Has(t, y) /\ ~ Has(t, y)'
    BY <1>4 DEF Has
  <2>2. (y \in queued \/ Has(t, y)) <=> (y \in queued \/ Has(t, y))'
    BY <2>1
  <2> QED
    BY <2>2, WaitingSame
<1> QED
  BY <1>1, <1>3, <1>4

(* A batch of the discrete source becomes a buffer of packets. *)
LEMMA EmitDiscreteBalance ==
  ASSUME IInv, Amounts, BatchesOnce, Room, Parts', NEW t \in Thread, Others(t), EmitDiscrete(t)
  PROVE  Balance' = Balance
<1>f. Functions /\ Parts
  BY PartsHold DEF IInv, Control
<1>1. PICK s : s = cur[t].of
  OBVIOUS
<1>2. /\ Executes(t, "discrete") /\ pc'[t] = "finish" /\ cur' = cur /\ queued' = queued
      /\ buf' = [buf EXCEPT ![FreeBuffer(buf)] = [grid |-> s.grid, dir |-> "in", n |-> s.n]]
      /\ cont' = cont /\ doneNow' = doneNow /\ numDone' = numDone
  BY <1>f, <1>1 DEF EmitDiscrete, Goto, Functions, source
<1>3. s \in Discrete /\ cur[t] = DiscreteTask(s) /\ pc[t] = "exec"
  BY <1>1, <1>2, ExecutesTask, TaskKinds
<1>4. s.grid \in Grid /\ s.n \in 1 .. Capacity
  BY <1>3, SourceAssumption
<1>5. Total(InBuffers') = Total(InBuffers) + s.n
  <2>1. Own(t)' = Own(t)
    BY <1>2, <1>3 DEF Own, Moved
  <2>2. PICK r \in PhotonBuffer : r = [grid |-> s.grid, dir |-> "in", n |-> s.n]
    <3>1. s.n \in 0 .. Capacity
      BY <1>4, SizeAssumption
    <3>2. [grid |-> s.grid, dir |-> "in", n |-> s.n] \in PhotonBuffer
      BY <3>1, <1>4 DEF PhotonBuffer, Dir
    <3> QED
      BY <3>2
  <2>3. buf' = [buf EXCEPT ![FreeBuffer(buf)] = r] /\ r.n = s.n
    BY <1>2, <2>2
  <2> QED
    BY <2>1, <2>3, <1>2, NewPackets
<1>6. PICK x \in Batch : x = DiscreteTask(s)
  BY <1>3 DEF Batch
<1>7. Waiting(x) /\ ~ Waiting(x)' /\ \A y \in Batch \ {x} : Waiting(y)' <=> Waiting(y)
  <2>1. cur[t] = x /\ pc'[t] \notin {"exec", "while", "exit"}
    BY <1>2, <1>3, <1>6
  <2> QED
    BY <2>1, <1>2, <1>3, BatchStarts
<1>8. Total(DiscreteLeft') + s.n = Total(DiscreteLeft)
  <2>1. DiscreteLeft[s] = s.n /\ DiscreteLeft'[s] = 0
    BY <1>3, <1>6, <1>7 DEF DiscreteLeft
  <2>2. ASSUME NEW c \in Discrete \ {s} PROVE DiscreteLeft'[c] = DiscreteLeft[c]
    <3>1. DiscreteTask(c) \in Batch \ {x}
      BY <2>2, <1>6 DEF Batch, DiscreteTask
    <3> QED
      BY <3>1, <1>7, <2>2 DEF DiscreteLeft
  <2>3. Total(DiscreteLeft') + DiscreteLeft[s] = Total(DiscreteLeft) + DiscreteLeft'[s]
    BY <2>2, <1>3, <1>f, TotalChange, FiniteSets DEF Parts
  <2> QED
    BY <2>1, <2>3, <1>f DEF Parts
<1>9. ContinuousLeft' = ContinuousLeft
  <2>1. ASSUME NEW c \in Continuous PROVE Waiting(ContinuousTask(c))' <=> Waiting(ContinuousTask(c))
    <3>1. ContinuousTask(c) \in Batch \ {x}
      BY <1>6 DEF Batch, DiscreteTask, ContinuousTask
    <3> QED
      BY <3>1, <1>7
  <2> QED
    BY <2>1 DEF ContinuousLeft
<1>10. BeingEmitted' = BeingEmitted
  BY <1>2, <1>3, EmittedSame
<1>11. InBlocks' = InBlocks
  BY <1>2 DEF InBlocks
<1> QED
  BY <1>2, <1>4, <1>5, <1>8, <1>9, <1>10, <1>11, <1>f DEF Balance, Parts

(* A batch of the continuous source becomes packets to be emitted. *)
LEMMA StartEmissionBalance ==
  ASSUME IInv, Amounts, BatchesOnce, Parts', NEW t \in Thread, Others(t), StartEmission(t)
  PROVE  Balance' = Balance
<1>f. Functions /\ Parts
  BY PartsHold DEF IInv, Control
<1>1. PICK s : s = cur[t].of
  OBVIOUS
<1>2. /\ Executes(t, "continuous") /\ pc'[t] = "emit" /\ cur' = cur /\ queued' = queued
      /\ pos'[t] = <<s.n, 0>> /\ buf' = buf
      /\ cont' = cont /\ doneNow' = doneNow /\ numDone' = numDone
  BY <1>f, <1>1 DEF StartEmission, Goto, Functions, source, memory
<1>3. s \in Continuous /\ cur[t] = ContinuousTask(s) /\ pc[t] = "exec"
  BY <1>1, <1>2, ExecutesTask, TaskKinds
<1>4. s.n \in 1 .. Capacity
  BY <1>3, SourceAssumption
<1>5. InBuffers' = InBuffers
  <2>1. Own(t)' = Own(t)
    BY <1>2, <1>3 DEF Own, Moved
  <2>2. MovedOn' = MovedOn
    BY <2>1, MovedSame
  <2> QED
    BY <1>2, <2>2, InBuffersIs, InBuffersNext DEF PacketsOf
<1>6. PICK x \in Batch : x = ContinuousTask(s)
  BY <1>3 DEF Batch
<1>7. Waiting(x) /\ ~ Waiting(x)' /\ \A y \in Batch \ {x} : Waiting(y)' <=> Waiting(y)
  <2>1. cur[t] = x /\ pc'[t] \notin {"exec", "while", "exit"}
    BY <1>2, <1>3, <1>6
  <2> QED
    BY <2>1, <1>2, <1>3, BatchStarts
<1>8. Total(ContinuousLeft') + s.n = Total(ContinuousLeft)
  <2>1. ContinuousLeft[s] = s.n /\ ContinuousLeft'[s] = 0
    BY <1>3, <1>6, <1>7 DEF ContinuousLeft
  <2>2. ASSUME NEW c \in Continuous \ {s} PROVE ContinuousLeft'[c] = ContinuousLeft[c]
    <3>1. ContinuousTask(c) \in Batch \ {x}
      BY <2>2, <1>6 DEF Batch, ContinuousTask
    <3> QED
      BY <3>1, <1>7, <2>2 DEF ContinuousLeft
  <2>3. Total(ContinuousLeft') + ContinuousLeft[s] = Total(ContinuousLeft) + ContinuousLeft'[s]
    BY <2>2, <1>3, <1>f, TotalChange, FiniteSets DEF Parts
  <2> QED
    BY <2>1, <2>3, <1>f DEF Parts
<1>9. DiscreteLeft' = DiscreteLeft
  <2>1. ASSUME NEW c \in Discrete PROVE Waiting(DiscreteTask(c))' <=> Waiting(DiscreteTask(c))
    <3>1. DiscreteTask(c) \in Batch \ {x}
      BY <1>6 DEF Batch, DiscreteTask, ContinuousTask
    <3> QED
      BY <3>1, <1>7
  <2> QED
    BY <2>1 DEF DiscreteLeft
<1>10. Total(BeingEmitted') = Total(BeingEmitted) + s.n
  <2>0. pc[t] = "exec" /\ pc'[t] = "emit" /\ pos'[t][1] = s.n
    BY <1>2, <1>3
  <2>1. BeingEmitted[t] = 0 /\ BeingEmitted'[t] = s.n
    BY <2>0 DEF BeingEmitted
  <2>2. \A u \in Thread \ {t} : BeingEmitted'[u] = BeingEmitted[u]
    BY DEF BeingEmitted, Others
  <2>3. Total(BeingEmitted') + BeingEmitted[t] = Total(BeingEmitted) + BeingEmitted'[t]
    BY <2>2, <1>f, TotalChange, FiniteSets DEF Parts
  <2> QED
    BY <2>1, <2>3, <1>f DEF Parts
<1>11. InBlocks' = InBlocks
  BY <1>2 DEF InBlocks
<1> QED
  BY <1>2, <1>4, <1>5, <1>8, <1>9, <1>10, <1>11, <1>f DEF Balance, Parts

(* A buffer of the continuous source that is sent off has all its packets. *)
LEMMA SentOffBalance ==
  ASSUME IInv, Amounts, Room, Parts', NEW t \in Thread, Others(t), Own(t)' = Own(t),
         NEW k \in Block, NEW g \in Grid, NEW n \in 0 .. Capacity,
         buf' = [buf EXCEPT ![FreeBuffer(buf)] = [grid |-> g, dir |-> "in", n |-> n]],
         cont' = [cont EXCEPT ![k][g] = 0]
  PROVE  Total(InBuffers') = Total(InBuffers) + n
         /\ Total(InBlocks') + cont[k][g] = Total(InBlocks) /\ cont[k][g] \in Nat
<1>1. PICK r \in PhotonBuffer : r = [grid |-> g, dir |-> "in", n |-> n]
  <2>1. [grid |-> g, dir |-> "in", n |-> n] \in PhotonBuffer
    BY DEF PhotonBuffer, Dir
  <2> QED
    BY <2>1
<1>2. buf' = [buf EXCEPT ![FreeBuffer(buf)] = r] /\ r.n = n
  BY <1>1
<1>3. Total(InBuffers') = Total(InBuffers) + n
  BY <1>2, NewPackets
<1>4. cont[k][g] \in Nat /\ Total(InBlocks') + cont[k][g] = Total(InBlocks) + 0
  BY BlockChange
<1>5. Parts
  BY PartsHold
<1> QED
  BY <1>3, <1>4, <1>5 DEF Parts

(* A packet is emitted: it is in a buffer of the continuous source, or is  *)
(* sent off with the others in it.                                         *)
LEMMA EmitPacketBalance ==
  ASSUME IInv, Amounts, Room, Parts', NEW t \in Thread, Others(t), Step(t), EmitPacket(t)
  PROVE  Balance' = Balance
<1>f. Functions /\ Parts /\ AtPlace(pc[t], cur[t], adding[t], pos[t]) /\ Capacity \in Nat \ {0}
      /\ cont \in [Block -> [Grid -> 0 .. Capacity - 1]]
  BY PartsHold, SizeAssumption DEF IInv, Control, InMemory, MemoryType
<1>1. PICK k : k = cur[t].of.block
  OBVIOUS
<1>2. pc[t] = "emit" /\ pc'[t] \in {"emit", "emit add"} /\ cur' = cur
  BY <1>f, <1>1 DEF EmitPacket, Goto, Functions
<1>d. doneNow' = doneNow /\ numDone' = numDone
  BY DEF EmitPacket
<1>e. pos[t][1] > 0 /\ pos' = [pos EXCEPT ![t][1] = @ - 1]
  BY DEF EmitPacket
<1>3. k \in Block
  <2>1. cur[t] \in Task /\ cur[t].type = "continuous"
    BY <1>2, <1>f DEF AtPlace
  <2>2. cur[t].of \in Continuous
    BY <2>1, TaskKinds
  <2> QED
    BY <2>2, <1>1, SourceAssumption
<1>4. DiscreteLeft' = DiscreteLeft /\ ContinuousLeft' = ContinuousLeft
  <2>1. ~ EmitDiscrete(t) /\ ~ StartEmission(t)
    BY <1>2 DEF EmitDiscrete, StartEmission, Executes
  <2> QED
    BY <2>1, WaitingStep, LeftSame
<1>5. Own(t)' = Own(t)
  BY <1>2 DEF Own, Moved
<1>6. Total(BeingEmitted') + 1 = Total(BeingEmitted)
  <2>1. pos[t] \in Int \X Int
    BY <1>f DEF AtPlace
  <2>2. pos'[t][1] = pos[t][1] - 1
    BY <2>1, <1>e, <1>f DEF Functions
  <2>3. BeingEmitted[t] = pos[t][1] /\ BeingEmitted'[t] = pos[t][1] - 1 /\ pos[t][1] \in Int
    BY <1>2, <2>1, <2>2 DEF BeingEmitted
  <2>4. \A u \in Thread \ {t} : BeingEmitted'[u] = BeingEmitted[u]
    BY DEF BeingEmitted, Others
  <2>5. /\ BeingEmitted \in [Thread -> Nat] /\ BeingEmitted' \in [Thread -> Nat]
        /\ Total(BeingEmitted) \in Nat /\ Total(BeingEmitted') \in Nat
    BY <1>f DEF Parts
  <2>6. Total(BeingEmitted') + BeingEmitted[t] = Total(BeingEmitted) + BeingEmitted'[t]
    BY <2>4, <2>5, TotalChange, FiniteSets
  <2>7. PICK n \in Int : n = pos[t][1]
    BY <2>3
  <2>8. BeingEmitted[t] = n /\ BeingEmitted'[t] = n - 1
    BY <2>3, <2>7
  <2> QED
    BY <2>5, <2>6, <2>8
<1>7. PICK g \in Grid :
       \/ /\ cont[k][g] + 1 < Capacity
          /\ cont' = [cont EXCEPT ![k][g] = @ + 1]
          /\ buf' = buf
       \/ /\ cont[k][g] + 1 = Capacity
          /\ cont' = [cont EXCEPT ![k][g] = 0]
          /\ buf' = [buf EXCEPT ![FreeBuffer(buf)] = [grid |-> g, dir |-> "in", n |-> Capacity]]
  BY <1>1, <1>2 DEF EmitPacket
<1>8. cont[k][g] \in Nat
  BY <1>3, <1>f
<1>9. CASE cont' = [cont EXCEPT ![k][g] = @ + 1] /\ buf' = buf
  <2>1. PICK v \in Nat : v = cont[k][g] + 1
    BY <1>8
  <2>2. cont' = [cont EXCEPT ![k][g] = v]
    BY <2>1, <1>9, <1>3, <1>f
  <2>3. Total(InBlocks') + cont[k][g] = Total(InBlocks) + v
    BY <2>2, <1>3, BlockChange
  <2>4. Total(InBlocks') = Total(InBlocks) + 1
    BY <2>1, <2>3, <1>8, <1>f DEF Parts
  <2>5. InBuffers' = InBuffers
    <3>1. MovedOn' = MovedOn
      BY <1>5, MovedSame
    <3> QED
      BY <3>1, <1>9, InBuffersIs, InBuffersNext DEF PacketsOf
  <2> QED
    BY <2>4, <2>5, <1>d, <1>4, <1>6, <1>f DEF Balance, Parts
<1>10. CASE /\ cont[k][g] + 1 = Capacity
            /\ cont' = [cont EXCEPT ![k][g] = 0]
            /\ buf' = [buf EXCEPT ![FreeBuffer(buf)] = [grid |-> g, dir |-> "in", n |-> Capacity]]
  <2>1. PICK n \in 0 .. Capacity : n = Capacity
    BY <1>f
  <2>2. buf' = [buf EXCEPT ![FreeBuffer(buf)] = [grid |-> g, dir |-> "in", n |-> n]]
    BY <2>1, <1>10
  <2>3. Total(InBuffers') = Total(InBuffers) + n
         /\ Total(InBlocks') + cont[k][g] = Total(InBlocks) /\ cont[k][g] \in Nat
    BY <2>2, <1>10, <1>3, <1>5, SentOffBalance
  <2> QED
    BY <2>1, <2>3, <1>10, <1>d, <1>4, <1>6, <1>f DEF Balance, Parts
<1> QED
  BY <1>7, <1>9, <1>10

(* No packet is emitted when a task is added, or when the last one was     *)
(* emitted before.                                                         *)
LEMMA EmissionDoneBalance ==
  ASSUME IInv, Amounts, Parts', NEW t \in Thread, Others(t), Step(t), EmissionDone(t) \/ AddEmitted(t)
  PROVE  Balance' = Balance
<1>f. Functions /\ Parts
  BY PartsHold DEF IInv, Control
<1>1. /\ pc[t] \in {"emit", "emit add"} /\ pc'[t] \in {"emit", "left"} /\ pos' = pos /\ cur' = cur
      /\ pc'[t] = "left" => pc[t] = "emit" /\ pos[t][1] = 0
      /\ buf' = buf /\ cont' = cont /\ doneNow' = doneNow /\ numDone' = numDone
  BY <1>f DEF EmissionDone, AddEmitted, Goto, Functions, memory, source
<1>2. DiscreteLeft' = DiscreteLeft /\ ContinuousLeft' = ContinuousLeft
  <2>1. ~ EmitDiscrete(t) /\ ~ StartEmission(t)
    BY <1>1 DEF EmitDiscrete, StartEmission, Executes
  <2> QED
    BY <2>1, WaitingStep, LeftSame
<1>3. BeingEmitted' = BeingEmitted
  <2>1. \A u \in Thread : (IF pc'[u] \in {"emit", "emit add"} THEN pos'[u][1] ELSE 0)
                           = (IF pc[u] \in {"emit", "emit add"} THEN pos[u][1] ELSE 0)
    BY <1>1 DEF Others
  <2> QED
    BY <2>1 DEF BeingEmitted
<1>4. InBlocks' = InBlocks
  BY <1>1 DEF InBlocks
<1>5. InBuffers' = InBuffers
  <2>1. Own(t)' = Own(t)
    BY <1>1 DEF Own, Moved
  <2>2. MovedOn' = MovedOn
    BY <2>1, MovedSame
  <2> QED
    BY <2>2, <1>1, InBuffersIs, InBuffersNext DEF PacketsOf
<1> QED
  BY <1>1, <1>2, <1>3, <1>4, <1>5 DEF Balance

(* A buffer of a block is flushed, or has no packets. *)
LEMMA FlushBalance ==
  ASSUME IInv, Amounts, Room, Parts', NEW t \in Thread, Others(t), Step(t), Flush(t)
  PROVE  Balance' = Balance
<1>f. Functions /\ Parts /\ AtPlace(pc[t], cur[t], adding[t], pos[t]) /\ Capacity \in Nat \ {0}
      /\ NGrid \in Nat \ {0} /\ cont \in [Block -> [Grid -> 0 .. Capacity - 1]]
  BY PartsHold, SizeAssumption DEF IInv, Control, InMemory, MemoryType
<1>1. /\ Executes(t, "flush") /\ pc'[t] \in {"exec", "finish", "flush add"} /\ cur' = cur
  BY <1>f DEF Flush, Goto, Functions
<1>d. doneNow' = doneNow /\ numDone' = numDone
  BY DEF Flush
<1>2. pc[t] = "exec" /\ cur[t] \in Task /\ cur[t].type = "flush"
  BY <1>1, ExecutesTask
<1>3. PICK k \in Block : k = cur[t].of
  BY <1>2, TaskKinds
<1>4. PICK g \in Grid : g = pos[t][1] + 1
  <2>1. pos[t][1] \in 0 .. NGrid - 1
    BY <1>2, <1>f DEF AtPlace
  <2> QED
    BY <2>1, <1>f DEF Grid
<1>5. \/ UNCHANGED <<buf, cont>>
      \/ /\ buf' = [buf EXCEPT ![FreeBuffer(buf)] = [grid |-> g, dir |-> "in", n |-> cont[k][g]]]
         /\ cont' = [cont EXCEPT ![k][g] = 0]
  BY <1>3, <1>4 DEF Flush
<1>6. CASE UNCHANGED <<buf, cont>>
  <2>1. ~ EmitDiscrete(t) /\ ~ StartEmission(t)
    BY <1>2 DEF EmitDiscrete, StartEmission, Executes
  <2> QED
    BY <2>1, <1>1, <1>2, <1>d, <1>6, BalanceSame
<1>7. CASE /\ buf' = [buf EXCEPT ![FreeBuffer(buf)] = [grid |-> g, dir |-> "in", n |-> cont[k][g]]]
           /\ cont' = [cont EXCEPT ![k][g] = 0]
  <2>1. PICK n \in 0 .. Capacity : n = cont[k][g]
    <3>1. cont[k][g] \in 0 .. Capacity - 1
      BY <1>f
    <3> QED
      BY <3>1, <1>f
  <2>2. Own(t)' = Own(t)
    BY <1>1, <1>2 DEF Own, Moved
  <2>3. Total(InBuffers') = Total(InBuffers) + n
         /\ Total(InBlocks') + cont[k][g] = Total(InBlocks) /\ cont[k][g] \in Nat
    BY <2>1, <2>2, <1>7, SentOffBalance
  <2>4. DiscreteLeft' = DiscreteLeft /\ ContinuousLeft' = ContinuousLeft
    <3>1. ~ EmitDiscrete(t) /\ ~ StartEmission(t)
      BY <1>2 DEF EmitDiscrete, StartEmission, Executes
    <3> QED
      BY <3>1, WaitingStep, LeftSame
  <2>5. BeingEmitted' = BeingEmitted
    BY <1>1, <1>2, EmittedSame
  <2> QED
    BY <2>1, <2>3, <2>4, <2>5, <1>d, <1>f DEF Balance, Parts
<1> QED
  BY <1>5, <1>6, <1>7

(* What a thread is about to count. *)
LEMMA DoneChange ==
  ASSUME IInv, Amounts, Parts', NEW t \in Thread, NEW k \in Nat, doneNow' = [doneNow EXCEPT ![t] = k]
  PROVE  doneNow[t] \in Nat /\ Total(doneNow') + doneNow[t] = Total(doneNow) + k
<1>1. doneNow \in [Thread -> Nat] /\ doneNow' \in [Thread -> Nat]
  BY DEF Amounts, Parts
<1>2. doneNow'[t] = k /\ \A u \in Thread \ {t} : doneNow'[u] = doneNow[u]
  BY <1>1
<1>3. Total(doneNow') + doneNow[t] = Total(doneNow) + doneNow'[t]
  <2>1. PICK f \in [Thread -> Nat] : f = doneNow
    BY <1>1
  <2>2. PICK g \in [Thread -> Nat] : g = doneNow'
    BY <1>1
  <2>3. \A u \in Thread \ {t} : g[u] = f[u]
    BY <1>2, <2>1, <2>2
  <2>4. Total(g) + f[t] = Total(f) + g[t]
    BY <2>3, TotalChange, FiniteSets
  <2> QED
    BY <2>1, <2>2, <2>4
<1> QED
  BY <1>1, <1>2, <1>3

(* Some of the packets of the buffer are reemitted, the others done. *)
LEMMA ReemitBalance ==
  ASSUME IInv, Amounts, Parts', NEW t \in Thread, Others(t), Step(t), Reemit(t)
  PROVE  Balance' = Balance
<1>f. Functions /\ Parts /\ buf \in Memory
  BY PartsHold DEF IInv, Control, InMemory, MemoryType
<1>1. PICK b : b = cur[t].of
  OBVIOUS
<1>2. /\ Executes(t, "reemit") /\ pc'[t] = "count" /\ cur' = cur /\ cont' = cont /\ numDone' = numDone
      /\ \E k \in 0 .. buf[b].n :
           /\ buf' = [buf EXCEPT ![b].n = k]
           /\ doneNow' = [doneNow EXCEPT ![t] = buf[b].n - k]
  BY <1>f, <1>1 DEF Reemit, Goto, Functions, source
<1>3. PICK k \in 0 .. buf[b].n :
           /\ buf' = [buf EXCEPT ![b].n = k]
           /\ doneNow' = [doneNow EXCEPT ![t] = buf[b].n - k]
  BY <1>2
<1>4. pc[t] = "exec" /\ InHand(t) /\ cur[t].type = "reemit"
  BY <1>2, ExecutesTask
<1>5. b \in Mine(t) /\ b \in Used(buf) /\ b \in Buffer /\ buf[b] \in PhotonBuffer /\ buf[b].n \in 0 .. Capacity
  BY <1>1, <1>4, HandBuffer
<1>6. k \in Nat /\ buf[b].n \in Nat /\ buf[b].n - k \in Nat
  BY <1>5, <1>3
<1>7. MovedOn' = MovedOn /\ b \notin MovedOn
  <2>1. Own(t) = {} /\ Own(t)' = {}
    BY <1>2, <1>4 DEF Own, Moved
  <2>2. MovedOn' = MovedOn
    BY <2>1, MovedSame
  <2>3. ASSUME NEW u \in Thread PROVE b \notin Own(u)
    <3>1. CASE u = t
      BY <2>1, <3>1
    <3>2. CASE u # t
      <4>1. Mine(t) \cap Mine(u) = {}
        BY <3>2, HoldersApart DEF IInv
      <4> QED
        BY <4>1, <1>5, OwnIsMine
    <3> QED
      BY <3>1, <3>2
  <2> QED
    BY <2>2, <2>3 DEF MovedOn
<1>8. Total(InBuffers') + buf[b].n = Total(InBuffers) + k
  <2>1. buf[b] # None /\ \A c \in Buffer \ {b} : buf'[c] = buf[c]
    BY <1>5, <1>3, NoneAssumption
  <2>2. buf'[b].n = k /\ buf'[b] # None
    <3>1. buf'[b] = [buf[b] EXCEPT !.n = k]
      BY <1>3, <1>5, <1>f DEF Memory
    <3>2. [buf[b] EXCEPT !.n = k] \in PhotonBuffer /\ [buf[b] EXCEPT !.n = k].n = k
      <4>1. k \in 0 .. Capacity
        BY <1>5, <1>6, <1>3, SizeAssumption
      <4> QED
        BY <4>1, <1>5 DEF PhotonBuffer
    <3> QED
      BY <3>1, <3>2, NoneAssumption
  <2>3. InBuffers[b] = buf[b].n /\ InBuffers'[b] = k
    BY <2>1, <2>2, <1>5, <1>7, InBuffersIs, InBuffersNext DEF PacketsOf
  <2>4. \A c \in Buffer \ {b} : InBuffers'[c] = InBuffers[c]
    BY <2>1, <1>7, InBuffersIs, InBuffersNext DEF PacketsOf
  <2>5. InBuffers \in [Buffer -> Nat] /\ InBuffers' \in [Buffer -> Nat]
    BY <1>f DEF Parts
  <2>6. Total(InBuffers') + InBuffers[b] = Total(InBuffers) + InBuffers'[b]
    BY <2>4, <2>5, <1>5, TotalChange, FiniteSets
  <2> QED
    BY <2>3, <2>6
<1>9. Total(doneNow') + 0 = Total(doneNow) + (buf[b].n - k)
  <2>1. doneNow[t] = 0
    BY <1>4 DEF Amounts
  <2>2. PICK m \in Nat : m = buf[b].n - k
    BY <1>6
  <2>3. Total(doneNow') + doneNow[t] = Total(doneNow) + m
    BY <2>2, <1>3, DoneChange
  <2> QED
    BY <2>1, <2>2, <2>3
<1>10. DiscreteLeft' = DiscreteLeft /\ ContinuousLeft' = ContinuousLeft
  <2>1. ~ EmitDiscrete(t) /\ ~ StartEmission(t)
    BY <1>4 DEF EmitDiscrete, StartEmission, Executes
  <2> QED
    BY <2>1, WaitingStep, LeftSame
<1>11. BeingEmitted' = BeingEmitted /\ InBlocks' = InBlocks
  BY <1>2, <1>4, EmittedSame DEF InBlocks
<1>12. /\ Total(InBuffers) \in Nat /\ Total(InBuffers') \in Nat
       /\ Total(doneNow) \in Nat /\ Total(doneNow') \in Nat
       /\ Total(DiscreteLeft) \in Nat /\ Total(ContinuousLeft) \in Nat
       /\ Total(BeingEmitted) \in Nat /\ Total(InBlocks) \in Nat /\ numDone \in Nat
  BY <1>f DEF Parts
<1> QED
  BY <1>2, <1>6, <1>8, <1>9, <1>10, <1>11, <1>12 DEF Balance

(* Packets that were about to be counted are counted. *)
LEMMA CountBalance ==
  ASSUME IInv, Amounts, Parts', NEW t \in Thread, Others(t), Step(t), Count(t)
  PROVE  Balance' = Balance
<1>f. Functions /\ Parts
  BY PartsHold DEF IInv, Control
<1>1. /\ pc[t] = "count" /\ pc'[t] \in {"free", "finish"} /\ cur' = cur /\ buf' = buf /\ cont' = cont
      /\ (cur[t].type = "traversal" => pc'[t] = "free")
      /\ numDone' = numDone + doneNow[t] /\ doneNow' = [doneNow EXCEPT ![t] = 0]
  BY <1>f DEF Count, Goto, Functions, source, memory
<1>2. doneNow[t] \in Nat /\ Total(doneNow') + doneNow[t] = Total(doneNow) + 0
  BY <1>1, DoneChange
<1>3. InBuffers' = InBuffers
  <2>1. Own(t)' = Own(t)
    BY <1>1 DEF Own, Moved
  <2>2. MovedOn' = MovedOn
    BY <2>1, MovedSame
  <2> QED
    BY <2>2, <1>1, InBuffersIs, InBuffersNext DEF PacketsOf
<1>4. DiscreteLeft' = DiscreteLeft /\ ContinuousLeft' = ContinuousLeft
  <2>1. ~ EmitDiscrete(t) /\ ~ StartEmission(t)
    BY <1>1 DEF EmitDiscrete, StartEmission, Executes
  <2> QED
    BY <2>1, WaitingStep, LeftSame
<1>5. BeingEmitted' = BeingEmitted /\ InBlocks' = InBlocks
  BY <1>1, EmittedSame DEF InBlocks
<1>6. /\ Total(InBuffers) \in Nat /\ Total(doneNow) \in Nat /\ Total(doneNow') \in Nat
      /\ Total(DiscreteLeft) \in Nat /\ Total(ContinuousLeft) \in Nat
      /\ Total(BeingEmitted) \in Nat /\ Total(InBlocks) \in Nat /\ numDone \in Nat
  BY <1>f DEF Parts
<1> QED
  BY <1>1, <1>2, <1>3, <1>4, <1>5, <1>6 DEF Balance

(* A buffer that is freed has no packets, or they were moved on. *)
LEMMA FreeInputBalance ==
  ASSUME IInv, Amounts, NEW t \in Thread, Others(t), Step(t), FreeInput(t)
  PROVE  Balance' = Balance
<1>f. Functions /\ buf \in Memory /\ AtPlace(pc[t], cur[t], adding[t], pos[t]) /\ ThreadMemory(t)
  BY DEF IInv, Control, InMemory, MemoryType
<1>1. PICK b : b = cur[t].of
  OBVIOUS
<1>2. /\ pc[t] = "free" /\ pc'[t] = "finish" /\ cur' = cur /\ buf' = [buf EXCEPT ![b] = None]
      /\ cont' = cont /\ doneNow' = doneNow /\ numDone' = numDone
  BY <1>1, <1>f DEF FreeInput, Freed, Goto, Functions, source
<1>3. cur[t] \in Carrier /\ InHand(t)
  BY <1>2, <1>f DEF AtPlace, InHand
<1>4. b \in Buffer /\ buf[b].n \in 0 .. Capacity /\ cur[t].type \in {"traversal", "reemit"}
  BY <1>1, <1>3, HandBuffer, TaskKinds
<1>5. InBuffers[b] = 0
  <2>1. CASE cur[t].type = "traversal"
    <3>1. b \in Own(t)
      BY <2>1, <1>1, <1>2, <1>3, <1>4, NoneAssumption, TaskKinds DEF Own, Moved
    <3> QED
      BY <3>1, <1>4, InBuffersIs DEF MovedOn
  <2>2. CASE cur[t].type = "reemit"
    <3>1. ~ (buf[b].n > 0)
      BY <2>2, <1>1, <1>2, <1>f DEF ThreadMemory, Handling
    <3>2. buf[b].n = 0
      BY <3>1, <1>4, SizeAssumption
    <3>3. PacketsOf(buf)[b] = 0
      BY <3>2, <1>4 DEF PacketsOf
    <3> QED
      BY <3>3, <1>4, InBuffersIs
  <2> QED
    BY <2>1, <2>2, <1>4
<1>6. InBuffers'[b] = 0
  <2>1. buf'[b] = None
    BY <1>2, <1>4, <1>f DEF Memory
  <2>2. PacketsOf(buf')[b] = 0
    BY <2>1, <1>4 DEF PacketsOf
  <2> QED
    BY <2>2, <1>4, InBuffersNext
<1>7. ASSUME NEW c \in Buffer, c # b PROVE InBuffers'[c] = InBuffers[c]
  <2>1. c \notin Own(t) /\ c \notin Own(t)'
    BY <1>7, <1>1, <1>2 DEF Own
  <2>2. c \in MovedOn' <=> c \in MovedOn
    <3>1. c \in MovedOn <=> \E u \in Thread \ {t} : c \in Own(u)
      BY <2>1 DEF MovedOn
    <3> QED
      BY <2>1, <3>1, OwnOthers
  <2>3. buf'[c] = buf[c]
    BY <1>7, <1>2
  <2> QED
    BY <2>2, <2>3, InBuffersIs, InBuffersNext DEF PacketsOf
<1>8. InBuffers' = InBuffers
  <2>1. \A c \in Buffer : InBuffers'[c] = InBuffers[c]
    BY <1>5, <1>6, <1>7
  <2> QED
    BY <2>1, InBuffersIs, InBuffersNext
<1>9. DiscreteLeft' = DiscreteLeft /\ ContinuousLeft' = ContinuousLeft
  <2>1. ~ EmitDiscrete(t) /\ ~ StartEmission(t)
    BY <1>2 DEF EmitDiscrete, StartEmission, Executes
  <2> QED
    BY <2>1, WaitingStep, LeftSame
<1>10. BeingEmitted' = BeingEmitted /\ InBlocks' = InBlocks
  BY <1>2, EmittedSame DEF InBlocks
<1> QED
  BY <1>2, <1>8, <1>9, <1>10 DEF Balance

(* The packets that were moved on, and are in other buffers or done. *)
PacketsMoved == [b \in Buffer |-> IF b \in MovedOn THEN PacketsOf(buf)[b] ELSE 0]

(* A traversal moves the packets of its buffer on, to other buffers or to  *)
(* the ones that are about to be counted.                                  *)
LEMMA TraverseBalance ==
  ASSUME IInv, Amounts, Room, Parts', MemoryType', NEW t \in Thread, Others(t), Step(t), Traverse(t)
  PROVE  Balance' = Balance
<1>f. Functions /\ Parts /\ buf \in Memory /\ buf' \in Memory /\ InMemory
  BY PartsHold DEF IInv, Control, InMemory, MemoryType
<1>1. PICK b, g : b = cur[t].of /\ g = buf[b].grid
  OBVIOUS
<1>2. /\ pc[t] = "exec" /\ pc'[t] = "count" /\ cur[t].type = "traversal" /\ cur' = cur
      /\ cont' = cont /\ numDone' = numDone
  BY <1>f DEF Traverse, Executes, Goto, Functions, source
<1>3. cur[t] \in Carrier /\ InHand(t)
  BY <1>2, ExecutesTask DEF Traverse
<1>4. b \in Mine(t) /\ b \in Used(buf) /\ b \in Buffer /\ buf[b] # None /\ g \in Grid /\ buf[b].n \in Nat
  <2>1. b \in Mine(t) /\ b \in Used(buf) /\ b \in Buffer
    BY <1>1, <1>3, HandBuffer
  <2>2. g \in Grid /\ buf[b].n \in Nat
    BY <1>1, <1>2, TraverseAdds
  <2> QED
    BY <2>1, <2>2 DEF Used
<1>5. PICK k \in Nat : /\ doneNow' = [doneNow EXCEPT ![t] = k]
                       /\ Total(PacketsOf(buf')) + k = Total(PacketsOf(buf)) + buf[b].n
  BY <1>1, TraverseAdds
<1>6. PICK s : /\ Storing(s, g, Used(buf) \ InSlots(active[g]), buf) /\ buf' = s.buf
  BY <1>1, TraverseAdds DEF TraverseMakes
<1>7. ASSUME NEW u \in Thread, NEW c \in Mine(u) PROVE buf'[c] = buf[c]
  <2>1. c \in Used(buf) /\ c \notin AllSlots
    BY <1>f, HoldersApart
  <2>2. c \notin InSlots(active[g])
    BY <2>1, <1>4 DEF AllSlots
  <2> QED
    BY <2>1, <2>2, <1>6 DEF Storing
<1>8. Own(t) = {} /\ Own(t)' = {b}
  BY <1>1, <1>2, <1>3, <1>4, NoneAssumption, TaskKinds DEF Own, Moved
<1>9. ASSUME NEW u \in Thread, b \in Own(u) PROVE FALSE
  <2>1. u # t
    BY <1>8, <1>9
  <2>2. Mine(t) \cap Mine(u) = {}
    BY <2>1, <1>f, HoldersApart
  <2> QED
    BY <1>4, <1>9, <2>2, OwnIsMine
<1>10. b \notin MovedOn /\ MovedOn' = MovedOn \cup {b}
  <2>1. MovedOn = Own(t) \cup UNION {Own(u) : u \in Thread \ {t}}
    BY DEF MovedOn
  <2>2. MovedOn' = {b} \cup UNION {Own(u) : u \in Thread \ {t}}
    BY <1>8, OwnOthers
  <2> QED
    BY <1>8, <1>9, <2>1, <2>2 DEF MovedOn
<1>11. \A c \in MovedOn : buf'[c] = buf[c]
  BY <1>7, OwnIsMine DEF MovedOn
<1>12. buf'[b] = buf[b]
  BY <1>4, <1>7
<1> DEFINE P == PacketsOf(buf)
           Q == PacketsOf(buf')
           D == PacketsMoved
           E == PacketsMoved'
<1>13. P \in [Buffer -> Nat] /\ Q \in [Buffer -> Nat] /\ Total(P) \in Nat /\ Total(Q) \in Nat
  BY <1>f, PacketsNat
<1>14. D = [c \in Buffer |-> IF c \in MovedOn THEN P[c] ELSE 0]
       /\ E = [c \in Buffer |-> IF c \in MovedOn' THEN Q[c] ELSE 0]
  BY DEF PacketsMoved
<1>15. /\ P[b] = buf[b].n /\ Q[b] = buf[b].n
       /\ \A c \in MovedOn \cap Buffer : Q[c] = P[c]
  BY <1>4, <1>11, <1>12 DEF PacketsOf
<1>16. InBuffers \in [Buffer -> Nat] /\ InBuffers' \in [Buffer -> Nat]
       /\ Total(InBuffers) \in Nat /\ Total(InBuffers') \in Nat
  BY <1>f DEF Parts
<1>17. InBuffers = [c \in Buffer |-> IF c \in MovedOn THEN 0 ELSE P[c]]
       /\ InBuffers' = [c \in Buffer |-> IF c \in MovedOn' THEN 0 ELSE Q[c]]
  BY InBuffersIs, InBuffersNext
<1> HIDE DEF P, Q, D, E
<1>18. D \in [Buffer -> Nat] /\ E \in [Buffer -> Nat]
  BY <1>13, <1>14
<1>19. Total(P) = Total(InBuffers) + Total(D)
  <2>1. PICK i \in [Buffer -> Nat], d \in [Buffer -> Nat], p \in [Buffer -> Nat] : i = InBuffers /\ d = D /\ p = P
    BY <1>13, <1>16, <1>18
  <2>2. \A x \in Buffer : p[x] = i[x] + d[x]
    BY <2>1, <1>14, <1>17, <1>13
  <2>3. Total(p) = Total(i) + Total(d)
    BY <2>2, TotalPlus, FiniteSets
  <2> QED
    BY <2>1, <2>3
<1>20. Total(Q) = Total(InBuffers') + Total(E)
  <2>1. PICK i \in [Buffer -> Nat], d \in [Buffer -> Nat], p \in [Buffer -> Nat] : i = InBuffers' /\ d = E /\ p = Q
    BY <1>13, <1>16, <1>18
  <2>2. \A x \in Buffer : p[x] = i[x] + d[x]
    BY <2>1, <1>14, <1>17, <1>13
  <2>3. Total(p) = Total(i) + Total(d)
    BY <2>2, TotalPlus, FiniteSets
  <2> QED
    BY <2>1, <2>3
<1>21. Total(E) = Total(D) + buf[b].n /\ Total(D) \in Nat /\ Total(E) \in Nat
  <2>1. \A c \in Buffer \ {b} : E[c] = D[c]
    BY <1>10, <1>14, <1>15
  <2>2. D[b] = 0 /\ E[b] = buf[b].n
    BY <1>4, <1>10, <1>14, <1>15
  <2>3. PICK d \in [Buffer -> Nat], e \in [Buffer -> Nat] : d = D /\ e = E
    BY <1>18
  <2>4. Total(e) + d[b] = Total(d) + e[b] /\ Total(d) \in Nat /\ Total(e) \in Nat
    <3>1. \A c \in Buffer \ {b} : e[c] = d[c]
      BY <2>1, <2>3
    <3> QED
      BY <3>1, <1>4, TotalChange, FiniteSets
  <2> QED
    BY <2>2, <2>3, <2>4
<1>22. Total(InBuffers') + k = Total(InBuffers)
  <2>1. Total(Q) + k = Total(P) + buf[b].n
    BY <1>5 DEF P, Q
  <2> QED
    BY <2>1, <1>4, <1>13, <1>16, <1>19, <1>20, <1>21
<1>23. Total(doneNow') = Total(doneNow) + k
  <2>1. doneNow[t] = 0
    BY <1>2 DEF Amounts
  <2>2. Total(doneNow') + doneNow[t] = Total(doneNow) + k
    BY <1>5, DoneChange
  <2>3. Total(doneNow) \in Nat /\ Total(doneNow') \in Nat
    BY <1>f DEF Parts
  <2> QED
    BY <2>1, <2>2, <2>3
<1>24. DiscreteLeft' = DiscreteLeft /\ ContinuousLeft' = ContinuousLeft
  <2>1. ~ EmitDiscrete(t) /\ ~ StartEmission(t)
    BY <1>2 DEF EmitDiscrete, StartEmission, Executes
  <2> QED
    BY <2>1, WaitingStep, LeftSame
<1>25. BeingEmitted' = BeingEmitted /\ InBlocks' = InBlocks
  BY <1>2, EmittedSame DEF InBlocks
<1>26. /\ Total(doneNow) \in Nat /\ Total(doneNow') \in Nat
       /\ Total(DiscreteLeft) \in Nat /\ Total(ContinuousLeft) \in Nat
       /\ Total(BeingEmitted) \in Nat /\ Total(InBlocks) \in Nat /\ numDone \in Nat
  BY <1>f DEF Parts
<1> QED
  BY <1>2, <1>16, <1>22, <1>23, <1>24, <1>25, <1>26 DEF Balance

(* Every step keeps the balance. *)
LEMMA BalanceStep ==
  ASSUME IInv, Amounts, BatchesOnce, Room, Parts', MemoryType', NEW t \in Thread, Others(t), Step(t)
  PROVE  Balance' = Balance
<1>f. Functions /\ AtPlace(pc[t], cur[t], adding[t], pos[t])
  BY DEF IInv, Control
<1>1. CASE \/ GetTask(t) \/ GetNothing(t) \/ While(t) \/ ReadLargest(t) \/ LaunchFails(t)
           \/ LaunchNothing(t) \/ LeaveSubgrid(t) \/ Launch(t) \/ LaunchDone(t)
  <2>1. /\ buf' = buf /\ cont' = cont /\ doneNow' = doneNow /\ numDone' = numDone
        /\ pc[t] \notin {"exec", "emit", "emit add", "count", "free"}
    BY <1>1 DEF GetTask, GetNothing, While, ReadLargest, LaunchFails, LaunchNothing,
       LeaveSubgrid, Launch, LaunchDone, Looking, memory, source
  <2>2. pc'[t] \notin {"emit", "emit add", "count", "free"}
    BY <1>1, <1>f DEF GetTask, GetNothing, While, ReadLargest, LaunchFails, LaunchNothing,
       LeaveSubgrid, Launch, LaunchDone, Looking, NextSubgrid, Goto, Functions
  <2>3. ~ EmitDiscrete(t) /\ ~ StartEmission(t)
    BY <2>1 DEF EmitDiscrete, StartEmission, Executes
  <2> QED
    BY <2>1, <2>2, <2>3, BalanceSame
<1>2. CASE \/ CheckLeft(t) \/ AddFlush(t) \/ AddFlushed(t) \/ Finish(t)
           \/ AddTask(t) \/ TestEmpty(t) \/ TestDone(t)
  <2>1. /\ buf' = buf /\ cont' = cont /\ doneNow' = doneNow /\ numDone' = numDone
        /\ pc[t] \notin {"exec", "emit", "emit add", "count", "free"}
    BY <1>2 DEF CheckLeft, AddFlush, AddFlushed, Finish, AddTask, TestEmpty, TestDone, memory, source
  <2>2. pc'[t] \notin {"emit", "emit add", "count", "free"}
    BY <1>2, <1>f DEF CheckLeft, AddFlush, AddFlushed, Finish, AddTask, TestEmpty, TestDone, Goto, Functions
  <2>3. ~ EmitDiscrete(t) /\ ~ StartEmission(t)
    BY <2>1 DEF EmitDiscrete, StartEmission, Executes
  <2> QED
    BY <2>1, <2>2, <2>3, BalanceSame
<1>3. CASE EmitDiscrete(t)
  BY <1>3, EmitDiscreteBalance
<1>4. CASE StartEmission(t)
  BY <1>4, StartEmissionBalance
<1>5. CASE EmitPacket(t)
  BY <1>5, EmitPacketBalance
<1>6. CASE EmissionDone(t) \/ AddEmitted(t)
  BY <1>6, EmissionDoneBalance
<1>7. CASE Flush(t)
  BY <1>7, FlushBalance
<1>8. CASE Traverse(t)
  BY <1>8, TraverseBalance
<1>9. CASE Reemit(t)
  BY <1>9, ReemitBalance
<1>10. CASE Count(t)
  BY <1>10, CountBalance
<1>11. CASE FreeInput(t)
  BY <1>11, FreeInputBalance
<1> QED
  BY <1>1, <1>2, <1>3, <1>4, <1>5, <1>6, <1>7, <1>8, <1>9, <1>10, <1>11 DEF Step

(* In the beginning all packets are in batches that wait. *)
LEMMA CInvInit == Init => CInv
<1> SUFFICES ASSUME Init PROVE CInv
  OBVIOUS
<1>1. IInv
  BY IInvInit
<1>2. Amounts
  BY DEF Init, Amounts
<1>3. BatchesOnce
  BY Batches DEF Init, BatchesOnce
<1>4. Loaded
  BY DEF Init, Loaded, Used
<1>5. Parts
  BY <1>1, <1>2, PartsHold
<1>6. DiscreteLeft = [s \in Discrete |-> s.n] /\ ContinuousLeft = [s \in Continuous |-> s.n]
  <2>1. (\A s \in Discrete : Waiting(DiscreteTask(s))) /\ \A s \in Continuous : Waiting(ContinuousTask(s))
    BY DEF Init, Waiting
  <2> QED
    BY <2>1 DEF DiscreteLeft, ContinuousLeft
<1>7. Total(DiscreteLeft) = Emitted /\ Total(ContinuousLeft) = Incoming
  BY <1>6 DEF Emitted, Incoming
<1>8. Total(BeingEmitted) = 0
  <2>1. \A t \in Thread : BeingEmitted[t] = 0
    BY DEF Init, BeingEmitted
  <2> QED
    BY <2>1, <1>5, TotalZero, FiniteSets DEF Parts
<1>9. Total(InBlocks) = 0
  <2>1. \A k \in Block : InBlocks[k] = 0
    <3> SUFFICES ASSUME NEW k \in Block PROVE Sum(cont[k], Grid) = 0
      BY DEF InBlocks
    <3>1. cont[k] \in [Grid -> Nat] /\ (\A g \in Grid : cont[k][g] = 0) /\ DOMAIN cont[k] = Grid
      BY DEF Init
    <3>2. Total(cont[k]) = 0
      BY <3>1, TotalZero, FiniteSets
    <3> QED
      BY <3>1, <3>2 DEF Total
  <2> QED
    BY <2>1, <1>5, TotalZero, FiniteSets DEF Parts
<1>10. Total(InBuffers) = 0
  <2>1. \A b \in Buffer : InBuffers[b] = 0
    BY DEF Init, InBuffers
  <2> QED
    BY <2>1, <1>5, TotalZero, FiniteSets DEF Parts
<1>11. Total(doneNow) = 0 /\ numDone = 0
  <2>1. doneNow \in [Thread -> Nat] /\ \A t \in Thread : doneNow[t] = 0
    BY DEF Init
  <2>2. PICK f \in [Thread -> Nat] : f = doneNow
    BY <2>1
  <2>3. Total(f) = 0
    BY <2>1, <2>2, TotalZero, FiniteSets
  <2> QED
    BY <2>2, <2>3 DEF Init
<1>12. Conserved
  BY <1>5, <1>7, <1>8, <1>9, <1>10, <1>11 DEF Conserved, Parts
<1> QED
  BY <1>1, <1>2, <1>3, <1>4, <1>12 DEF CInv

(* Every step keeps the invariant, as long as there is room. *)
LEMMA CInvNext == CInv /\ Room /\ [Next]_vars => CInv'
<1> SUFFICES ASSUME CInv, Room, [Next]_vars PROVE CInv'
  OBVIOUS
<1>1. IInv'
  BY IInvNext DEF CInv
<1>2. ASSUME NEW t \in Thread, Step(t) PROVE CInv'
  <2>1. Others(t)
    BY <1>2, StepOthers DEF CInv, IInv, Control
  <2>2. Amounts'
    BY <1>2, <2>1, AmountsStep DEF CInv
  <2>3. BatchesOnce' /\ Loaded'
    BY <1>2, <2>1, BatchesStep, LoadedStep DEF CInv
  <2>4. Parts' /\ MemoryType'
    BY <1>1, <2>2, PartsNext DEF IInv, InMemory
  <2>5. Balance' = Balance
    BY <1>2, <2>1, <2>4, BalanceStep DEF CInv
  <2>6. Conserved'
    BY <2>5 DEF CInv, Conserved, Balance
  <2> QED
    BY <1>1, <2>2, <2>3, <2>6 DEF CInv
<1>3. CASE UNCHANGED vars
  <2>1. Amounts' /\ BatchesOnce' /\ Loaded'
    BY <1>3 DEF vars, memory, source, CInv, Amounts, BatchesOnce, Loaded, Used, Emptied
  <2>2. Conserved'
    <3>1. /\ DiscreteLeft' = DiscreteLeft /\ ContinuousLeft' = ContinuousLeft
          /\ BeingEmitted' = BeingEmitted /\ InBlocks' = InBlocks
          /\ InBuffers' = InBuffers /\ doneNow' = doneNow /\ numDone' = numDone
      BY <1>3 DEF vars, memory, source, DiscreteLeft, ContinuousLeft, BeingEmitted, InBlocks,
         InBuffers, Waiting, Moved
    <3> QED
      BY <3>1 DEF CInv, Conserved
  <2> QED
    BY <1>1, <2>1, <2>2 DEF CInv
<1> QED
  BY <1>2, <1>3 DEF Next

-----------------------------------------------------------------------------
(* Packets are conserved. *)

(* The invariant holds as long as there is room. *)
LEMMA ConservedInvariant == Spec /\ []Room => []CInv
  BY CInvInit, CInvNext, PTL DEF Spec

(* As long as the memory space is not exhausted no packet is lost or       *)
(* counted twice (property Conserved): split over buffers, copied when     *)
(* they overflow, launched early, reemitted, emitted one by one, flushed,  *)
(* and counted before their buffer is freed.                               *)
THEOREM PacketsConserved == Spec /\ []Room => []Conserved
<1>1. CInv => Conserved
  BY DEF CInv
<1> QED
  BY <1>1, ConservedInvariant, PTL

-----------------------------------------------------------------------------
(* The buffers in use. *)

(* A buffer in use has packets that are not accounted for elsewhere, or is *)
(* the input of a thread that is about to free it.                         *)
LEMMA UsedBuffers ==
  ASSUME CInv, NEW b \in Used(buf)
  PROVE  InBuffers[b] > 0 \/ \E t \in Thread : pc[t] \in {"count", "free"} /\ cur[t].of = b
<1>1. b \in Buffer /\ buf[b] # None /\ buf[b] \in PhotonBuffer
  BY HoldersApart DEF CInv, IInv
<1>2. InBuffers[b] = IF b \in MovedOn THEN 0 ELSE buf[b].n
  BY <1>1, InBuffersIs DEF PacketsOf
<1>3. CASE b \in MovedOn
  BY <1>3 DEF MovedOn, Own, Moved
<1>4. CASE b \notin MovedOn /\ buf[b].n = 0
  BY <1>4 DEF CInv, Loaded, Emptied
<1>5. CASE b \notin MovedOn /\ buf[b].n # 0
  BY <1>1, <1>2, <1>5, SizeAssumption DEF PhotonBuffer
<1> QED
  BY <1>3, <1>4, <1>5

-----------------------------------------------------------------------------
(* The end of an iteration. *)

(* A lock that is taken is one that a thread has. *)
LocksHad == \A l \in Lock : locked[l] => \E t \in Thread : l \in Locks(t)

(* The flag goes down when all packets are counted, and only then do       *)
(* threads leave.                                                          *)
Down ==
  /\ ~ flag => numDone = Target
  /\ \A t \in Thread : pc[t] = "exit" => ~ flag

(* No lock is forgotten. *)
LEMMA LocksHadStep ==
  ASSUME IInv, LocksHad, NEW t \in Thread, Others(t), Step(t)
  PROVE  LocksHad'
<1>f. Functions /\ AtPlace(pc[t], cur[t], adding[t], pos[t]) /\ queued \subseteq Task
      /\ locked \in [Lock -> BOOLEAN]
  BY DEF IInv, Control, Locking, InMemory, MemoryType
<1>u. \A u \in Thread \ {t} : Locks(u)' = Locks(u)
  BY DEF Others, Locks
<1>n. None \notin Lock /\ None \notin Task /\ \A x \in Task : x.dep \in Lock \cup {None}
  BY NoneAssumption, TaskKinds
<1>1. ASSUME NEW X \in SUBSET Lock,
             \A l \in Lock : locked'[l] => l \in X \/ (locked[l] /\ l \notin Locks(t)),
             X \subseteq Locks(t)'
      PROVE  LocksHad'
  <2> SUFFICES ASSUME NEW l \in Lock, locked'[l] PROVE \E u \in Thread : l \in Locks(u)'
    BY DEF LocksHad
  <2>1. CASE l \in X
    BY <2>1, <1>1
  <2>2. CASE locked[l] /\ l \notin Locks(t)
    <3>1. PICK u \in Thread : l \in Locks(u)
      BY <2>2 DEF LocksHad
    <3> QED
      BY <2>2, <3>1, <1>u
  <2> QED
    BY <2>1, <2>2, <1>1
<1>2. ASSUME locked' = locked, cur' = cur, pc[t] \notin {"launched", "nothing"} PROVE LocksHad'
  <2>1. Locks(t) \subseteq Locks(t)' /\ Locks(t) \in SUBSET Lock
    BY <1>2 DEF Locks
  <2>2. \A l \in Lock : locked'[l] => l \in Locks(t) \/ (locked[l] /\ l \notin Locks(t))
    BY <1>2
  <2>3. PICK X \in SUBSET Lock : X = Locks(t)
    BY <2>1
  <2> QED
    BY <2>1, <2>2, <2>3, <1>1
<1>3. CASE GetTask(t)
  <2>1. PICK x \in queued :
          /\ locked' = Take(x) /\ cur' = [cur EXCEPT ![t] = x] /\ pc[t] \in Looking
    BY <1>3 DEF GetTask
  <2>2. cur'[t] = x /\ x \in Task /\ x # None /\ cur[t] = None
    BY <2>1, <1>f, <1>n DEF Functions, AtPlace, Looking
  <2>3. Locks(t) = {}
    BY <2>1, <2>2 DEF Locks, Looking
  <2>4. PICK X \in SUBSET Lock : X = {x.dep} \cap Lock
    OBVIOUS
  <2>5. X \subseteq Locks(t)'
    BY <2>2, <2>4 DEF Locks
  <2>6. \A l \in Lock : locked'[l] => l \in X \/ locked[l]
    BY <2>1, <2>4, <1>f DEF Take
  <2> QED
    BY <2>3, <2>5, <2>6, <1>1
<1>4. CASE Launch(t) \/ LaunchNothing(t)
  <2>1. /\ pos[t][2] \in Lock /\ cur[t] = None /\ pc[t] = "trylock"
    BY <1>4, <1>f DEF Launch, LaunchNothing, AtPlace, Lock
  <2>2. pc'[t] \in {"launched", "nothing"} /\ cur' = cur /\ pos' = pos
        /\ locked' = [locked EXCEPT ![pos[t][2]] = TRUE]
    BY <1>4, <1>f DEF Launch, LaunchNothing, Goto, Functions
  <2>3. Locks(t) = {}
    BY <2>1 DEF Locks
  <2>4. PICK X \in SUBSET Lock : X = {pos[t][2]}
    BY <2>1
  <2>5. X \subseteq Locks(t)'
    BY <2>1, <2>2, <2>4 DEF Locks
  <2>6. \A l \in Lock : locked'[l] => l \in X \/ locked[l]
    BY <2>2, <2>4, <1>f
  <2> QED
    BY <2>3, <2>5, <2>6, <1>1
<1>5. CASE LaunchDone(t) \/ LeaveSubgrid(t)
  <2>1. pos[t][2] \in Lock /\ cur[t] = None /\ Locks(t) = {pos[t][2]}
    BY <1>5, <1>f DEF LaunchDone, LeaveSubgrid, AtPlace, Lock, Locks
  <2>2. locked' = [locked EXCEPT ![pos[t][2]] = FALSE]
    BY <1>5 DEF LaunchDone, LeaveSubgrid
  <2>3. \A l \in Lock : locked'[l] => locked[l] /\ l \notin Locks(t)
    BY <2>1, <2>2, <1>f
  <2>4. PICK X \in SUBSET Lock : X = {}
    OBVIOUS
  <2> QED
    BY <2>3, <2>4, <1>1
<1>6. CASE Finish(t)
  <2>1. cur[t] \in Task /\ pc[t] = "finish" /\ locked' = Give(cur[t])
    BY <1>6, <1>f DEF Finish, AtPlace
  <2>2. Locks(t) = {cur[t].dep} \cap Lock
    BY <2>1, <1>n DEF Locks
  <2>3. \A l \in Lock : locked'[l] => locked[l] /\ l \notin Locks(t)
    BY <2>1, <2>2, <1>n, <1>f DEF Give
  <2>4. PICK X \in SUBSET Lock : X = {}
    OBVIOUS
  <2> QED
    BY <2>3, <2>4, <1>1
<1>7. CASE GetNothing(t) \/ While(t) \/ ReadLargest(t) \/ LaunchFails(t)
  BY <1>7, <1>2 DEF GetNothing, While, ReadLargest, LaunchFails, Looking
<1>8. CASE EmitDiscrete(t) \/ Traverse(t) \/ Reemit(t) \/ Count(t) \/ FreeInput(t)
  <2>1. cur' = cur /\ locked' = locked /\ pc[t] \notin {"launched", "nothing"}
    BY <1>8 DEF EmitDiscrete, Traverse, Reemit, Count, FreeInput, Executes
  <2> QED
    BY <2>1, <1>2
<1>9. CASE StartEmission(t) \/ EmitPacket(t) \/ AddEmitted(t) \/ EmissionDone(t) \/ CheckLeft(t)
  BY <1>9, <1>2 DEF StartEmission, EmitPacket, AddEmitted, EmissionDone, CheckLeft, Executes
<1>10. CASE AddFlush(t) \/ Flush(t) \/ AddFlushed(t) \/ AddTask(t) \/ TestEmpty(t) \/ TestDone(t)
  BY <1>10, <1>2 DEF AddFlush, Flush, AddFlushed, AddTask, TestEmpty, TestDone, Executes
<1> QED
  BY <1>3, <1>4, <1>5, <1>6, <1>7, <1>8, <1>9, <1>10 DEF Step

(* No packet is counted once the flag is down: there are none left. *)
LEMMA DownStep ==
  ASSUME CInv, CInv', Down, Target = Emitted + Incoming, NEW t \in Thread, Others(t), Step(t)
  PROVE  Down'
<1>f. Functions /\ Parts /\ Parts'
  <2>1. Parts /\ Parts'
    BY PartsHold, PartsNext DEF CInv
  <2> QED
    BY <2>1 DEF CInv, IInv, Control
<1>u. \A u \in Thread \ {t} : pc'[u] = pc[u]
  BY DEF Others
<1>1. numDone' = numDone \/ Count(t)
  BY DEF Step, GetTask, GetNothing, While, ReadLargest, LaunchFails, LaunchNothing, LeaveSubgrid, Launch, LaunchDone,
     EmitDiscrete, Traverse, Reemit, FreeInput, StartEmission, EmitPacket, AddEmitted, EmissionDone,
     CheckLeft, AddFlush, Flush, AddFlushed, Finish, AddTask, TestEmpty, TestDone
<1>2. flag' = flag \/ TestDone(t)
  BY DEF Step, GetTask, GetNothing, While, ReadLargest, LaunchFails, LaunchNothing, LeaveSubgrid, Launch, LaunchDone,
     EmitDiscrete, Traverse, Reemit, Count, FreeInput, StartEmission, EmitPacket, AddEmitted, EmissionDone,
     CheckLeft, AddFlush, Flush, AddFlushed, Finish, AddTask, TestEmpty
<1>3. pc'[t] = "exit" => ~ flag
  <2> SUFFICES ASSUME pc'[t] = "exit", flag PROVE FALSE
    OBVIOUS
  <2>1. pc[t] # "exit"
    BY DEF Down
  <2> QED
    BY <2>1, <1>f DEF Step, GetTask, GetNothing, While, ReadLargest, LaunchFails, NextSubgrid, LaunchNothing,
     LeaveSubgrid, Launch, LaunchDone,
     EmitDiscrete, Traverse, Reemit, Count, FreeInput, StartEmission, EmitPacket, AddEmitted, EmissionDone,
     CheckLeft, AddFlush, Flush, AddFlushed, Finish, AddTask, TestEmpty, TestDone, Goto, Functions
<1>4. ~ flag => ~ flag'
  BY <1>2 DEF TestDone
<1>5. ~ flag' => numDone' = Target
  <2>1. CASE TestDone(t)
    <3>1. numDone' = numDone /\ flag' = (flag /\ ~ (numDone = Target))
      BY <2>1 DEF TestDone, AllDone
    <3> QED
      BY <3>1 DEF Down
  <2>2. CASE ~ TestDone(t)
    <3> SUFFICES ASSUME ~ flag PROVE numDone' = Target
      BY <2>2, <1>2
    <3>1. numDone = Target
      BY DEF Down
    <3>2. CASE numDone' = numDone
      BY <3>1, <3>2
    <3>3. CASE Count(t)
      <4>1. numDone' = numDone + doneNow[t] /\ doneNow[t] \in Nat
        BY <3>3 DEF Count, CInv, Amounts
      <4>2. numDone' <= Emitted + Incoming
        BY <1>f DEF Parts, CInv, Conserved
      <4>3. numDone \in Nat /\ numDone' \in Nat
        BY <1>f DEF Parts
      <4> QED
        BY <3>1, <4>1, <4>2, <4>3
    <3> QED
      BY <3>2, <3>3, <1>1
  <2> QED
    BY <2>1, <2>2
<1> QED
  BY <1>3, <1>4, <1>5, <1>u DEF Down

(* The invariant of the end of an iteration. *)
EInv == CInv /\ LocksHad /\ Down

(* It holds as long as there is room. *)
LEMMA EndInvariant ==
  ASSUME Target = Emitted + Incoming
  PROVE  Spec /\ []Room => []EInv
<1>1. Init => EInv
  <2>1. Init => LocksHad
    BY DEF Init, LocksHad
  <2>2. Init => Down
    BY DEF Init, Down
  <2> QED
    BY <2>1, <2>2, CInvInit DEF EInv
<1>2. EInv /\ Room /\ [Next]_vars => EInv'
  <2> SUFFICES ASSUME EInv, Room, [Next]_vars PROVE EInv'
    OBVIOUS
  <2>1. CInv'
    BY CInvNext DEF EInv
  <2>2. ASSUME NEW t \in Thread, Step(t) PROVE LocksHad' /\ Down'
    <3>1. Others(t)
      BY <2>2, StepOthers DEF EInv, CInv, IInv, Control
    <3>2. LocksHad'
      BY <2>2, <3>1, LocksHadStep DEF EInv, CInv
    <3>3. Down'
      BY <2>1, <2>2, <3>1, DownStep DEF EInv
    <3> QED
      BY <3>2, <3>3
  <2>3. CASE UNCHANGED vars
    BY <2>1, <2>3 DEF vars, EInv, LocksHad, Locks, Down
  <2>4. CASE \E t \in Thread : Step(t)
    BY <2>1, <2>2, <2>4 DEF EInv
  <2> QED
    BY <2>3, <2>4 DEF Next
<1> QED
  BY <1>1, <1>2, PTL DEF Spec

(* When all threads have left all packets are counted, so that there are   *)
(* none anywhere else.                                                     *)
LEMMA NoneLeft ==
  ASSUME EInv, Target = Emitted + Incoming, AllExit
  PROVE  /\ numDone = Target /\ Used(buf) = {}
         /\ \A k \in Block, g \in Grid : cont[k][g] = 0
         /\ \A x \in Batch : ~ Waiting(x)
<1>1. Parts
  BY PartsHold DEF EInv, CInv
<1>2. numDone = Target
  <2>1. PICK t \in Thread : pc[t] = "exit"
    BY ThreadAssumption DEF AllExit
  <2> QED
    BY <2>1 DEF EInv, Down
<1>3. /\ Total(DiscreteLeft) = 0 /\ Total(ContinuousLeft) = 0
      /\ Total(InBlocks) = 0 /\ Total(InBuffers) = 0
  <2>1. Target \in Nat
    BY SizeAssumption
  <2>2. Balance = Target
    BY DEF Balance, EInv, CInv, Conserved
  <2>3. /\ Total(DiscreteLeft) \in Nat /\ Total(ContinuousLeft) \in Nat /\ Total(BeingEmitted) \in Nat
        /\ Total(InBlocks) \in Nat /\ Total(InBuffers) \in Nat /\ Total(doneNow) \in Nat
    BY <1>1 DEF Parts
  <2> QED
    BY <1>2, <2>1, <2>2, <2>3 DEF Balance
<1>4. Used(buf) = {}
  <2> SUFFICES ASSUME NEW b \in Used(buf) PROVE FALSE
    OBVIOUS
  <2>1. InBuffers[b] > 0
    BY UsedBuffers DEF EInv, AllExit
  <2>2. InBuffers[b] <= Total(InBuffers) /\ InBuffers[b] \in Nat
    BY <1>1, TotalBound, FiniteSets DEF Parts, Used
  <2> QED
    BY <2>1, <2>2, <1>3
<1>5. ASSUME NEW k \in Block, NEW g \in Grid PROVE cont[k][g] = 0
  <2>1. cont[k] \in [Grid -> Nat] /\ DOMAIN cont[k] = Grid
    <3>1. cont \in [Block -> [Grid -> 0 .. Capacity - 1]]
      BY DEF EInv, CInv, IInv, InMemory, MemoryType
    <3> QED
      BY <3>1, SizeAssumption
  <2>2. cont[k][g] <= Total(cont[k]) /\ Total(cont[k]) \in Nat
    BY <2>1, TotalBound, FiniteSets
  <2>3. InBlocks[k] <= Total(InBlocks) /\ InBlocks[k] \in Nat
    BY <1>1, TotalBound, FiniteSets DEF Parts
  <2>4. InBlocks[k] = Total(cont[k])
    BY <2>1 DEF InBlocks, Total
  <2>5. cont[k][g] \in Nat
    BY <2>1
  <2> QED
    BY <2>2, <2>3, <2>4, <2>5, <1>3
<1>6. ASSUME NEW x \in Batch PROVE ~ Waiting(x)
  <2> SUFFICES ASSUME Waiting(x) PROVE FALSE
    OBVIOUS
  <2>1. CASE \E s \in Discrete : x = DiscreteTask(s)
    <3>1. PICK s \in Discrete : x = DiscreteTask(s)
      BY <2>1
    <3>2. DiscreteLeft[s] = s.n /\ s.n \in 1 .. Capacity
      BY <3>1, SourceAssumption DEF DiscreteLeft
    <3>3. DiscreteLeft[s] <= 0
      BY <1>1, <1>3, TotalBound, FiniteSets DEF Parts
    <3> QED
      BY <3>2, <3>3
  <2>2. CASE \E s \in Continuous : x = ContinuousTask(s)
    <3>1. PICK s \in Continuous : x = ContinuousTask(s)
      BY <2>2
    <3>2. ContinuousLeft[s] = s.n /\ s.n \in 1 .. Capacity
      BY <3>1, SourceAssumption DEF ContinuousLeft
    <3>3. ContinuousLeft[s] <= 0
      BY <1>1, <1>3, TotalBound, FiniteSets DEF Parts
    <3> QED
      BY <3>2, <3>3
  <2> QED
    BY <2>1, <2>2 DEF Batch
<1> QED
  BY <1>2, <1>4, <1>5, <1>6

(* As long as the memory space is not exhausted, and if the number of      *)
(* packets that the threads wait for is the number of the source, no       *)
(* buffer is in use and no packet is left in a buffer of the continuous    *)
(* source when all threads have left the loop (property ExitFlushed).      *)
THEOREM EndsFlushed ==
  ASSUME Target = Emitted + Incoming
  PROVE  Spec /\ []Room => []ExitFlushed
<1>1. EInv => ExitFlushed
  BY NoneLeft DEF ExitFlushed
<1> QED
  BY <1>1, EndInvariant, PTL

(* With a discrete source only, there also is no task left in a queue or   *)
(* in the hands of a thread, and no lock is taken: the next iteration      *)
(* starts clean (property ExitClean).                                      *)
THEOREM EndsClean ==
  ASSUME Target = Emitted + Incoming, NBlock = 0
  PROVE  Spec /\ []Room => []ExitClean
<1>1. EInv => ExitClean
  <2> SUFFICES ASSUME EInv, AllExit
               PROVE  /\ Used(buf) = {} /\ queued = {} /\ (\A l \in Lock : ~ locked[l])
                      /\ \A t \in Thread : cur[t] = None
    BY DEF ExitClean
  <2>1. Used(buf) = {} /\ \A x \in Batch : ~ Waiting(x)
    BY NoneLeft
  <2>2. Block = {}
    BY SizeAssumption DEF Block
  <2>3. ASSUME NEW x \in Task PROVE x \in Batch \/ x \in Carrier
    BY <2>2, TaskKinds, Batches
  <2>4. ASSUME NEW x \in queued PROVE FALSE
    <3>1. x \in Task
      BY DEF EInv, CInv, IInv, InMemory, MemoryType
    <3>2. x \notin Batch
      BY <2>1 DEF Waiting
    <3>3. x.of \in BuffersOf(queued)
      BY <2>3, <3>1, <3>2 DEF BuffersOf
    <3> QED
      BY <2>1, <3>3, HoldersApart DEF EInv, CInv, IInv
  <2>5. ASSUME NEW t \in Thread, cur[t] # None PROVE FALSE
    <3>1. pc[t] = "exit" /\ cur[t] \in Task
      BY <2>5 DEF AllExit, EInv, CInv, IInv, Control, AtPlace
    <3>2. cur[t] \notin Batch
      BY <2>1, <3>1 DEF Waiting
    <3>3. InHand(t)
      BY <2>3, <3>1, <3>2 DEF InHand
    <3>4. cur[t].of \in Used(buf)
      BY <3>3, HandBuffer DEF EInv, CInv
    <3> QED
      BY <2>1, <3>4
  <2>6. ASSUME NEW l \in Lock, locked[l] PROVE FALSE
    <3>1. PICK t \in Thread : l \in Locks(t)
      BY <2>6 DEF EInv, LocksHad
    <3>2. cur[t] = None /\ pc[t] = "exit"
      BY <2>5 DEF AllExit
    <3> QED
      BY <3>1, <3>2 DEF Locks
  <2> QED
    BY <2>1, <2>4, <2>5, <2>6
<1> QED
  BY <1>1, EndInvariant, PTL
=============================================================================
