------------------------- MODULE TaskScheduler_proofs -------------------------
(***************************************************************************)
(* Proofs about TaskScheduler, for every number of threads, every graph of *)
(* tasks and every set of locks: the queues and the dependency locks, the  *)
(* place of every task and its counter of parents, the number of tasks,    *)
(* what is true when all threads have left, and the abstract task pool.    *)
(***************************************************************************)
EXTENDS TaskScheduler, FiniteSetTheorems, SequenceTheorems, TLAPS

(* Where a thread has a task, where it has the lock of a queue.            *)
HasTask == {"second", "back", "take", "claim", "exec", "unlock1", "unlock0",
            "child", "home", "add", "push", "incr"}

HasQueue == Scanning \cup {"push"}

(* The types of what the queues and locks depend on.  (The counters of     *)
(* parents are in CountersOpen, the number of tasks in CountOK.)           *)
Types ==
  /\ queue \in [Thread -> Seq(Task)]
  /\ qlock \in [Thread -> Thread \cup {NoThread}]
  /\ locked \in [Lock -> BOOLEAN]
  /\ owner \in [Lock -> Thread]
  /\ pc \in [Thread -> Label]
  /\ stage \in [Thread -> Stage]
  /\ cur \in [Thread -> Task \cup {NoTask}]
  /\ at \in [Thread -> Thread]
  /\ pos \in [Thread -> Nat]

(* A thread has a task where it needs one, with as many dependencies as it *)
(* is about to use, and a position in the list of its children.            *)
TaskOK ==
  \A t \in Thread :
    /\ pc[t] \in HasTask => cur[t] \in Task
    /\ pc[t] \in {"second", "back", "unlock1"} => Len(Deps[cur[t]]) = 2
    /\ pc[t] = "unlock0" => Len(Deps[cur[t]]) \in 1 .. 2
    /\ pc[t] \in {"home", "add", "push", "incr"} => pos[t] \in 1 .. Len(Children[cur[t]])

(* The lock of a queue, and the cursor of the thread that has it.          *)
QueueOK ==
  /\ \A t \in Thread : pc[t] \in HasQueue => qlock[at[t]] = t
  /\ \A t, q \in Thread : qlock[q] = t => q = at[t] /\ pc[t] \in HasQueue
  /\ \A t \in Thread : pc[t] \in Scanning => pos[t] <= Len(queue[at[t]])
  /\ \A t \in Thread :
       pc[t] \in {"second", "back", "take"} => pos[t] > 0 /\ queue[at[t]][pos[t]] = cur[t]

(* The two dependencies of a task that got both are not the same.          *)
TwoLocks ==
  \A t \in Thread :
    pc[t] \in {"take", "claim", "exec", "unlock1"} /\ Len(Deps[cur[t]]) = 2 =>
      Deps[cur[t]][1] # Deps[cur[t]][2]

-----------------------------------------------------------------------------
(* A set put in a sequence gives a sequence of its elements. *)
LEMMA SetToSeqType == ASSUME NEW S, IsFiniteSet(S)
                      PROVE  SetToSeq(S) \in Seq(S)
<1>1. PICK n \in Nat : ExistsBijection(1 .. n, S)
  BY FS_NatBijection
<1>2. n = Cardinality(S)
  BY <1>1, FS_CountingElements
<1>3. \E f \in [1 .. Cardinality(S) -> S] : IsInjective(f)
  BY <1>1, <1>2 DEF ExistsBijection, Bijection, Injection, IsInjective
<1>4. SetToSeq(S) \in [1 .. Cardinality(S) -> S]
  BY <1>3 DEF SetToSeq
<1> QED
  BY <1>1, <1>2, <1>4

(* What is left of a sequence without one of its elements. *)
LEMMA RemoveAtType == ASSUME NEW S, NEW s \in Seq(S), NEW i \in 1 .. Len(s)
                      PROVE  RemoveAt(s, i) \in Seq(S)
  BY DEF RemoveAt
(* A task has no dependency, one or two. *)
LEMMA DepsLength ==
  ASSUME NEW x \in Task
  PROVE  Deps[x] \in Seq(Lock) /\ Len(Deps[x]) \in 0 .. 2 /\ (Deps[x] = <<>> <=> Len(Deps[x]) = 0)
<1>1. Deps[x] \in Seq(Lock)
  BY DepsAssumption
<1>2. Len(Deps[x]) \in Nat /\ Len(Deps[x]) <= 2
  BY <1>1, DepsAssumption, LenProperties
<1>3. Deps[x] # <<>> => Len(Deps[x]) \in Nat \ {0}
  BY <1>1, EmptySeq, Zenon
<1>4. Deps[x] = <<>> => Len(Deps[x]) = 0
  OBVIOUS
<1>5. Deps[x] = <<>> <=> Len(Deps[x]) = 0
  BY <1>3, <1>4
<1>6. \A n \in Nat : n <= 2 => n \in 0 .. 2
  OBVIOUS
<1> QED
  BY <1>1, <1>2, <1>5, <1>6, Zenon

-----------------------------------------------------------------------------
(* The first tasks are in the queues of the threads that own them.         *)
LEMMA TypesInit == Init => Types /\ TaskOK /\ QueueOK /\ TwoLocks
<1> SUFFICES ASSUME Init PROVE Types /\ TaskOK /\ QueueOK /\ TwoLocks
  OBVIOUS
<1>1. ASSUME NEW q \in Thread
      PROVE  SetToSeq({x \in Roots : Home(x) = q}) \in Seq(Task)
  <2> DEFINE S == {x \in Roots : Home(x) = q}
  <2>1. S \subseteq Task /\ IsFiniteSet(S)
    BY TaskAssumption, FS_Subset DEF Roots
  <2>2. SetToSeq(S) \in Seq(S)
    BY <2>1, SetToSeqType
  <2>3. Seq(S) \subseteq Seq(Task)
    BY <2>1
  <2> QED
    BY <2>2, <2>3
<1>2. queue \in [Thread -> Seq(Task)]
  BY <1>1 DEF Init
<1>3. 0 \in Nat /\ NoThread \notin Thread
  BY DEF NoThread, Thread
<1>4. Types
  BY <1>2, <1>3 DEF Init, Types, Label, Stage
<1>5. TaskOK /\ TwoLocks
  BY <1>4 DEF Init, TaskOK, TwoLocks, HasTask
<1>6. QueueOK
  BY <1>3, <1>4 DEF Init, QueueOK, HasQueue, Scanning
<1> QED
  BY <1>4, <1>5, <1>6

(* A scan that is started has the lock of its queue, and its cursor at the *)
(* end.                                                                    *)
LEMMA ScanStarts ==
  ASSUME NEW t \in Thread, NEW q \in Thread, NEW s \in Stage, Types, TaskOK, QueueOK,
         StartScan(t, q, s), pc[t] \notin HasTask \cup HasQueue
  PROVE  Types' /\ TaskOK' /\ QueueOK'
<1>1. Types'
  BY DEF Types, StartScan, Goto, Label
<1>2. TaskOK'
  BY DEF Types, StartScan, Goto, TaskOK, HasTask
<1>3. QueueOK'
  BY DEF Types, StartScan, Goto, QueueOK, HasTask, HasQueue, Scanning, NoThread, Thread
<1> QED
  BY <1>1, <1>2, <1>3

(* Every step keeps the types, the tasks of the threads, and the order of  *)
(* the queues: a cursor stays on its task because nobody else has the lock *)
(* of the queue.                                                           *)
LEMMA TypesStep ==
  ASSUME NEW t \in Thread, Types, TaskOK, QueueOK, Step(t)
  PROVE  Types' /\ TaskOK' /\ QueueOK'
<1> USE DEF Goto, shared
<1>1. CASE Loop(t)
  BY <1>1 DEF Loop, Types, TaskOK, QueueOK, HasTask, HasQueue, Scanning, Label
<1>2. CASE GetOwn(t)
  BY <1>2, ScanStarts DEF GetOwn, Stage, HasTask, HasQueue, Scanning
<1>3. CASE ReadSize(t)
  <2>1. (pos[t] + 1) % NThread \in Nat
    BY ThreadAssumption DEF Types
  <2>2. Types'
    BY <1>3, <2>1 DEF ReadSize, Types, Label
  <2>3. TaskOK'
    BY <1>3 DEF ReadSize, Types, TaskOK, HasTask
  <2>4. QueueOK'
    BY <1>3 DEF ReadSize, Types, QueueOK, HasQueue, Scanning
  <2> QED
    BY <2>2, <2>3, <2>4
<1>4. ASSUME NEW q \in Thread, TryQueue(t, q) PROVE Types' /\ TaskOK' /\ QueueOK'
  <2>1. CASE StartScan(t, q, "steal")
    BY <1>4, <2>1, ScanStarts DEF TryQueue, Stage, HasTask, HasQueue, Scanning
  <2>2. CASE UNCHANGED <<shared, pc, stage, cur, at, pos>>
    BY <2>2 DEF Types, TaskOK, QueueOK
  <2> QED
    BY <1>4, <2>1, <2>2 DEF TryQueue
<1>5. CASE NothingToSteal(t)
  BY <1>5 DEF NothingToSteal, Types, TaskOK, QueueOK, HasTask, HasQueue, Scanning, Label
<1>6. CASE ScanTask(t)
  <2> DEFINE x == queue[at[t]][pos[t]]
  <2>1. x \in Task /\ pos[t] > 0 /\ pos[t] <= Len(queue[at[t]])
    BY <1>6 DEF ScanTask, Types, QueueOK, Scanning
  <2>2. Deps[x] \in Seq(Lock) /\ Len(Deps[x]) \in 0 .. 2
        /\ (Deps[x] = <<>> <=> Len(Deps[x]) = 0)
    BY <2>1, DepsLength
  <2>3. UNCHANGED <<queue, qlock, owner, stage, at>> /\ pc[t] = "scan"
    BY <1>6 DEF ScanTask
  <2>4. CASE /\ Deps[x] = <<>>
             /\ cur' = [cur EXCEPT ![t] = x]
             /\ pc' = [pc EXCEPT ![t] = "take"]
             /\ UNCHANGED <<locked, pos>>
    <3>1. Types'
      BY <2>1, <2>3, <2>4 DEF Types, Label
    <3>2. TaskOK'
      BY <2>1, <2>3, <2>4 DEF Types, TaskOK, HasTask
    <3>3. QueueOK'
      BY <2>1, <2>3, <2>4 DEF Types, QueueOK, HasQueue, Scanning
    <3> QED
      BY <3>1, <3>2, <3>3
  <2>5. CASE /\ Deps[x] # <<>>
             /\ locked' = [locked EXCEPT ![Deps[x][1]] = TRUE]
             /\ cur' = [cur EXCEPT ![t] = x]
             /\ pc' = [pc EXCEPT ![t] = IF Len(Deps[x]) = 1 THEN "take" ELSE "second"]
             /\ UNCHANGED pos
    <3>1. Types'
      BY <2>1, <2>3, <2>5 DEF Types, Label
    <3>2. TaskOK'
      BY <2>1, <2>2, <2>3, <2>5 DEF Types, TaskOK, HasTask
    <3>3. QueueOK'
      BY <2>1, <2>3, <2>5 DEF Types, QueueOK, HasQueue, Scanning
    <3> QED
      BY <3>1, <3>2, <3>3
  <2>6. CASE pos' = [pos EXCEPT ![t] = @ - 1] /\ UNCHANGED <<pc, cur, locked>>
    <3>1. pos[t] - 1 \in Nat /\ pos[t] - 1 <= Len(queue[at[t]])
      BY <2>1 DEF Types
    <3>2. Types'
      BY <2>3, <2>6, <3>1 DEF Types
    <3>3. TaskOK'
      BY <2>3, <2>6 DEF Types, TaskOK
    <3>4. QueueOK'
      BY <2>3, <2>6, <3>1 DEF Types, QueueOK, Scanning
    <3> QED
      BY <3>2, <3>3, <3>4
  <2> QED
    BY <1>6, <2>4, <2>5, <2>6 DEF ScanTask
<1>7. CASE TrySecond(t)
  <2>1. Types'
    BY <1>7 DEF TrySecond, Types, Label
  <2>2. TaskOK'
    BY <1>7 DEF TrySecond, Types, TaskOK, HasTask
  <2>3. QueueOK'
    BY <1>7 DEF TrySecond, Types, QueueOK, HasQueue, Scanning
  <2> QED
    BY <2>1, <2>2, <2>3
<1>8. CASE BackOff(t)
  <2>1. pos[t] - 1 \in Nat /\ pos[t] - 1 <= Len(queue[at[t]])
    BY <1>8 DEF BackOff, Types, QueueOK, Scanning
  <2>2. Types'
    BY <1>8, <2>1 DEF BackOff, Types, Label
  <2>3. TaskOK'
    BY <1>8 DEF BackOff, Types, TaskOK, HasTask
  <2>4. QueueOK'
    BY <1>8, <2>1 DEF BackOff, Types, QueueOK, HasQueue, Scanning
  <2> QED
    BY <2>2, <2>3, <2>4
<1>9. CASE TakeTask(t)
  <2>1. pos[t] \in 1 .. Len(queue[at[t]]) /\ qlock[at[t]] = t
    BY <1>9 DEF TakeTask, Types, QueueOK, HasQueue, Scanning
  <2>2. RemoveAt(queue[at[t]], pos[t]) \in Seq(Task)
    BY <2>1, RemoveAtType DEF Types
  <2>3. Types'
    BY <1>9, <2>2 DEF TakeTask, Types, Label
  <2>4. TaskOK'
    BY <1>9 DEF TakeTask, Types, TaskOK, HasTask
  <2>5. QueueOK'
    BY <1>9, <2>1 DEF TakeTask, Types, QueueOK, HasQueue, Scanning, NoThread, Thread
  <2> QED
    BY <2>3, <2>4, <2>5
<1>10. CASE ClaimSubgrid(t)
  <2>1. Types'
    BY <1>10 DEF ClaimSubgrid, Types, Label
  <2>2. TaskOK'
    BY <1>10 DEF ClaimSubgrid, Types, TaskOK, HasTask
  <2>3. QueueOK'
    BY <1>10 DEF ClaimSubgrid, Types, QueueOK, HasQueue, Scanning
  <2> QED
    BY <2>1, <2>2, <2>3
<1>11. CASE ScanFails(t)
  <2>1. Types'
    BY <1>11 DEF ScanFails, Types, Label
  <2>2. TaskOK'
    BY <1>11 DEF ScanFails, Types, TaskOK, HasTask
  <2>3. QueueOK'
    BY <1>11 DEF ScanFails, Types, QueueOK, HasQueue, Scanning, NoThread, Thread
  <2> QED
    BY <2>1, <2>2, <2>3
<1>12. CASE Execute(t)
  <2>1. Len(Deps[cur[t]]) \in 0 .. 2
    BY <1>12, DepsLength DEF Execute, TaskOK, HasTask
  <2>2. \E l \in {"child", "unlock0", "unlock1"} :
          /\ pc' = [pc EXCEPT ![t] = l]
          /\ l = "unlock1" => Len(Deps[cur[t]]) = 2
          /\ l = "unlock0" => Len(Deps[cur[t]]) = 1
    <3>1. CASE Len(Deps[cur[t]]) = 0
      BY <1>12, <3>1 DEF Execute
    <3>2. CASE Len(Deps[cur[t]]) = 1
      BY <1>12, <3>2 DEF Execute
    <3>3. CASE Len(Deps[cur[t]]) = 2
      BY <1>12, <3>3 DEF Execute
    <3> QED
      BY <2>1, <3>1, <3>2, <3>3
  <2>3. Types'
    BY <1>12, <2>2 DEF Execute, Types, Label
  <2>4. TaskOK'
    BY <1>12, <2>1, <2>2 DEF Execute, Types, TaskOK, HasTask
  <2>5. QueueOK'
    BY <1>12, <2>2 DEF Execute, Types, QueueOK, HasQueue, Scanning
  <2> QED
    BY <2>3, <2>4, <2>5
<1>13. CASE UnlockSecond(t)
  <2>1. Types'
    BY <1>13 DEF UnlockSecond, Types, Label
  <2>2. TaskOK'
    BY <1>13 DEF UnlockSecond, Types, TaskOK, HasTask
  <2>3. QueueOK'
    BY <1>13 DEF UnlockSecond, Types, QueueOK, HasQueue, Scanning
  <2> QED
    BY <2>1, <2>2, <2>3
<1>14. CASE UnlockFirst(t)
  <2>1. Types'
    BY <1>14 DEF UnlockFirst, Types, Label
  <2>2. TaskOK'
    BY <1>14 DEF UnlockFirst, Types, TaskOK, HasTask
  <2>3. QueueOK'
    BY <1>14 DEF UnlockFirst, Types, QueueOK, HasQueue, Scanning
  <2> QED
    BY <2>1, <2>2, <2>3
<1>15. CASE DecrementParents(t)
  <2>1. Len(Children[cur[t]]) \in Nat
    BY <1>15, GraphAssumption DEF DecrementParents, TaskOK, HasTask
  <2>2. Types'
    BY <1>15 DEF DecrementParents, Types, Label
  <2>3. TaskOK'
    BY <1>15, <2>1 DEF DecrementParents, Types, TaskOK, HasTask
  <2>4. QueueOK'
    BY <1>15 DEF DecrementParents, Types, QueueOK, HasQueue, Scanning
  <2> QED
    BY <2>2, <2>3, <2>4
<1>c. CASE ChooseQueue(t)
  <2>1. Child(t) \in Task
    BY <1>c, GraphAssumption DEF ChooseQueue, TaskOK, HasTask, Child
  <2>2. Home(Child(t)) \in Thread
    BY <2>1, GraphAssumption DEF Types, Home
  <2>3. Types'
    BY <1>c, <2>2 DEF ChooseQueue, shared, Types, Label
  <2>4. TaskOK'
    BY <1>c DEF ChooseQueue, shared, Types, TaskOK, HasTask
  <2>5. QueueOK'
    BY <1>c, <2>2 DEF ChooseQueue, shared, Types, QueueOK, HasQueue, Scanning
  <2> QED
    BY <2>3, <2>4, <2>5
<1>16. CASE LockForAdd(t)
  <2>1. Types'
    BY <1>16 DEF LockForAdd, Types, Label
  <2>2. TaskOK'
    BY <1>16 DEF LockForAdd, Types, TaskOK, HasTask
  <2>3. /\ pc[t] = "add" /\ pc' = [pc EXCEPT ![t] = "push"] /\ at[t] \in Thread
        /\ qlock' = [qlock EXCEPT ![at[t]] = t] /\ UNCHANGED <<queue, cur, at, pos>>
    BY <1>16 DEF LockForAdd, Types, Goto
  <2>4. \A u \in Thread : qlock[at[t]] # u
    BY <1>16 DEF LockForAdd, NoThread, Thread
  <2>5. QueueOK'
    BY <2>3, <2>4 DEF Types, QueueOK, HasQueue, Scanning
  <2> QED
    BY <2>1, <2>2, <2>5
<1>17. CASE PushChild(t)
  <2>1. Child(t) \in Task
    BY <1>17, GraphAssumption DEF PushChild, TaskOK, HasTask, Child
  <2>2. qlock[at[t]] = t
    BY <1>17 DEF PushChild, QueueOK, HasQueue
  <2>3. Types'
    BY <1>17, <2>1 DEF PushChild, Types, Label
  <2>4. TaskOK'
    BY <1>17 DEF PushChild, Types, TaskOK, HasTask
  <2>5. QueueOK'
    BY <1>17, <2>2 DEF PushChild, Types, QueueOK, HasQueue, Scanning, NoThread, Thread
  <2> QED
    BY <2>3, <2>4, <2>5
<1>18. CASE CountChild(t)
  BY <1>18 DEF CountChild, Types, TaskOK, QueueOK, HasTask, HasQueue, Scanning, Label
<1>19. CASE UncountTask(t)
  <2>1. Types'
    BY <1>19 DEF UncountTask, Types, Label
  <2>2. TaskOK'
    BY <1>19 DEF UncountTask, Types, TaskOK, HasTask
  <2>3. QueueOK'
    BY <1>19 DEF UncountTask, Types, QueueOK, HasQueue, Scanning
  <2> QED
    BY <2>1, <2>2, <2>3
<1> QED
  BY <1>1, <1>2, <1>3, <1>4, <1>5, <1>6, <1>7, <1>8, <1>9, <1>10, <1>11, <1>12,
     <1>13, <1>14, <1>15, <1>16, <1>17, <1>18, <1>19, <1>c DEF Step
-----------------------------------------------------------------------------
(* The dependency locks. *)

(* A step in which nobody gets or gives back a lock.                       *)
LEMMA KeepLocks ==
  ASSUME NEW t \in Thread, Exclusive, locked' = locked, Held(t)' = Held(t),
         \A u \in Thread \ {t} : Held(u)' = Held(u)
  PROVE  Exclusive'
<1>1. \A u \in Thread : Held(u)' = Held(u)
  OBVIOUS
<1> QED
  BY <1>1 DEF Exclusive

(* A step in which a thread gets a lock that is free.                      *)
LEMMA GetLock ==
  ASSUME NEW t \in Thread, NEW l \in Lock, Types, Exclusive, ~ locked[l],
         locked' = [locked EXCEPT ![l] = TRUE],
         Held(t)' = Held(t) \cup {l},
         \A u \in Thread \ {t} : Held(u)' = Held(u)
  PROVE  Exclusive'
<1>1. \A u \in Thread : l \notin Held(u)
  BY DEF Exclusive
<1>2. \A k \in Lock : locked'[k] <=> k = l \/ locked[k]
  BY DEF Types
<1>3. \A u, v \in Thread : u # v => Held(u)' \cap Held(v)' = {}
  BY <1>1 DEF Exclusive
<1>4. \A k \in Lock : locked'[k] <=> \E u \in Thread : k \in Held(u)'
  BY <1>2 DEF Exclusive
<1> QED
  BY <1>3, <1>4 DEF Exclusive

(* A step in which a thread gives back a lock it has.                      *)
LEMMA GiveLock ==
  ASSUME NEW t \in Thread, NEW l \in Lock, Types, Exclusive, l \in Held(t),
         locked' = [locked EXCEPT ![l] = FALSE],
         Held(t)' = Held(t) \ {l},
         \A u \in Thread \ {t} : Held(u)' = Held(u)
  PROVE  Exclusive'
<1>1. \A u \in Thread \ {t} : l \notin Held(u)
  BY DEF Exclusive
<1>2. \A k \in Lock : locked'[k] <=> k # l /\ locked[k]
  BY DEF Types
<1>3. \A u, v \in Thread : u # v => Held(u)' \cap Held(v)' = {}
  BY DEF Exclusive
<1>4. \A k \in Lock : locked'[k] <=> \E u \in Thread : k \in Held(u)'
  BY <1>1, <1>2 DEF Exclusive
<1> QED
  BY <1>3, <1>4 DEF Exclusive

(* The locks a thread has with task x where it is at l. *)
LocksAt(l, x) ==
  IF l \in HasFirst
  THEN {Deps[x][i] : i \in {j \in DOMAIN Deps[x] : j = 1 \/ l \in HasSecond}}
  ELSE {}

(* The locks of a thread depend on where it is and on its task only.       *)
LEMMA HeldIsLocksAt ==
  ASSUME NEW t \in Thread
  PROVE  Held(t) = LocksAt(pc[t], cur[t]) /\ Held(t)' = LocksAt(pc'[t], cur'[t])
  BY DEF Held, LocksAt

(* Where a thread has not got the first lock it has none.                  *)
LEMMA LocksAtNone ==
  ASSUME NEW l, NEW x, l \notin HasFirst
  PROVE  LocksAt(l, x) = {}
  BY DEF LocksAt, HasFirst, HasSecond

(* The locks of a thread that got the first one, or both.                  *)
LEMMA LocksAtValues ==
  ASSUME NEW l \in HasFirst, NEW x \in Task
  PROVE  /\ Len(Deps[x]) = 0 => LocksAt(l, x) = {}
         /\ Len(Deps[x]) = 1 => LocksAt(l, x) = {Deps[x][1]}
         /\ Len(Deps[x]) = 2 /\ l \notin HasSecond => LocksAt(l, x) = {Deps[x][1]}
         /\ Len(Deps[x]) = 2 /\ l \in HasSecond => LocksAt(l, x) = {Deps[x][1], Deps[x][2]}
<1> DEFINE J == {j \in DOMAIN Deps[x] : j = 1 \/ l \in HasSecond}
<1>1. DOMAIN Deps[x] = 1 .. Len(Deps[x])
  BY DepsLength, LenProperties
<1>2. LocksAt(l, x) = {Deps[x][i] : i \in J}
  BY DEF LocksAt
<1>3. CASE Len(Deps[x]) = 0
  <2>1. J = {}
    BY <1>1, <1>3
  <2> QED
    BY <2>1, <1>2, <1>3
<1>4. CASE Len(Deps[x]) = 1
  <2>1. J = {1}
    BY <1>1, <1>4
  <2> HIDE DEF J
  <2> QED
    BY <2>1, <1>2, <1>4
<1>5. CASE Len(Deps[x]) = 2 /\ l \notin HasSecond
  <2>1. J = {1}
    BY <1>1, <1>5
  <2> HIDE DEF J
  <2> QED
    BY <2>1, <1>2, <1>5
<1>6. CASE Len(Deps[x]) = 2 /\ l \in HasSecond
  <2>1. J = {1, 2}
    BY <1>1, <1>6
  <2> HIDE DEF J
  <2> QED
    BY <2>1, <1>2, <1>6
<1> QED
  BY <1>3, <1>4, <1>5, <1>6
(* Every step keeps the locks exclusive.  The second dependency of a task  *)
(* is not the first one once it was taken, because the first one was taken *)
(* before; so giving the second one back leaves the first one.             *)
LEMMA LocksStep ==
  ASSUME NEW t \in Thread, Types, TaskOK, QueueOK, TwoLocks, Exclusive, Step(t)
  PROVE  Exclusive' /\ TwoLocks'
<1> USE DEF Goto, shared
<1>1. \A u \in Thread : /\ Held(u) = LocksAt(pc[u], cur[u])
                        /\ Held(u)' = LocksAt(pc'[u], cur'[u])
  BY HeldIsLocksAt
<1>2. cur[t] \in Task => Deps[cur[t]] \in Seq(Lock) /\ Len(Deps[cur[t]]) \in 0 .. 2
  BY DepsLength
<1>3. ASSUME NEW l \in Label, pc' = [pc EXCEPT ![t] = l],
             NEW x \in Task \cup {NoTask}, cur' = [cur EXCEPT ![t] = x]
      PROVE  /\ pc'[t] = l /\ cur'[t] = x
             /\ \A u \in Thread \ {t} : Held(u)' = Held(u)
             /\ \A u \in Thread \ {t} : pc'[u] = pc[u] /\ cur'[u] = cur[u]
  <2>1. \A u \in Thread \ {t} : pc'[u] = pc[u] /\ cur'[u] = cur[u]
    BY <1>3 DEF Types
  <2> QED
    BY <1>1, <1>3, <2>1 DEF Types
<1>4. cur = [cur EXCEPT ![t] = cur[t]] /\ cur[t] \in Task \cup {NoTask}
  BY DEF Types
(* Steps that take or give back no lock. *)
<1>5. ASSUME NEW l \in Label, pc' = [pc EXCEPT ![t] = l], UNCHANGED <<cur, locked>>,
             LocksAt(l, cur[t]) = LocksAt(pc[t], cur[t]),
             l \in HasSecond => pc[t] \in HasSecond
      PROVE  Exclusive' /\ TwoLocks'
  <2>1. /\ pc'[t] = l /\ cur'[t] = cur[t]
        /\ \A u \in Thread \ {t} : Held(u)' = Held(u)
        /\ \A u \in Thread \ {t} : pc'[u] = pc[u] /\ cur'[u] = cur[u]
    BY <1>3, <1>4, <1>5
  <2>2. Exclusive'
    BY <1>1, <1>5, <2>1, KeepLocks
  <2>3. TwoLocks'
    BY <1>5, <2>1 DEF TwoLocks, HasSecond
  <2> QED
    BY <2>2, <2>3
<1>6. ASSUME NEW l \in Label, pc' = [pc EXCEPT ![t] = l], UNCHANGED <<cur, locked>>,
             l \notin HasFirst, pc[t] \notin HasFirst
      PROVE  Exclusive' /\ TwoLocks'
  <2>1. LocksAt(l, cur[t]) = LocksAt(pc[t], cur[t])
    BY <1>6, LocksAtNone
  <2> QED
    BY <1>5, <1>6, <2>1 DEF HasFirst, HasSecond
<1> HIDE DEF Goto
<1>7. ASSUME UNCHANGED <<pc, cur, locked>> PROVE Exclusive' /\ TwoLocks'
  BY <1>1, <1>7 DEF Exclusive, TwoLocks
<1> USE DEF Goto
<1>8. CASE Loop(t)
  BY <1>6, <1>8 DEF Loop, HasFirst, Label
<1>9. CASE GetOwn(t)
  BY <1>6, <1>9 DEF GetOwn, StartScan, HasFirst, Label
<1>10. CASE ReadSize(t)
  BY <1>6, <1>10 DEF ReadSize, HasFirst, Label
<1>11. ASSUME NEW q \in Thread, TryQueue(t, q) PROVE Exclusive' /\ TwoLocks'
  <2>1. CASE StartScan(t, q, "steal")
    BY <1>6, <1>11, <2>1 DEF TryQueue, StartScan, HasFirst, Label
  <2>2. CASE UNCHANGED <<shared, pc, stage, cur, at, pos>>
    BY <1>7, <2>2
  <2> QED
    BY <1>11, <2>1, <2>2 DEF TryQueue
<1>12. CASE NothingToSteal(t)
  BY <1>6, <1>12 DEF NothingToSteal, HasFirst, Label
<1>13. CASE ScanFails(t)
  BY <1>6, <1>13 DEF ScanFails, HasFirst, Label
<1>14. CASE DecrementParents(t)
  BY <1>6, <1>14 DEF DecrementParents, HasFirst, Label
<1>c. CASE ChooseQueue(t)
  BY <1>6, <1>c DEF ChooseQueue, shared, HasFirst, Label
<1>15. CASE LockForAdd(t)
  BY <1>6, <1>15 DEF LockForAdd, HasFirst, Label
<1>16. CASE PushChild(t)
  BY <1>6, <1>16 DEF PushChild, HasFirst, Label
<1>17. CASE CountChild(t)
  BY <1>6, <1>17 DEF CountChild, HasFirst, Label
<1>18. CASE UncountTask(t)
  <2>1. NoTask \in Task \cup {NoTask} /\ "loop" \in Label
    BY DEF Label
  <2>2. pc' = [pc EXCEPT ![t] = "loop"] /\ cur' = [cur EXCEPT ![t] = NoTask]
        /\ locked' = locked /\ pc[t] = "child"
    BY <1>18 DEF UncountTask
  <2>3. /\ pc'[t] = "loop" /\ cur'[t] = NoTask
        /\ \A u \in Thread \ {t} : Held(u)' = Held(u)
        /\ \A u \in Thread \ {t} : pc'[u] = pc[u] /\ cur'[u] = cur[u]
    BY <1>3, <2>1, <2>2
  <2>4. Held(t) = {} /\ Held(t)' = {}
    BY <1>1, <2>2, <2>3, LocksAtNone DEF HasFirst
  <2>5. Exclusive'
    BY <2>2, <2>3, <2>4, KeepLocks
  <2>6. TwoLocks'
    BY <2>3 DEF TwoLocks
  <2> QED
    BY <2>5, <2>6
<1>19. CASE TakeTask(t)
  <2>1. ASSUME NEW l \in {"claim", "exec"} PROVE LocksAt(l, cur[t]) = LocksAt("take", cur[t])
    BY DEF LocksAt, HasFirst, HasSecond
  <2>2. \E l \in {"claim", "exec"} : pc' = [pc EXCEPT ![t] = l]
    BY <1>19 DEF TakeTask
  <2> QED
    BY <1>5, <1>19, <2>1, <2>2 DEF TakeTask, HasSecond, Label
<1>20. CASE ClaimSubgrid(t)
  <2>1. LocksAt("exec", cur[t]) = LocksAt("claim", cur[t])
    BY DEF LocksAt, HasFirst, HasSecond
  <2> QED
    BY <1>5, <1>20, <2>1 DEF ClaimSubgrid, HasSecond, Label
<1>21. CASE Execute(t)
  <2>1. cur[t] \in Task /\ pc[t] = "exec" /\ UNCHANGED <<cur, locked>>
    BY <1>21 DEF Execute, TaskOK, HasTask
  <2>2. CASE Len(Deps[cur[t]]) = 0
    <3>1. pc' = [pc EXCEPT ![t] = "child"]
      BY <1>21, <2>2 DEF Execute
    <3>2. LocksAt("child", cur[t]) = {}
      BY LocksAtNone DEF HasFirst
    <3>3. LocksAt("exec", cur[t]) = {}
      BY <2>1, <2>2, LocksAtValues DEF HasFirst
    <3> QED
      BY <1>5, <2>1, <3>1, <3>2, <3>3 DEF HasSecond, Label
  <2>3. CASE Len(Deps[cur[t]]) = 1
    <3>1. pc' = [pc EXCEPT ![t] = "unlock0"]
      BY <1>21, <2>3 DEF Execute
    <3>2. LocksAt("unlock0", cur[t]) = LocksAt("exec", cur[t])
      BY <2>1, <2>3, LocksAtValues DEF HasFirst
    <3> QED
      BY <1>5, <2>1, <3>1, <3>2 DEF HasSecond, Label
  <2>4. CASE Len(Deps[cur[t]]) = 2
    <3>1. pc' = [pc EXCEPT ![t] = "unlock1"]
      BY <1>21, <2>4 DEF Execute
    <3>2. LocksAt("unlock1", cur[t]) = LocksAt("exec", cur[t])
      BY DEF LocksAt, HasFirst, HasSecond
    <3> QED
      BY <1>5, <2>1, <3>1, <3>2 DEF HasSecond, Label
  <2> QED
    BY <1>2, <2>1, <2>2, <2>3, <2>4
<1>22. CASE ScanTask(t)
  <2> DEFINE x == queue[at[t]][pos[t]]
  <2>1. x \in Task /\ pc[t] = "scan"
    BY <1>22 DEF ScanTask, Types, QueueOK, Scanning
  <2>2. Deps[x] \in Seq(Lock) /\ Len(Deps[x]) \in 0 .. 2
        /\ (Deps[x] = <<>> <=> Len(Deps[x]) = 0)
    BY <2>1, DepsLength
  <2>3. Held(t) = {}
    BY <1>1, <2>1, LocksAtNone DEF HasFirst
  <2> HIDE DEF x
  <2>4. CASE /\ Deps[x] = <<>>
             /\ cur' = [cur EXCEPT ![t] = x]
             /\ pc' = [pc EXCEPT ![t] = "take"]
             /\ UNCHANGED locked
    <3>1. /\ pc'[t] = "take" /\ cur'[t] = x
          /\ \A u \in Thread \ {t} : Held(u)' = Held(u)
          /\ \A u \in Thread \ {t} : pc'[u] = pc[u] /\ cur'[u] = cur[u]
      BY <1>3, <2>1, <2>4 DEF Label
    <3>2. Held(t)' = {}
      BY <1>1, <2>1, <2>2, <2>4, <3>1, LocksAtValues DEF HasFirst
    <3>3. Exclusive'
      BY <2>3, <2>4, <3>1, <3>2, KeepLocks
    <3>4. TwoLocks'
      BY <2>2, <2>4, <3>1 DEF TwoLocks
    <3> QED
      BY <3>3, <3>4
  <2>5. CASE /\ Deps[x] # <<>>
             /\ ~ locked[Deps[x][1]]
             /\ locked' = [locked EXCEPT ![Deps[x][1]] = TRUE]
             /\ cur' = [cur EXCEPT ![t] = x]
             /\ pc' = [pc EXCEPT ![t] = IF Len(Deps[x]) = 1 THEN "take" ELSE "second"]
    <3> DEFINE l == IF Len(Deps[x]) = 1 THEN "take" ELSE "second"
    <3>1. l \in Label /\ pc' = [pc EXCEPT ![t] = l]
      BY <2>5 DEF Label
    <3>2. /\ pc'[t] = l /\ cur'[t] = x
          /\ \A u \in Thread \ {t} : Held(u)' = Held(u)
          /\ \A u \in Thread \ {t} : pc'[u] = pc[u] /\ cur'[u] = cur[u]
      BY <1>3, <2>1, <2>5, <3>1
    <3>3. Len(Deps[x]) \in {1, 2} /\ Deps[x][1] \in Lock
      BY <2>2, <2>5
    <3>4. LocksAt(l, x) = {Deps[x][1]}
      BY <2>1, <3>3, LocksAtValues DEF HasFirst, HasSecond
    <3>5. Held(t)' = Held(t) \cup {Deps[x][1]}
      BY <1>1, <2>3, <3>2, <3>4
    <3>6. Exclusive'
      BY <2>5, <3>2, <3>3, <3>5, GetLock
    <3>7. TwoLocks'
      BY <3>2 DEF TwoLocks
    <3> QED
      BY <3>6, <3>7
  <2>6. CASE UNCHANGED <<pc, cur, locked>>
    BY <1>7, <2>6
  <2> QED
    BY <1>22, <2>4, <2>5, <2>6 DEF ScanTask, x
<1>23. CASE TrySecond(t)
  <2> DEFINE d == Deps[cur[t]]
  <2>1. cur[t] \in Task /\ Len(d) = 2 /\ pc[t] = "second"
    BY <1>23 DEF TrySecond, TaskOK, HasTask
  <2>2. d[1] \in Lock /\ d[2] \in Lock
    BY <1>2, <2>1
  <2>3. Held(t) = {d[1]}
    BY <1>1, <2>1, LocksAtValues DEF HasFirst, HasSecond
  <2>4. CASE locked[d[2]]
    <3>1. UNCHANGED locked
      BY <1>23, <2>4 DEF TrySecond, Types
    <3>2. LocksAt("back", cur[t]) = LocksAt(pc[t], cur[t])
      BY <2>1 DEF LocksAt, HasFirst, HasSecond
    <3> QED
      BY <1>5, <1>23, <2>4, <3>1, <3>2 DEF TrySecond, HasSecond, Label
  <2>5. CASE ~ locked[d[2]]
    <3>1. /\ pc'[t] = "take" /\ cur'[t] = cur[t]
          /\ \A u \in Thread \ {t} : Held(u)' = Held(u)
          /\ \A u \in Thread \ {t} : pc'[u] = pc[u] /\ cur'[u] = cur[u]
      BY <1>3, <1>4, <1>23, <2>5 DEF TrySecond, Label
    <3>2. Held(t)' = Held(t) \cup {d[2]}
      BY <1>1, <2>1, <2>3, <3>1, LocksAtValues DEF HasFirst, HasSecond
    <3>3. locked' = [locked EXCEPT ![d[2]] = TRUE]
      BY <1>23 DEF TrySecond
    <3>4. Exclusive'
      BY <2>2, <2>5, <3>1, <3>2, <3>3, GetLock
    <3>5. d[1] # d[2]
      BY <2>2, <2>3, <2>5 DEF Exclusive
    <3>6. TwoLocks'
      BY <3>1, <3>5 DEF TwoLocks
    <3> QED
      BY <3>4, <3>6
  <2> QED
    BY <2>4, <2>5
<1>24. CASE BackOff(t)
  <2> DEFINE d == Deps[cur[t]]
  <2>1. cur[t] \in Task /\ Len(d) = 2 /\ pc[t] = "back"
    BY <1>24 DEF BackOff, TaskOK, HasTask
  <2>2. d[1] \in Lock
    BY <1>2, <2>1
  <2>3. Held(t) = {d[1]}
    BY <1>1, <2>1, LocksAtValues DEF HasFirst, HasSecond
  <2>4. /\ pc'[t] = "scan" /\ cur'[t] = NoTask
        /\ \A u \in Thread \ {t} : Held(u)' = Held(u)
        /\ \A u \in Thread \ {t} : pc'[u] = pc[u] /\ cur'[u] = cur[u]
    BY <1>3, <1>24 DEF BackOff, Label
  <2>5. Held(t)' = Held(t) \ {d[1]}
    BY <1>1, <2>3, <2>4, LocksAtNone DEF HasFirst
  <2>6. Exclusive'
    BY <1>24, <2>2, <2>3, <2>4, <2>5, GiveLock DEF BackOff
  <2>7. TwoLocks'
    BY <2>4 DEF TwoLocks
  <2> QED
    BY <2>6, <2>7
<1>25. CASE UnlockSecond(t)
  <2> DEFINE d == Deps[cur[t]]
  <2>1. cur[t] \in Task /\ Len(d) = 2 /\ pc[t] = "unlock1" /\ d[1] # d[2]
    BY <1>25 DEF UnlockSecond, TaskOK, HasTask, TwoLocks
  <2>2. d[2] \in Lock
    BY <1>2, <2>1
  <2>3. Held(t) = {d[1], d[2]}
    BY <1>1, <2>1, LocksAtValues DEF HasFirst, HasSecond
  <2>4. /\ pc'[t] = "unlock0" /\ cur'[t] = cur[t]
        /\ \A u \in Thread \ {t} : Held(u)' = Held(u)
        /\ \A u \in Thread \ {t} : pc'[u] = pc[u] /\ cur'[u] = cur[u]
    BY <1>3, <1>4, <1>25 DEF UnlockSecond, Label
  <2>5. Held(t)' = {d[1]}
    BY <1>1, <2>1, <2>4, LocksAtValues DEF HasFirst, HasSecond
  <2>6. Held(t)' = Held(t) \ {d[2]}
    BY <2>1, <2>3, <2>5
  <2>7. Exclusive'
    BY <1>25, <2>2, <2>3, <2>4, <2>6, GiveLock DEF UnlockSecond
  <2>8. TwoLocks'
    BY <2>4 DEF TwoLocks
  <2> QED
    BY <2>7, <2>8
<1>26. CASE UnlockFirst(t)
  <2> DEFINE d == Deps[cur[t]]
  <2>1. cur[t] \in Task /\ Len(d) \in 1 .. 2 /\ pc[t] = "unlock0"
    BY <1>26 DEF UnlockFirst, TaskOK, HasTask
  <2>2. d[1] \in Lock
    BY <1>2, <2>1
  <2>3. Held(t) = {d[1]}
    BY <1>1, <2>1, LocksAtValues DEF HasFirst, HasSecond
  <2>4. /\ pc'[t] = "child" /\ cur'[t] = cur[t]
        /\ \A u \in Thread \ {t} : Held(u)' = Held(u)
        /\ \A u \in Thread \ {t} : pc'[u] = pc[u] /\ cur'[u] = cur[u]
    BY <1>3, <1>4, <1>26 DEF UnlockFirst, Label
  <2>5. Held(t)' = Held(t) \ {d[1]}
    BY <1>1, <2>3, <2>4, LocksAtNone DEF HasFirst
  <2>6. Exclusive'
    BY <1>26, <2>2, <2>3, <2>4, <2>5, GiveLock DEF UnlockFirst
  <2>7. TwoLocks'
    BY <2>4 DEF TwoLocks
  <2> QED
    BY <2>6, <2>7
<1> QED
  BY <1>8, <1>9, <1>10, <1>11, <1>12, <1>13, <1>14, <1>15, <1>16, <1>17, <1>18, <1>19,
     <1>20, <1>21, <1>22, <1>23, <1>24, <1>25, <1>26, <1>c DEF Step

-----------------------------------------------------------------------------
(* The theorems. *)

(* All that the queues and locks depend on, at the start and in every step.*)
LEMMA Invariance == Spec => [](Types /\ TaskOK /\ QueueOK /\ TwoLocks /\ Exclusive)
<1> DEFINE Inv == Types /\ TaskOK /\ QueueOK /\ TwoLocks /\ Exclusive
<1>1. Init => Inv
  <2> SUFFICES ASSUME Init PROVE Exclusive
    BY TypesInit
  <2>1. \A t \in Thread : Held(t) = {}
    BY DEF Init, Held, HasFirst, HasSecond
  <2> QED
    BY <2>1 DEF Init, Exclusive
<1>2. Inv /\ [Next]_vars => Inv'
  <2> SUFFICES ASSUME Inv, [Next]_vars PROVE Inv'
    OBVIOUS
  <2>1. ASSUME NEW t \in Thread, Step(t) PROVE Inv'
    BY <2>1, TypesStep, LocksStep
  <2>2. CASE UNCHANGED vars
    <3>1. Types' /\ TaskOK' /\ QueueOK' /\ TwoLocks'
      BY <2>2 DEF vars, Types, TaskOK, QueueOK, TwoLocks
    <3>2. locked' = locked /\ \A t \in Thread : Held(t)' = Held(t)
      BY <2>2 DEF vars, Held
    <3>3. Exclusive'
      BY <3>2 DEF Exclusive
    <3> QED
      BY <3>1, <3>3
  <2> QED
    BY <2>1, <2>2 DEF Next, Finished
<1> QED
  BY <1>1, <1>2, PTL DEF Spec

(* No two threads execute tasks that share a subgrid, whatever they steal  *)
(* from whom and in which order they try the locks; and a lock is taken    *)
(* only while some thread has it: none is left behind.                     *)
THEOREM LocksExclusive == Spec => []Exclusive
  BY Invariance, PTL

(* A thread scans, takes from and adds to a queue only under its lock, and *)
(* the task under its cursor stays there.                                  *)
THEOREM QueuesExclusive == Spec => []QueueExclusive
<1>1. Types /\ QueueOK => QueueExclusive
  BY DEF Types, QueueOK, QueueExclusive, HasQueue
<1> QED
  BY <1>1, Invariance, PTL

-----------------------------------------------------------------------------
(* The places of the tasks. *)

(* What a thread does with a task after it left the queue: it is about to  *)
(* execute it, or it has stopped it and unlocks its children one by one;   *)
(* at some of these points it has a child in hand that is in no queue yet. *)
Ready  == {"claim", "exec"}
After  == {"unlock1", "unlock0", "child", "home", "add", "push", "incr"}
Adding == {"home", "add", "push"}
Off    == Ready \cup After

(* A parent has not taken its place in the counter of a child away yet.    *)
EdgeOpen(e) ==
  \/ e[1] \notin done
  \/ \E t \in Thread : pc[t] \in After /\ cur[t] = e[1] /\ e[2] > pos[t]

OpenEdges(x) == {e \in EdgesTo(x) : EdgeOpen(e)}

Queued(x) == \E q \in Thread : \E i \in 1 .. Len(queue[q]) : queue[q][i] = x
Taken(x)  == \E t \in Thread : pc[t] \in Ready /\ cur[t] = x
Added(x)  == \E t \in Thread : pc[t] \in Adding /\ Child(t) = x

(* A task is in the queues at most once, in the hands of at most one       *)
(* thread, and added by at most one.                                       *)
QueuesOnce ==
  \A q, r \in Thread : \A i \in 1 .. Len(queue[q]), j \in 1 .. Len(queue[r]) :
    queue[q][i] = queue[r][j] => q = r /\ i = j

WorkersOnce ==
  \A t, u \in Thread : t # u =>
    /\ pc[t] \in Off /\ pc[u] \in Off => cur[t] # cur[u]
    /\ pc[t] \in Adding /\ pc[u] \in Adding => Child(t) # Child(u)

(* It is in one place at a time, and after it was stopped in none.         *)
OnePlace ==
  /\ done \subseteq Task
  /\ \A x \in Task : x \in done => ~ Queued(x) /\ ~ Taken(x) /\ ~ Added(x)
  /\ \A x \in Task : Queued(x) => ~ Taken(x) /\ ~ Added(x)
  /\ \A x \in Task : Taken(x) => ~ Added(x)
  /\ \A t \in Thread : pc[t] \in After => cur[t] \in done

(* The counter of a task is the number of its open edges, and the task has *)
(* a place exactly when that is zero.                                      *)
CountersOpen ==
  /\ parents \in [Task -> Int]
  /\ \A x \in Task : parents[x] = Cardinality(OpenEdges(x))

Placed ==
  \A x \in Task : OpenEdges(x) = {} <=> x \in done \/ Queued(x) \/ Taken(x) \/ Added(x)

Places == QueuesOnce /\ WorkersOnce /\ OnePlace /\ CountersOpen /\ Placed

-----------------------------------------------------------------------------
(* A task has finitely many parents. *)
LEMMA EdgesFinite == ASSUME NEW x
                     PROVE  IsFiniteSet(EdgesTo(x))
<1>1. IsFiniteSet(1 .. 7)
  <2>1. 1 \in Int /\ 7 \in Int
    OBVIOUS
  <2> QED
    BY <2>1, FS_Interval, Zenon
<1>2. IsFiniteSet(Task \X (1 .. 7))
  BY <1>1, TaskAssumption, FS_Product
<1> QED
  BY <1>2, FS_Subset DEF EdgesTo

(* So it has finitely many open edges. *)
LEMMA OpenFinite ==
  ASSUME NEW x
  PROVE  /\ IsFiniteSet(OpenEdges(x)) /\ Cardinality(OpenEdges(x)) \in Nat
         /\ Cardinality(OpenEdges(x)) = 0 <=> OpenEdges(x) = {}
<1>1. OpenEdges(x) \in SUBSET EdgesTo(x)
  BY DEF OpenEdges
<1>2. IsFiniteSet(OpenEdges(x))
  BY <1>1, EdgesFinite, FS_Subset
<1> QED
  BY <1>2, FS_CardinalityType, FS_EmptySet

(* The child that a thread is about to add is a task.                      *)
LEMMA ChildIsTask ==
  ASSUME NEW t \in Thread, TaskOK, pc[t] \in {"home", "add", "push", "incr"}
  PROVE  /\ Child(t) \in Task /\ cur[t] \in Task
  BY GraphAssumption DEF TaskOK, HasTask, Child

(* What is left of a sequence without one of its elements.                 *)
LEMMA RemoveAtElements ==
  ASSUME NEW S, NEW s \in Seq(S), NEW i \in 1 .. Len(s)
  PROVE  /\ Len(RemoveAt(s, i)) = Len(s) - 1
         /\ \A j \in 1 .. Len(s) - 1 :
              RemoveAt(s, i)[j] = IF j < i THEN s[j] ELSE s[j + 1]
<1> DEFINE a == SubSeq(s, 1, i - 1)
           b == SubSeq(s, i + 1, Len(s))
<1>1. Len(s) \in Nat
  OBVIOUS
<1>2. /\ a \in Seq(S) /\ Len(a) = i - 1
      /\ \A j \in 1 .. i - 1 : a[j] = s[j]
  BY <1>1
<1>3. /\ b \in Seq(S) /\ Len(b) = Len(s) - i
      /\ \A j \in 1 .. Len(s) - i : b[j] = s[i + j]
  BY <1>1
<1>4. RemoveAt(s, i) = a \o b
  BY DEF RemoveAt
<1> HIDE DEF a, b
<1>5. /\ Len(a \o b) = Len(s) - 1
      /\ \A j \in 1 .. Len(a) + Len(b) :
           (a \o b)[j] = IF j <= Len(a) THEN a[j] ELSE b[j - Len(a)]
  <2>1. /\ Len(a \o b) = Len(a) + Len(b)
        /\ \A j \in 1 .. Len(a) + Len(b) :
             (a \o b)[j] = IF j <= Len(a) THEN a[j] ELSE b[j - Len(a)]
    BY <1>2, <1>3, ConcatProperties, Zenon
  <2>2. i - 1 + (Len(s) - i) = Len(s) - 1
    BY <1>1
  <2> QED
    BY <2>1, <2>2, <1>2, <1>3
<1>6. Len(a) + Len(b) = Len(s) - 1
  BY <1>1, <1>2, <1>3
<1>7. ASSUME NEW j \in 1 .. Len(s) - 1
      PROVE  (a \o b)[j] = IF j < i THEN s[j] ELSE s[j + 1]
  <2>1. (a \o b)[j] = IF j <= Len(a) THEN a[j] ELSE b[j - Len(a)]
    BY <1>5, <1>6
  <2>2. CASE j < i
    <3>1. j \in 1 .. i - 1 /\ j <= Len(a)
      BY <1>1, <1>2, <2>2
    <3> QED
      BY <1>2, <2>1, <2>2, <3>1
  <2>3. CASE ~ (j < i)
    <3>1. /\ ~ (j <= Len(a)) /\ j - Len(a) \in 1 .. Len(s) - i
          /\ i + (j - Len(a)) = j + 1
      BY <1>1, <1>2, <2>3
    <3> QED
      BY <1>3, <2>1, <2>3, <3>1
  <2> QED
    BY <2>2, <2>3
<1> QED
  BY <1>4, <1>5, <1>7

-----------------------------------------------------------------------------
(* The edges of a child stay open and closed when no parent does anything. *)
LEMMA SameEdges ==
  ASSUME \A e : EdgeOpen(e)' <=> EdgeOpen(e)
  PROVE  \A x : OpenEdges(x)' = OpenEdges(x)
  BY DEF OpenEdges

(* A step in which no task changes its place.                              *)
LEMMA PlacesFrame ==
  ASSUME Places, UNCHANGED <<queue, done, parents>>,
         \A u \in Thread :
           /\ pc'[u] \in Ready <=> pc[u] \in Ready
           /\ pc'[u] \in After <=> pc[u] \in After
           /\ pc'[u] \in Adding <=> pc[u] \in Adding
           /\ pc[u] \in Off => cur'[u] = cur[u] /\ pos'[u] = pos[u]
  PROVE  Places'
<1>1. \A e : EdgeOpen(e)' <=> EdgeOpen(e)
  BY DEF EdgeOpen, Off
<1>2. \A x : OpenEdges(x)' = OpenEdges(x)
  BY <1>1, SameEdges
<1>3. \A u \in Thread : pc[u] \in Adding => pc[u] \in Off
  BY DEF Adding, After, Off
<1>4. \A u \in Thread : pc[u] \in Adding => Child(u)' = Child(u)
  BY <1>3 DEF Child
<1>5. \A x : Queued(x)' <=> Queued(x)
  BY DEF Queued
<1>6. \A x : Taken(x)' <=> Taken(x)
  BY DEF Taken, Off
<1>7. \A x : Added(x)' <=> Added(x)
  BY <1>4 DEF Added
<1>8. QueuesOnce'
  BY DEF Places, QueuesOnce
<1>9. WorkersOnce'
  BY <1>4 DEF Places, WorkersOnce, Off
<1>10. OnePlace'
  BY <1>5, <1>6, <1>7 DEF Places, OnePlace, Off
<1>11. CountersOpen' /\ Placed'
  BY <1>2, <1>5, <1>6, <1>7 DEF Places, CountersOpen, Placed
<1> QED
  BY <1>8, <1>9, <1>10, <1>11 DEF Places

-----------------------------------------------------------------------------
(* A set put in a sequence: every element is in it once.                   *)
LEMMA SetToSeqOnce ==
  ASSUME NEW S, IsFiniteSet(S)
  PROVE  /\ SetToSeq(S) \in Seq(S)
         /\ \A i, j \in 1 .. Len(SetToSeq(S)) :
              SetToSeq(S)[i] = SetToSeq(S)[j] => i = j
         /\ \A x \in S : \E i \in 1 .. Len(SetToSeq(S)) : SetToSeq(S)[i] = x
<1> DEFINE n == Cardinality(S)
           f == SetToSeq(S)
<1>1. n \in Nat /\ ExistsBijection(1 .. n, S)
  BY FS_CardinalityType
<1>2. \E g \in [1 .. n -> S] : IsInjective(g)
  BY <1>1 DEF ExistsBijection, Bijection, Injection
<1>3. f \in [1 .. n -> S] /\ IsInjective(f)
  BY <1>2 DEF SetToSeq
<1>4. IsFiniteSet(1 .. n) /\ Cardinality(1 .. n) = n
  <2>1. 1 \in Int /\ n \in Int
    BY <1>1
  <2>2. IsFiniteSet(1 .. n) /\ Cardinality(1 .. n) = IF 1 > n THEN 0 ELSE n - 1 + 1
    BY <2>1, FS_Interval, Zenon
  <2> QED
    BY <1>1, <2>2
<1> HIDE DEF f
<1>5. f \in Injection(1 .. n, S)
  BY <1>3 DEF Injection
<1>6. f \in Surjection(1 .. n, S)
  <2> HIDE DEF n
  <2>1. Cardinality(1 .. n) = Cardinality(S) <=> f \in Surjection(1 .. n, S)
    BY <1>5, FS_Injection, Zenon
  <2> QED
    BY <1>4, <2>1 DEF n
<1>7. Len(f) = n /\ f \in Seq(S)
  BY <1>1, <1>3
<1> HIDE DEF n
<1>8. \A i, j \in 1 .. Len(f) : f[i] = f[j] => i = j
  BY <1>3, <1>7 DEF IsInjective
<1>9. \A x \in S : \E i \in 1 .. Len(f) : f[i] = x
  BY <1>6, <1>7 DEF Surjection
<1> QED
  BY <1>7, <1>8, <1>9 DEF f

(* At the start the tasks without parents are in the queues, once.         *)
LEMMA PlacesInit == Init => Places
<1> SUFFICES ASSUME Init PROVE Places
  OBVIOUS
<1> DEFINE S(q) == {x \in Roots : Home(x) = q}
<1>1. ASSUME NEW q \in Thread
      PROVE  /\ queue[q] \in Seq(S(q))
             /\ \A i, j \in 1 .. Len(queue[q]) : queue[q][i] = queue[q][j] => i = j
             /\ \A x \in S(q) : \E i \in 1 .. Len(queue[q]) : queue[q][i] = x
  <2>1. S(q) \in SUBSET Task
    BY DEF Roots
  <2>2. IsFiniteSet(S(q))
    BY <2>1, TaskAssumption, FS_Subset
  <2>3. queue[q] = SetToSeq(S(q))
    BY DEF Init
  <2> HIDE DEF S
  <2> QED
    BY <2>2, <2>3, SetToSeqOnce
<1>2. \A q \in Thread : \A i \in 1 .. Len(queue[q]) :
        queue[q][i] \in Roots /\ Home(queue[q][i]) = q
  <2>1. ASSUME NEW q \in Thread, NEW i \in 1 .. Len(queue[q])
        PROVE  queue[q][i] \in S(q)
    <3> HIDE DEF S
    <3> QED
      BY <1>1, ElementOfSeq
  <2> QED
    BY <2>1
<1>3. \A t \in Thread : pc[t] = "loop"
  BY DEF Init
<1>4. \A x \in Task : Home(x) \in Thread
  BY GraphAssumption DEF Init, Home
<1>5. \A x \in Task : Queued(x) <=> x \in Roots
  <2>1. ASSUME NEW x \in Task, Queued(x) PROVE x \in Roots
    BY <1>2, <2>1 DEF Queued
  <2>2. ASSUME NEW x \in Task, x \in Roots PROVE Queued(x)
    BY <1>1, <1>4, <2>2 DEF Queued
  <2> QED
    BY <2>1, <2>2
<1>6. \A x : ~ Taken(x) /\ ~ Added(x)
  BY <1>3 DEF Taken, Added, Ready, Adding
<1>7. \A x : OpenEdges(x) = EdgesTo(x)
  BY DEF Init, OpenEdges, EdgeOpen
<1>8. \A x \in Task : x \in Roots <=> EdgesTo(x) = {}
  BY DEF Roots, Parents
<1>9. QueuesOnce
  <2>1. \A q \in Thread : \A i, j \in 1 .. Len(queue[q]) :
          queue[q][i] = queue[q][j] => i = j
    BY <1>1
  <2> QED
    BY <1>2, <2>1 DEF QueuesOnce
<1>10. WorkersOnce
  BY <1>3 DEF WorkersOnce, Off, Ready, After, Adding
<1>11. OnePlace
  BY <1>3, <1>6 DEF Init, OnePlace, After
<1>12. CountersOpen
  <2>1. \A x \in Task : Cardinality(EdgesTo(x)) \in Int
    BY EdgesFinite, FS_CardinalityType
  <2>2. parents = [x \in Task |-> Cardinality(EdgesTo(x))]
    BY DEF Init
  <2> QED
    BY <1>7, <2>1, <2>2 DEF CountersOpen
<1>13. Placed
  BY <1>5, <1>6, <1>7, <1>8 DEF Init, Placed
<1> QED
  BY <1>9, <1>10, <1>11, <1>12, <1>13 DEF Places

-----------------------------------------------------------------------------
(* A task that leaves its queue is in the hands of the thread that took it.*)
LEMMA PlacesTake ==
  ASSUME NEW t \in Thread, Types, TaskOK, QueueOK, Places, TakeTask(t)
  PROVE  /\ Places'
         /\ Queued(cur[t]) /\ \A y : Queued(y)' <=> Queued(y) /\ y # cur[t]
<1> DEFINE x == cur[t]
           q0 == at[t]
           i0 == pos[t]
<1>1. /\ pc[t] = "take" /\ x \in Task /\ q0 \in Thread
      /\ i0 \in 1 .. Len(queue[q0]) /\ queue[q0][i0] = x /\ queue[q0] \in Seq(Task)
  BY DEF TakeTask, Types, TaskOK, QueueOK, HasTask, Scanning
<1>2. /\ UNCHANGED <<done, parents, cur, pos>>
      /\ \A u \in Thread \ {t} : pc'[u] = pc[u]
      /\ pc'[t] \in Ready
  BY <1>1 DEF TakeTask, Types, Goto, Ready
<1>3. /\ \A q \in Thread \ {q0} : queue'[q] = queue[q]
      /\ Len(queue'[q0]) = Len(queue[q0]) - 1
      /\ \A j \in 1 .. Len(queue[q0]) - 1 :
           queue'[q0][j] = IF j < i0 THEN queue[q0][j] ELSE queue[q0][j + 1]
  <2>1. queue' = [queue EXCEPT ![q0] = RemoveAt(queue[q0], i0)]
    BY DEF TakeTask
  <2>2. queue'[q0] = RemoveAt(queue[q0], i0)
    BY <1>1, <2>1 DEF Types
  <2>3. \A q \in Thread \ {q0} : queue'[q] = queue[q]
    BY <2>1 DEF Types
  <2> HIDE DEF i0, q0
  <2> QED
    BY <1>1, <2>2, <2>3, RemoveAtElements
<1> HIDE DEF x, q0, i0
<1>4. Len(queue[q0]) \in Nat
  BY <1>1
(* An element of a queue after the step is one of before, elsewhere than   *)
(* the task that was taken, and the other way round.                       *)
<1> DEFINE Old(q, i) == IF q = q0 /\ i >= i0 THEN i + 1 ELSE i
<1>5. ASSUME NEW q \in Thread, NEW i \in 1 .. Len(queue'[q])
      PROVE  /\ Old(q, i) \in 1 .. Len(queue[q]) /\ queue'[q][i] = queue[q][Old(q, i)]
             /\ q = q0 => Old(q, i) # i0
  <2>1. CASE q = q0
    <3>1. i \in 1 .. Len(queue[q0]) - 1
      BY <1>3, <2>1
    <3>2. queue'[q0][i] = IF i < i0 THEN queue[q0][i] ELSE queue[q0][i + 1]
      BY <1>3, <3>1
    <3>3. /\ Old(q0, i) \in 1 .. Len(queue[q0]) /\ Old(q0, i) # i0
          /\ Old(q0, i) = IF i < i0 THEN i ELSE i + 1
      BY <1>1, <1>4, <3>1
    <3> QED
      BY <2>1, <3>2, <3>3
  <2>2. CASE q # q0
    BY <1>3, <2>2
  <2> QED
    BY <2>1, <2>2
<1>6. ASSUME NEW q \in Thread, NEW j \in 1 .. Len(queue[q]), queue[q][j] # x
      PROVE  \E i \in 1 .. Len(queue'[q]) : queue'[q][i] = queue[q][j]
  <2>1. CASE q = q0
    <3>1. j # i0
      BY <1>1, <1>6, <2>1
    <3>2. CASE j < i0
      <4>1. j \in 1 .. Len(queue[q0]) - 1
        BY <1>1, <1>4, <1>6, <2>1, <3>2
      <4> QED
        BY <1>3, <2>1, <3>2, <4>1
    <3>3. CASE j > i0
      <4>1. /\ j - 1 \in 1 .. Len(queue[q0]) - 1 /\ ~ (j - 1 < i0)
            /\ (j - 1) + 1 = j
        BY <1>1, <1>4, <1>6, <2>1, <3>3
      <4>2. queue'[q0][j - 1] = queue[q0][(j - 1) + 1]
        BY <1>3, <4>1
      <4> QED
        BY <1>3, <2>1, <4>1, <4>2
    <3> QED
      BY <1>1, <1>4, <1>6, <2>1, <3>1, <3>2, <3>3
  <2>2. CASE q # q0
    BY <1>3, <2>2
  <2> QED
    BY <2>1, <2>2
<1>7. QueuesOnce'
  <2> SUFFICES ASSUME NEW q \in Thread, NEW r \in Thread,
                      NEW i \in 1 .. Len(queue'[q]), NEW j \in 1 .. Len(queue'[r]),
                      queue'[q][i] = queue'[r][j]
               PROVE  q = r /\ i = j
    BY DEF QueuesOnce
  <2>1. queue[q][Old(q, i)] = queue[r][Old(r, j)]
    BY <1>5
  <2>2. Old(q, i) \in 1 .. Len(queue[q]) /\ Old(r, j) \in 1 .. Len(queue[r])
    BY <1>5
  <2>3. q = r /\ Old(q, i) = Old(r, j)
    <3> HIDE DEF Old
    <3> QED
      BY <2>1, <2>2 DEF Places, QueuesOnce
  <2> QED
    BY <1>1, <1>4, <2>3
<1>8. Queued(x) /\ \A q \in Thread : \A i \in 1 .. Len(queue[q]) :
        queue[q][i] = x => q = q0 /\ i = i0
  BY <1>1 DEF Places, QueuesOnce, Queued
<1>9. \A y : Queued(y)' <=> Queued(y) /\ y # x
  <2>1. ASSUME NEW y, Queued(y)' PROVE Queued(y) /\ y # x
    <3>0. PICK q \in Thread : \E i \in 1 .. Len(queue'[q]) : queue'[q][i] = y
      BY <2>1 DEF Queued
    <3>1. PICK i \in 1 .. Len(queue'[q]) : queue'[q][i] = y
      BY <3>0
    <3>2. /\ Old(q, i) \in 1 .. Len(queue[q]) /\ y = queue[q][Old(q, i)]
          /\ q = q0 => Old(q, i) # i0
      BY <1>5, <3>1
    <3> HIDE DEF Old
    <3> QED
      BY <1>8, <3>2 DEF Queued
  <2>2. ASSUME NEW y, Queued(y), y # x PROVE Queued(y)'
    BY <1>6, <2>2 DEF Queued
  <2> QED
    BY <2>1, <2>2
<1>10. \A u \in Thread :
         /\ pc'[u] \in Ready <=> pc[u] \in Ready \/ u = t
         /\ pc'[u] \in After <=> pc[u] \in After
         /\ pc'[u] \in Adding <=> pc[u] \in Adding
         /\ Child(u)' = Child(u)
  BY <1>1, <1>2 DEF Ready, After, Adding, Child
<1>11. \A y : Taken(y)' <=> Taken(y) \/ y = x
  BY <1>2, <1>10 DEF Taken, x
<1>12. \A y : Added(y)' <=> Added(y)
  BY <1>10 DEF Added
<1>13. \A y : OpenEdges(y)' = OpenEdges(y)
  <2>1. \A e : EdgeOpen(e)' <=> EdgeOpen(e)
    BY <1>2, <1>10 DEF EdgeOpen
  <2> QED
    BY <2>1, SameEdges
<1>14. x \notin done /\ ~ Taken(x) /\ ~ Added(x)
  BY <1>1, <1>8 DEF Places, OnePlace
<1>15. \A u \in Thread : pc[u] \in Off => cur[u] # x
  BY <1>14 DEF Places, OnePlace, Off, Taken
<1>16. WorkersOnce'
  <2>1. pc[t] \notin Off /\ pc[t] \notin Adding
    BY <1>1 DEF Off, Ready, After, Adding
  <2>2. \A u \in Thread : pc'[u] \in Off <=> pc[u] \in Off \/ u = t
    BY <1>10 DEF Off
  <2>3. \A u \in Thread : cur'[u] = cur[u]
    BY <1>2
  <2> QED
    BY <1>10, <1>15, <2>1, <2>2, <2>3 DEF Places, WorkersOnce, x
<1>17. OnePlace'
  BY <1>2, <1>9, <1>10, <1>11, <1>12, <1>14 DEF Places, OnePlace
<1>18. CountersOpen' /\ Placed'
  BY <1>2, <1>8, <1>9, <1>11, <1>12, <1>13 DEF Places, CountersOpen, Placed
<1> QED
  BY <1>7, <1>8, <1>9, <1>16, <1>17, <1>18 DEF Places, x

(* Where the thread goes that stops a task.                                *)
LEMMA ExecuteGoes ==
  ASSUME NEW t \in Thread, Types, TaskOK, Execute(t)
  PROVE  /\ pc[t] = "exec" /\ cur[t] \in Task
         /\ pc'[t] \in {"child", "unlock0", "unlock1"}
         /\ \A u \in Thread \ {t} : pc'[u] = pc[u] /\ pos'[u] = pos[u]
         /\ pos'[t] = 0 /\ done' = done \cup {cur[t]}
         /\ UNCHANGED <<queue, parents, cur, count>>
<1>1. pc[t] = "exec" /\ cur[t] \in Task
  BY DEF Execute, TaskOK, HasTask
<1>2. Len(Deps[cur[t]]) \in 0 .. 2
  BY <1>1, DepsLength
<1>3. \E l \in {"child", "unlock0", "unlock1"} : pc' = [pc EXCEPT ![t] = l]
  <2>1. CASE Len(Deps[cur[t]]) = 0
    BY <2>1 DEF Execute, Goto
  <2>2. CASE Len(Deps[cur[t]]) = 1
    BY <2>2 DEF Execute, Goto
  <2>3. CASE Len(Deps[cur[t]]) = 2
    BY <2>3 DEF Execute, Goto
  <2> QED
    BY <1>2, <2>1, <2>2, <2>3
<1> QED
  BY <1>1, <1>3 DEF Execute, Types

(* A stopped task is done; its own edges stay open, because the thread is  *)
(* now at the start of its children.                                       *)
LEMMA PlacesExecute ==
  ASSUME NEW t \in Thread, Types, TaskOK, Places, Execute(t)
  PROVE  Places'
<1> DEFINE x == cur[t]
<1>1. /\ pc[t] = "exec" /\ x \in Task
      /\ pc'[t] \in {"child", "unlock0", "unlock1"}
      /\ \A u \in Thread \ {t} : pc'[u] = pc[u] /\ pos'[u] = pos[u]
      /\ pos'[t] = 0 /\ done' = done \cup {x}
      /\ UNCHANGED <<queue, parents, cur>>
  BY ExecuteGoes
<1>2. \A u \in Thread :
        /\ pc'[u] \in Ready <=> pc[u] \in Ready /\ u # t
        /\ pc'[u] \in After <=> pc[u] \in After \/ u = t
        /\ pc'[u] \in Adding <=> pc[u] \in Adding
        /\ pc'[u] \in Off <=> pc[u] \in Off
        /\ pc[u] \in Adding => Child(u)' = Child(u)
  BY <1>1 DEF Ready, After, Adding, Off, Child
<1>3. \A u \in Thread : u # t /\ pc[u] \in Off => cur[u] # x
  BY <1>1 DEF Places, WorkersOnce, Off, Ready
<1>4. Taken(x) /\ x \notin done /\ ~ Queued(x) /\ ~ Added(x)
  <2>1. Taken(x)
    BY <1>1 DEF Taken, Ready
  <2> QED
    BY <1>1, <2>1 DEF Places, OnePlace
<1>5. \A y : OpenEdges(y)' = OpenEdges(y)
  <2>1. ASSUME NEW y, NEW e \in EdgesTo(y) PROVE EdgeOpen(e)' <=> EdgeOpen(e)
    <3>1. CASE e[1] = x
      <4>1. e[2] > 0
        BY <2>1 DEF EdgesTo
      <4>2. EdgeOpen(e)'
        BY <1>1, <1>2, <3>1, <4>1 DEF EdgeOpen
      <4>3. EdgeOpen(e)
        BY <1>4, <3>1 DEF EdgeOpen
      <4> QED
        BY <4>2, <4>3
    <3>2. CASE e[1] # x
      BY <1>1, <1>2, <3>2 DEF EdgeOpen
    <3> QED
      BY <3>1, <3>2
  <2> QED
    BY <2>1 DEF OpenEdges
<1> HIDE DEF x
<1>6. \A y : Queued(y)' <=> Queued(y)
  BY <1>1 DEF Queued
<1>7. \A y : Taken(y)' <=> Taken(y) /\ y # x
  BY <1>1, <1>2, <1>3 DEF Taken, Off, x
<1>8. \A y : Added(y)' <=> Added(y)
  BY <1>2 DEF Added
<1>9. QueuesOnce'
  BY <1>1 DEF Places, QueuesOnce
<1>10. WorkersOnce'
  BY <1>1, <1>2 DEF Places, WorkersOnce
<1>11. OnePlace'
  BY <1>1, <1>2, <1>4, <1>6, <1>7, <1>8 DEF Places, OnePlace, x
<1>12. CountersOpen' /\ Placed'
  BY <1>1, <1>4, <1>5, <1>6, <1>7, <1>8 DEF Places, CountersOpen, Placed
<1> QED
  BY <1>9, <1>10, <1>11, <1>12 DEF Places

(* The place of the parent in the counter of a child is taken away: the    *)
(* edge is closed, and the thread that closes the last one has the child.  *)
LEMMA PlacesDecrement ==
  ASSUME NEW t \in Thread, Types, TaskOK, Places, DecrementParents(t)
  PROVE  Places'
<1>x. PICK x : x = cur[t]
  OBVIOUS
<1>c. PICK c : c = Children[cur[t]][pos[t] + 1]
  OBVIOUS
<1>d. PICK d : d = <<cur[t], pos[t] + 1>>
  OBVIOUS
<1>1. /\ pc[t] = "child" /\ x \in Task /\ pos[t] \in Nat
      /\ Children[x] \in Seq(Task) /\ Len(Children[x]) <= 7
      /\ pos[t] + 1 \in 1 .. Len(Children[x])
  BY <1>x, GraphAssumption DEF DecrementParents, Types, TaskOK, HasTask
<1>2. c \in Task
  BY <1>x, <1>c, <1>1
<1>3. d \in EdgesTo(c)
  <2>1. d \in Task \X (1 .. 7)
    BY <1>x, <1>d, <1>1
  <2>2. DOMAIN Children[x] = 1 .. Len(Children[x])
    BY <1>1
  <2> QED
    BY <1>x, <1>c, <1>d, <1>1, <2>1, <2>2 DEF EdgesTo
<1>4. /\ UNCHANGED <<queue, done, cur>>
      /\ \A u \in Thread \ {t} : pc'[u] = pc[u] /\ pos'[u] = pos[u]
      /\ pos'[t] = pos[t] + 1
      /\ pc'[t] = IF parents[c] = 1 THEN "home" ELSE "child"
      /\ parents' = [parents EXCEPT ![c] = @ - 1]
  BY <1>c DEF DecrementParents, Types, Goto
<1>5. x \in done /\ \A u \in Thread : u # t /\ pc[u] \in Off => cur[u] # x
  BY <1>x, <1>1 DEF Places, OnePlace, WorkersOnce, Off, After
<1>6. pc'[t] \in After /\ pc[t] \in After /\ \A u \in Thread : pc'[u] \in After <=> pc[u] \in After
  BY <1>1, <1>4 DEF After
<1>7. EdgeOpen(d)
  BY <1>d, <1>1, <1>6 DEF EdgeOpen
<1>8. ASSUME NEW y, NEW e \in EdgesTo(y) PROVE EdgeOpen(e)' <=> EdgeOpen(e) /\ e # d
  <2>1. e = <<e[1], e[2]>> /\ e[2] \in 1 .. 7
    BY <1>8 DEF EdgesTo
  <2>2. CASE e[1] # x
    <3>1. e # d
      BY <1>x, <1>d, <2>2
    <3> QED
      BY <1>x, <1>4, <1>6, <2>2, <3>1 DEF EdgeOpen
  <2>3. CASE e[1] = x
    <3>1. EdgeOpen(e) <=> e[2] > pos[t]
      BY <1>x, <1>5, <1>6, <2>3 DEF EdgeOpen, Off
    <3>2. EdgeOpen(e)' <=> e[2] > pos[t] + 1
      <4>1. \A u \in Thread : pc'[u] \in After /\ cur'[u] = e[1] => u = t
        BY <1>x, <1>4, <1>5, <1>6, <2>3 DEF Off
      <4> QED
        BY <1>x, <1>4, <1>5, <1>6, <2>3, <4>1 DEF EdgeOpen
    <3>3. e = d <=> e[2] = pos[t] + 1
      BY <1>x, <1>d, <2>1, <2>3
    <3>4. e[2] > pos[t] + 1 <=> e[2] > pos[t] /\ e[2] # pos[t] + 1
      <4>1. e[2] \in Int /\ pos[t] \in Int
        BY <1>1, <2>1
      <4> QED
        BY <4>1
    <3> QED
      BY <3>1, <3>2, <3>3, <3>4, Zenon
  <2> QED
    BY <2>2, <2>3
<1>9. /\ OpenEdges(c)' = OpenEdges(c) \ {d} /\ d \in OpenEdges(c)
      /\ \A y : y # c => OpenEdges(y)' = OpenEdges(y)
  <2>1. \A y : OpenEdges(y)' = {e \in EdgesTo(y) : EdgeOpen(e) /\ e # d}
    BY <1>8 DEF OpenEdges
  <2>2. \A y : y # c => d \notin EdgesTo(y)
    BY <1>3 DEF EdgesTo
  <2>3. OpenEdges(c)' = OpenEdges(c) \ {d}
    BY <2>1 DEF OpenEdges
  <2>4. \A y : y # c => OpenEdges(y)' = OpenEdges(y)
    BY <2>1, <2>2 DEF OpenEdges
  <2> QED
    BY <1>3, <1>7, <2>3, <2>4 DEF OpenEdges
<1>10. /\ parents[c] = Cardinality(OpenEdges(c)) /\ Cardinality(OpenEdges(c)) \in Nat
       /\ Cardinality(OpenEdges(c)') = Cardinality(OpenEdges(c)) - 1
       /\ parents'[c] = parents[c] - 1
       /\ \A y \in Task : y # c => parents'[y] = parents[y]
       /\ parents' \in [Task -> Int]
  <2>1. parents[c] = Cardinality(OpenEdges(c)) /\ parents \in [Task -> Int]
    BY <1>2 DEF Places, CountersOpen
  <2>2. IsFiniteSet(OpenEdges(c)) /\ Cardinality(OpenEdges(c)) \in Nat
    BY OpenFinite
  <2>3. Cardinality(OpenEdges(c) \ {d}) = Cardinality(OpenEdges(c)) - 1
    BY <1>9, <2>2, FS_RemoveElement
  <2> QED
    BY <1>2, <1>4, <1>9, <2>1, <2>2, <2>3
<1>11. CountersOpen'
  BY <1>9, <1>10 DEF Places, CountersOpen
<1>12. c \notin done /\ ~ Queued(c) /\ ~ Taken(c) /\ ~ Added(c)
  BY <1>2, <1>9 DEF Places, Placed
<1>13. OpenEdges(c)' = {} <=> parents[c] = 1
  <2>1. IsFiniteSet(OpenEdges(c)')
    BY <1>9, OpenFinite, FS_RemoveElement
  <2>2. OpenEdges(c)' = {} <=> Cardinality(OpenEdges(c)') = 0
    BY <2>1, FS_EmptySet
  <2> QED
    BY <1>10, <2>2
<1>14. Child(t)' = c
  BY <1>c, <1>4 DEF Child
<1>15. \A u \in Thread : u # t => (pc'[u] \in Adding <=> pc[u] \in Adding) /\ Child(u)' = Child(u)
  BY <1>4 DEF Child
<1>16. pc[t] \notin Adding /\ (pc'[t] \in Adding <=> parents[c] = 1)
  BY <1>1, <1>4 DEF Adding
<1>17. \A y : Added(y)' <=> Added(y) \/ (y = c /\ parents[c] = 1)
  BY <1>14, <1>15, <1>16 DEF Added
<1>18. \A y : (Queued(y)' <=> Queued(y)) /\ (Taken(y)' <=> Taken(y))
  <2>1. \A u \in Thread : pc'[u] \in Ready <=> pc[u] \in Ready
    BY <1>1, <1>4 DEF Ready
  <2> QED
    BY <1>4, <2>1 DEF Queued, Taken
<1>19. QueuesOnce'
  BY <1>4 DEF Places, QueuesOnce
<1>20. WorkersOnce'
  <2>1. \A u \in Thread : pc'[u] \in Off <=> pc[u] \in Off
    BY <1>1, <1>4 DEF Off, Ready, After
  <2>2. \A u \in Thread : pc[u] \in Adding => Child(u) # c
    BY <1>12 DEF Added
  <2> QED
    BY <1>4, <1>14, <1>15, <1>16, <2>1, <2>2 DEF Places, WorkersOnce
<1>21. OnePlace'
  BY <1>4, <1>6, <1>12, <1>17, <1>18 DEF Places, OnePlace
<1>22. Placed'
  BY <1>4, <1>9, <1>12, <1>13, <1>17, <1>18 DEF Places, Placed
<1> QED
  BY <1>11, <1>19, <1>20, <1>21, <1>22 DEF Places

(* A child that is added leaves the hands of the thread for a queue.       *)
LEMMA PlacesPush ==
  ASSUME NEW t \in Thread, Types, TaskOK, QueueOK, Places, PushChild(t)
  PROVE  /\ Places'
         /\ Added(Child(t)) /\ \A y : Queued(y)' <=> Queued(y) \/ y = Child(t)
<1>c. PICK c : c = Child(t)
  OBVIOUS
<1>q. PICK q0 : q0 = at[t]
  OBVIOUS
<1>1. /\ pc[t] = "push" /\ c \in Task /\ q0 \in Thread /\ queue[q0] \in Seq(Task)
  BY <1>c, <1>q, ChildIsTask DEF PushChild, Types
<1>2. /\ UNCHANGED <<done, parents, cur, pos>>
      /\ \A u \in Thread \ {t} : pc'[u] = pc[u]
      /\ pc'[t] = "incr"
  BY DEF PushChild, Types, Goto
<1>3. /\ \A q \in Thread \ {q0} : queue'[q] = queue[q]
      /\ Len(queue'[q0]) = Len(queue[q0]) + 1
      /\ \A i \in 1 .. Len(queue[q0]) : queue'[q0][i] = queue[q0][i]
      /\ queue'[q0][Len(queue[q0]) + 1] = c
  <2>1. queue'[q0] = Append(queue[q0], c) /\ \A q \in Thread \ {q0} : queue'[q] = queue[q]
    BY <1>1, <1>c, <1>q DEF PushChild, Types
  <2> QED
    BY <1>1, <2>1, AppendProperties
<1>4. Len(queue[q0]) \in Nat
  BY <1>1
<1>5. Added(c) /\ c \notin done /\ ~ Queued(c) /\ ~ Taken(c)
  <2>1. Added(c)
    BY <1>1, <1>c DEF Added, Adding
  <2> QED
    BY <1>1, <2>1 DEF Places, OnePlace
<1>6. ASSUME NEW q \in Thread, NEW i \in 1 .. Len(queue'[q])
      PROVE  \/ i \in 1 .. Len(queue[q]) /\ queue'[q][i] = queue[q][i] /\ queue[q][i] # c
             \/ q = q0 /\ i = Len(queue[q0]) + 1 /\ queue'[q][i] = c
  <2>1. i \in 1 .. Len(queue[q]) => queue[q][i] # c
    BY <1>5 DEF Queued
  <2> QED
    BY <1>3, <1>4, <2>1
<1>7. QueuesOnce'
  <2> SUFFICES ASSUME NEW q \in Thread, NEW r \in Thread,
                      NEW i \in 1 .. Len(queue'[q]), NEW j \in 1 .. Len(queue'[r]),
                      queue'[q][i] = queue'[r][j]
               PROVE  q = r /\ i = j
    BY DEF QueuesOnce
  <2>1. CASE queue'[q][i] = c
    <3>1. q = q0 /\ i = Len(queue[q0]) + 1
      BY <1>6, <2>1
    <3>2. r = q0 /\ j = Len(queue[q0]) + 1
      BY <1>6, <2>1
    <3> QED
      BY <3>1, <3>2
  <2>2. CASE queue'[q][i] # c
    <3>1. i \in 1 .. Len(queue[q]) /\ queue'[q][i] = queue[q][i]
      BY <1>6, <2>2
    <3>2. j \in 1 .. Len(queue[r]) /\ queue'[r][j] = queue[r][j]
      BY <1>6, <2>2
    <3>3. queue[q][i] = queue[r][j]
      BY <3>1, <3>2
    <3>4. QueuesOnce
      BY DEF Places
    <3> QED
      BY <3>1, <3>2, <3>3, <3>4 DEF QueuesOnce
  <2> QED
    BY <2>1, <2>2
<1>8. \A y : Queued(y)' <=> Queued(y) \/ y = c
  <2>1. ASSUME NEW y, Queued(y)' PROVE Queued(y) \/ y = c
    <3>1. PICK q \in Thread : \E i \in 1 .. Len(queue'[q]) : queue'[q][i] = y
      BY <2>1 DEF Queued
    <3> QED
      BY <1>6, <3>1 DEF Queued
  <2>2. ASSUME NEW y, Queued(y) PROVE Queued(y)'
    <3>1. PICK q \in Thread : \E i \in 1 .. Len(queue[q]) : queue[q][i] = y
      BY <2>2 DEF Queued
    <3>2. \E i \in 1 .. Len(queue'[q]) : queue'[q][i] = y
      BY <1>3, <1>4, <3>1
    <3> QED
      BY <3>2 DEF Queued
  <2>3. Queued(c)'
    <3>1. \E i \in 1 .. Len(queue'[q0]) : queue'[q0][i] = c
      BY <1>3, <1>4
    <3> QED
      BY <1>1, <3>1 DEF Queued
  <2> QED
    BY <2>1, <2>2, <2>3
<1>9. \A u \in Thread :
        /\ pc'[u] \in Ready <=> pc[u] \in Ready
        /\ pc'[u] \in After <=> pc[u] \in After
        /\ pc'[u] \in Off <=> pc[u] \in Off
        /\ pc'[u] \in Adding <=> pc[u] \in Adding /\ u # t
        /\ Child(u)' = Child(u)
  BY <1>1, <1>2 DEF Ready, After, Off, Adding, Child
<1>10. \A y : Taken(y)' <=> Taken(y)
  BY <1>2, <1>9 DEF Taken
<1>11. \A y : Added(y)' <=> Added(y) /\ y # c
  <2>1. \A u \in Thread : u # t /\ pc[u] \in Adding => Child(u) # c
    BY <1>1, <1>c DEF Places, WorkersOnce, Adding
  <2> QED
    BY <1>9, <1>c, <2>1 DEF Added
<1>12. \A y : OpenEdges(y)' = OpenEdges(y)
  <2>1. \A e : EdgeOpen(e)' <=> EdgeOpen(e)
    BY <1>2, <1>9 DEF EdgeOpen
  <2> QED
    BY <2>1, SameEdges
<1>13. WorkersOnce'
  BY <1>2, <1>9 DEF Places, WorkersOnce
<1>14. OnePlace'
  BY <1>2, <1>5, <1>8, <1>9, <1>10, <1>11 DEF Places, OnePlace
<1>15. CountersOpen' /\ Placed'
  BY <1>2, <1>5, <1>8, <1>10, <1>11, <1>12 DEF Places, CountersOpen, Placed
<1> QED
  BY <1>c, <1>5, <1>7, <1>8, <1>13, <1>14, <1>15 DEF Places

(* A thread leaves a task when all edges of the task are closed.           *)
LEMMA PlacesUncount ==
  ASSUME NEW t \in Thread, Types, TaskOK, Places, UncountTask(t)
  PROVE  Places'
<1>x. PICK x : x = cur[t]
  OBVIOUS
<1>1. /\ pc[t] = "child" /\ x \in Task /\ pos[t] = Len(Children[x])
      /\ Children[x] \in Seq(Task)
  BY <1>x, GraphAssumption DEF UncountTask, TaskOK, HasTask
<1>2. /\ UNCHANGED <<queue, done, parents>>
      /\ \A u \in Thread \ {t} : pc'[u] = pc[u] /\ cur'[u] = cur[u] /\ pos'[u] = pos[u]
      /\ pc'[t] = "loop"
  BY DEF UncountTask, Types, Goto
<1>3. \A u \in Thread :
        /\ pc'[u] \in Ready <=> pc[u] \in Ready
        /\ pc'[u] \in After <=> pc[u] \in After /\ u # t
        /\ pc'[u] \in Adding <=> pc[u] \in Adding
        /\ pc'[u] \in Adding => u # t
        /\ pc'[u] \in Off <=> pc[u] \in Off /\ u # t
  BY <1>1, <1>2 DEF Ready, After, Off, Adding
<1>4. \A u \in Thread : pc[u] \in Adding => Child(u)' = Child(u)
  BY <1>2, <1>3 DEF Child
<1>5. \A y : OpenEdges(y)' = OpenEdges(y)
  <2>1. ASSUME NEW y, NEW e \in EdgesTo(y) PROVE EdgeOpen(e)' <=> EdgeOpen(e)
    <3>1. e[1] = x => e[2] \in 1 .. Len(Children[x])
      BY <1>1, <2>1 DEF EdgesTo
    <3>2. e[1] = x => ~ (e[2] > pos[t])
      BY <1>1, <3>1
    <3> QED
      BY <1>2, <1>3, <1>x, <3>2 DEF EdgeOpen
  <2> QED
    BY <2>1 DEF OpenEdges
<1>6. \A y : (Queued(y)' <=> Queued(y)) /\ (Taken(y)' <=> Taken(y)) /\ (Added(y)' <=> Added(y))
  <2>1. \A u \in Thread : pc[u] \in Ready => cur'[u] = cur[u]
    BY <1>1, <1>2 DEF Ready
  <2>2. \A y : Queued(y)' <=> Queued(y)
    BY <1>2 DEF Queued
  <2>3. \A y : Taken(y)' <=> Taken(y)
    BY <1>3, <2>1 DEF Taken
  <2>4. \A y : Added(y)' <=> Added(y)
    BY <1>3, <1>4 DEF Added
  <2> QED
    BY <2>2, <2>3, <2>4
<1>7. QueuesOnce'
  BY <1>2 DEF Places, QueuesOnce
<1>8. WorkersOnce'
  BY <1>2, <1>3, <1>4 DEF Places, WorkersOnce
<1>9. OnePlace'
  BY <1>2, <1>3, <1>6 DEF Places, OnePlace
<1>10. CountersOpen' /\ Placed'
  BY <1>2, <1>5, <1>6 DEF Places, CountersOpen, Placed
<1> QED
  BY <1>7, <1>8, <1>9, <1>10 DEF Places

(* Every step leaves each task in one place, and each counter exact.       *)
LEMMA PlacesStep ==
  ASSUME NEW t \in Thread, Types, TaskOK, QueueOK, Places, Step(t)
  PROVE  Places'
<1> USE DEF Goto, shared
<1>1. ASSUME NEW l, pc' = [pc EXCEPT ![t] = l], UNCHANGED <<queue, done, parents, cur, pos>>,
             l \in Ready <=> pc[t] \in Ready, l \in After <=> pc[t] \in After,
             l \in Adding <=> pc[t] \in Adding
      PROVE  Places'
  <2>1. \A u \in Thread :
          /\ pc'[u] \in Ready <=> pc[u] \in Ready
          /\ pc'[u] \in After <=> pc[u] \in After
          /\ pc'[u] \in Adding <=> pc[u] \in Adding
    BY <1>1 DEF Types
  <2> QED
    BY <1>1, <2>1, PlacesFrame
<1>2. ASSUME pc[t] \notin Off, pc'[t] \notin Off, UNCHANGED <<queue, done, parents>>,
             \A u \in Thread \ {t} : pc'[u] = pc[u] /\ cur'[u] = cur[u] /\ pos'[u] = pos[u]
      PROVE  Places'
  <2>1. \A u \in Thread :
          /\ pc'[u] \in Ready <=> pc[u] \in Ready
          /\ pc'[u] \in After <=> pc[u] \in After
          /\ pc'[u] \in Adding <=> pc[u] \in Adding
          /\ pc[u] \in Off => cur'[u] = cur[u] /\ pos'[u] = pos[u]
    BY <1>2 DEF Off, Ready, After, Adding
  <2> QED
    BY <1>2, <2>1, PlacesFrame
<1>3. CASE Loop(t)
  BY <1>1, <1>3 DEF Loop, Ready, After, Adding
<1>4. CASE GetOwn(t)
  BY <1>2, <1>4 DEF GetOwn, StartScan, Types, Off, Ready, After
<1>5. CASE ReadSize(t)
  BY <1>2, <1>5 DEF ReadSize, Types, Off, Ready, After
<1>6. ASSUME NEW q \in Thread, TryQueue(t, q) PROVE Places'
  <2>1. CASE StartScan(t, q, "steal")
    BY <1>2, <1>6, <2>1 DEF TryQueue, StartScan, Types, Off, Ready, After
  <2>2. CASE UNCHANGED <<shared, pc, stage, cur, at, pos>>
    BY <2>2, PlacesFrame
  <2> QED
    BY <1>6, <2>1, <2>2 DEF TryQueue
<1>7. CASE NothingToSteal(t)
  BY <1>1, <1>7 DEF NothingToSteal, Ready, After, Adding
<1>8. CASE ScanTask(t)
  BY <1>2, <1>8 DEF ScanTask, Types, Off, Ready, After
<1>9. CASE TrySecond(t)
  BY <1>1, <1>9 DEF TrySecond, Ready, After, Adding
<1>10. CASE BackOff(t)
  BY <1>2, <1>10 DEF BackOff, Types, Off, Ready, After
<1>11. CASE TakeTask(t)
  BY <1>11, PlacesTake
<1>12. CASE ClaimSubgrid(t)
  BY <1>1, <1>12 DEF ClaimSubgrid, Ready, After, Adding
<1>13. CASE ScanFails(t)
  BY <1>1, <1>13 DEF ScanFails, Ready, After, Adding
<1>14. CASE Execute(t)
  BY <1>14, PlacesExecute
<1>15. CASE UnlockSecond(t)
  BY <1>1, <1>15 DEF UnlockSecond, Ready, After, Adding
<1>16. CASE UnlockFirst(t)
  BY <1>1, <1>16 DEF UnlockFirst, Ready, After, Adding
<1>17. CASE DecrementParents(t)
  BY <1>17, PlacesDecrement
<1>c. CASE ChooseQueue(t)
  BY <1>1, <1>c DEF ChooseQueue, shared, Ready, After, Adding
<1>18. CASE LockForAdd(t)
  BY <1>1, <1>18 DEF LockForAdd, Ready, After, Adding
<1>19. CASE PushChild(t)
  BY <1>19, PlacesPush
<1>20. CASE CountChild(t)
  BY <1>1, <1>20 DEF CountChild, Ready, After, Adding
<1>21. CASE UncountTask(t)
  BY <1>21, PlacesUncount
<1> QED
  BY <1>3, <1>4, <1>5, <1>6, <1>7, <1>8, <1>9, <1>10, <1>11, <1>12, <1>13, <1>14,
     <1>15, <1>16, <1>17, <1>18, <1>19, <1>20, <1>21, <1>c DEF Step

-----------------------------------------------------------------------------
(* The number of tasks. *)

(* The tasks that were added and are not finished with, and the threads    *)
(* that made a child available and did not count it yet.                   *)
Waiting == {x \in Task : Queued(x) \/ \E t \in Thread : pc[t] \in Off /\ cur[t] = x}
Pending == {t \in Thread : pc[t] = "incr"}

(* number_of_tasks is behind the available tasks by the pending ones; when *)
(* the last thread left the loop, it was not positive.                     *)
CountOK ==
  /\ count = Cardinality(Waiting) - Cardinality(Pending)
  /\ AllExit => count <= 0

(* Both are finite sets. *)
LEMMA CountParts ==
  /\ IsFiniteSet(Waiting) /\ Cardinality(Waiting) \in Nat
  /\ IsFiniteSet(Pending) /\ Cardinality(Pending) \in Nat
<1>1. Waiting \in SUBSET Task /\ Pending \in SUBSET Thread
  BY DEF Waiting, Pending
<1>2. IsFiniteSet(Thread)
  <2>1. 0 \in Int /\ NThread - 1 \in Int
    BY ThreadAssumption
  <2> QED
    BY <2>1, FS_Interval, Zenon DEF Thread
<1>3. IsFiniteSet(Waiting) /\ IsFiniteSet(Pending)
  BY <1>1, <1>2, TaskAssumption, FS_Subset
<1> QED
  BY <1>3, FS_CardinalityType

(* At the start the roots are counted, and they are in the queues.         *)
LEMMA CountInit == Init => CountOK
<1> SUFFICES ASSUME Init PROVE CountOK
  OBVIOUS
<1>1. Places
  BY PlacesInit
<1>2. \A t \in Thread : pc[t] = "loop"
  BY DEF Init
<1>3. \A x \in Task : Queued(x) <=> x \in Roots
  <2>1. \A x : ~ Taken(x) /\ ~ Added(x) /\ x \notin done
    BY <1>2 DEF Init, Taken, Added, Ready, Adding
  <2>2. \A x : OpenEdges(x) = EdgesTo(x)
    BY DEF Init, OpenEdges, EdgeOpen
  <2>3. \A x \in Task : x \in Roots <=> EdgesTo(x) = {}
    BY DEF Roots, Parents
  <2> QED
    BY <1>1, <2>1, <2>2, <2>3 DEF Places, Placed
<1>4. Waiting = Roots
  BY <1>2, <1>3 DEF Waiting, Off, Ready, After, Roots
<1>5. Pending = {} /\ Cardinality(Pending) = 0
  <2>1. Pending = {}
    BY <1>2 DEF Pending
  <2> QED
    BY <2>1, FS_EmptySet
<1>6. count = Cardinality(Waiting) - Cardinality(Pending)
  BY <1>4, <1>5, CountParts DEF Init
<1>7. ~ AllExit
  BY <1>2, ThreadAssumption DEF AllExit, Thread
<1> QED
  BY <1>6, <1>7 DEF CountOK

(* A step in which no task is added or finished.                           *)
LEMMA CountFrame ==
  ASSUME CountOK, UNCHANGED <<queue, count>>, ~ AllExit',
         \A u \in Thread :
           /\ pc'[u] \in Off <=> pc[u] \in Off
           /\ pc'[u] = "incr" <=> pc[u] = "incr"
           /\ pc[u] \in Off => cur'[u] = cur[u]
  PROVE  CountOK'
<1>1. Waiting' = Waiting
  BY DEF Waiting, Queued
<1>2. Pending' = Pending
  BY DEF Pending
<1> QED
  BY <1>1, <1>2 DEF CountOK

(* Every step keeps the count: a child is added before it is counted, and  *)
(* a task is counted off after its children.                               *)
LEMMA CountStep ==
  ASSUME NEW t \in Thread, Types, TaskOK, QueueOK, Places, CountOK, Step(t)
  PROVE  CountOK'
<1> USE DEF Goto, shared
<1>1. ASSUME NEW l \in Label \ {"exit"}, pc' = [pc EXCEPT ![t] = l],
             UNCHANGED <<queue, count>>,
             \A u \in Thread : pc[u] \in Off => cur'[u] = cur[u],
             l \in Off <=> pc[t] \in Off, l = "incr" <=> pc[t] = "incr"
      PROVE  CountOK'
  <2>1. ~ AllExit'
    BY <1>1 DEF AllExit, Types
  <2>2. \A u \in Thread :
          /\ pc'[u] \in Off <=> pc[u] \in Off
          /\ pc'[u] = "incr" <=> pc[u] = "incr"
    BY <1>1 DEF Types
  <2> QED
    BY <1>1, <2>1, <2>2, CountFrame
<1>2. CASE Loop(t)
  <2>1. CASE count > 0
    BY <1>1, <1>2, <2>1 DEF Loop, Off, Ready, After, Label
  <2>2. CASE ~ (count > 0)
    <3>1. pc[t] = "loop" /\ pc' = [pc EXCEPT ![t] = "exit"] /\ UNCHANGED <<queue, count, cur>>
      BY <1>2, <2>2 DEF Loop
    <3>2. \A u \in Thread :
            /\ pc'[u] \in Off <=> pc[u] \in Off
            /\ pc'[u] = "incr" <=> pc[u] = "incr"
      BY <3>1 DEF Types, Off, Ready, After
    <3>3. Waiting' = Waiting /\ Pending' = Pending
      BY <3>1, <3>2 DEF Waiting, Pending, Queued
    <3>4. count \in Int /\ count <= 0
      BY <2>2, CountParts DEF CountOK
    <3> QED
      BY <3>1, <3>3, <3>4 DEF CountOK
  <2> QED
    BY <2>1, <2>2
<1>3. CASE GetOwn(t)
  BY <1>1, <1>3 DEF GetOwn, StartScan, Off, Ready, After, Label
<1>4. CASE ReadSize(t)
  BY <1>1, <1>4 DEF ReadSize, Off, Ready, After, Label
<1>5. ASSUME NEW q \in Thread, TryQueue(t, q) PROVE CountOK'
  <2>1. CASE StartScan(t, q, "steal")
    BY <1>1, <1>5, <2>1 DEF TryQueue, StartScan, Off, Ready, After, Label
  <2>2. CASE UNCHANGED <<shared, pc, stage, cur, at, pos>>
    <3>1. pc[t] = "pick"
      BY <1>5 DEF TryQueue
    <3>2. ~ AllExit'
      BY <2>2, <3>1 DEF AllExit
    <3> QED
      BY <2>2, <3>2, CountFrame
  <2> QED
    BY <1>5, <2>1, <2>2 DEF TryQueue
<1>6. CASE NothingToSteal(t)
  BY <1>1, <1>6 DEF NothingToSteal, Off, Ready, After, Label
<1>7. CASE ScanTask(t)
  <2>1. pc[t] = "scan" /\ UNCHANGED <<queue, count>>
    BY <1>7 DEF ScanTask
  <2>2. \E l \in {"take", "second", "scan"} : pc' = [pc EXCEPT ![t] = l]
    BY <1>7 DEF ScanTask, Types
  <2>3. \A u \in Thread : pc[u] \in Off => cur'[u] = cur[u]
    BY <1>7, <2>1 DEF ScanTask, Types, Off, Ready, After
  <2> QED
    BY <1>1, <2>1, <2>2, <2>3 DEF Off, Ready, After, Label
<1>8. CASE TrySecond(t)
  BY <1>1, <1>8 DEF TrySecond, Off, Ready, After, Label
<1>9. CASE BackOff(t)
  BY <1>1, <1>9 DEF BackOff, Off, Ready, After, Label, Types
<1>10. CASE TakeTask(t)
  <2>1. /\ pc[t] = "take" /\ pc'[t] \in Ready /\ UNCHANGED <<cur, count>>
        /\ \A u \in Thread \ {t} : pc'[u] = pc[u]
    BY <1>10 DEF TakeTask, Types, Ready
  <2>2. Queued(cur[t]) /\ \A y : Queued(y)' <=> Queued(y) /\ y # cur[t]
    BY <1>10, PlacesTake
  <2>3. Waiting' = Waiting
    BY <2>1, <2>2 DEF Waiting, Off, Ready, After
  <2>4. Pending' = Pending
    BY <2>1 DEF Pending, Ready
  <2>5. ~ AllExit'
    BY <2>1 DEF AllExit, Ready
  <2> QED
    BY <2>1, <2>3, <2>4, <2>5 DEF CountOK
<1>11. CASE ClaimSubgrid(t)
  BY <1>1, <1>11 DEF ClaimSubgrid, Off, Ready, After, Label
<1>12. CASE ScanFails(t)
  BY <1>1, <1>12 DEF ScanFails, Off, Ready, After, Label
<1>13. CASE Execute(t)
  <2>1. /\ pc[t] = "exec" /\ pc'[t] \in {"child", "unlock0", "unlock1"}
        /\ \A u \in Thread \ {t} : pc'[u] = pc[u]
        /\ UNCHANGED <<queue, cur, count>>
    BY <1>13, ExecuteGoes
  <2>2. ~ AllExit'
    BY <2>1 DEF AllExit
  <2>3. \A u \in Thread :
          /\ pc'[u] \in Off <=> pc[u] \in Off
          /\ pc'[u] = "incr" <=> pc[u] = "incr"
    BY <2>1 DEF Off, Ready, After
  <2> QED
    BY <2>1, <2>2, <2>3, CountFrame
<1>14. CASE UnlockSecond(t)
  BY <1>1, <1>14 DEF UnlockSecond, Off, Ready, After, Label
<1>15. CASE UnlockFirst(t)
  BY <1>1, <1>15 DEF UnlockFirst, Off, Ready, After, Label
<1>16. CASE DecrementParents(t)
  BY <1>1, <1>16 DEF DecrementParents, Off, Ready, After, Label
<1>c. CASE ChooseQueue(t)
  BY <1>1, <1>c DEF ChooseQueue, shared, Off, Ready, After, Label
<1>17. CASE LockForAdd(t)
  BY <1>1, <1>17 DEF LockForAdd, Off, Ready, After, Label
<1>18. CASE PushChild(t)
  <2>c. PICK c : c = Child(t)
    OBVIOUS
  <2>1. /\ pc[t] = "push" /\ pc'[t] = "incr" /\ UNCHANGED <<cur, count>>
        /\ \A u \in Thread \ {t} : pc'[u] = pc[u]
    BY <1>18 DEF PushChild, Types
  <2>2. c \in Task /\ Added(c) /\ \A y : Queued(y)' <=> Queued(y) \/ y = c
    BY <1>18, <2>c, <2>1, PlacesPush, ChildIsTask
  <2>3. c \notin Waiting
    <3>1. c \notin done /\ ~ Queued(c) /\ ~ Taken(c)
      BY <2>2 DEF Places, OnePlace
    <3> QED
      BY <3>1 DEF Waiting, Taken, Off, Places, OnePlace
  <2>4. Waiting' = Waiting \cup {c}
    <3>1. \A u \in Thread : pc'[u] \in Off <=> pc[u] \in Off
      BY <2>1 DEF Off, Ready, After
    <3> QED
      BY <2>1, <2>2, <3>1 DEF Waiting
  <2>5. Pending' = Pending \cup {t} /\ t \notin Pending
    BY <2>1 DEF Pending
  <2>6. /\ Cardinality(Waiting') = Cardinality(Waiting) + 1
        /\ Cardinality(Pending') = Cardinality(Pending) + 1
    BY <2>3, <2>4, <2>5, CountParts, FS_AddElement
  <2>7. ~ AllExit'
    BY <2>1 DEF AllExit
  <2> QED
    BY <2>1, <2>6, <2>7, CountParts DEF CountOK
<1>19. CASE CountChild(t)
  <2>1. /\ pc[t] = "incr" /\ pc'[t] = "child" /\ UNCHANGED <<queue, cur>>
        /\ \A u \in Thread \ {t} : pc'[u] = pc[u]
        /\ count' = count + 1
    BY <1>19 DEF CountChild, Types
  <2>2. Waiting' = Waiting
    <3>1. \A u \in Thread : pc'[u] \in Off <=> pc[u] \in Off
      BY <2>1 DEF Off, Ready, After
    <3> QED
      BY <2>1, <3>1 DEF Waiting, Queued
  <2>3. Pending' = Pending \ {t} /\ t \in Pending
    BY <2>1 DEF Pending
  <2>4. Cardinality(Pending') = Cardinality(Pending) - 1
    BY <2>3, CountParts, FS_RemoveElement
  <2>5. ~ AllExit'
    BY <2>1 DEF AllExit
  <2> QED
    BY <2>1, <2>2, <2>4, <2>5, CountParts DEF CountOK
<1>20. CASE UncountTask(t)
  <2>x. PICK x : x = cur[t]
    OBVIOUS
  <2>1. /\ pc[t] = "child" /\ pc'[t] = "loop" /\ UNCHANGED queue /\ x \in Task
        /\ \A u \in Thread \ {t} : pc'[u] = pc[u] /\ cur'[u] = cur[u]
        /\ count' = count - 1
    BY <1>20, <2>x DEF UncountTask, Types, TaskOK, HasTask
  <2>2. /\ ~ Queued(x)
        /\ \A u \in Thread : u # t /\ pc[u] \in Off => cur[u] # x
    BY <2>x, <2>1 DEF Places, OnePlace, WorkersOnce, Off, After
  <2>3. x \in Waiting /\ Waiting' = Waiting \ {x}
    <3>1. x \in Waiting
      BY <2>x, <2>1 DEF Waiting, Off, After
    <3>2. \A u \in Thread : pc'[u] \in Off <=> pc[u] \in Off /\ u # t
      BY <2>1 DEF Off, Ready, After
    <3>3. \A y : Queued(y)' <=> Queued(y)
      BY <2>1 DEF Queued
    <3> QED
      BY <2>x, <2>1, <2>2, <3>1, <3>2, <3>3 DEF Waiting
  <2>4. Cardinality(Waiting') = Cardinality(Waiting) - 1
    BY <2>3, CountParts, FS_RemoveElement
  <2>5. Pending' = Pending
    BY <2>1 DEF Pending
  <2>6. ~ AllExit'
    BY <2>1 DEF AllExit
  <2> QED
    BY <2>1, <2>4, <2>5, <2>6, CountParts DEF CountOK
<1> QED
  BY <1>2, <1>3, <1>4, <1>5, <1>6, <1>7, <1>8, <1>9, <1>10, <1>11, <1>12, <1>13, <1>14,
     <1>15, <1>16, <1>17, <1>18, <1>19, <1>20, <1>c DEF Step

(* The places and the count, at the start and in every step.               *)
LEMMA PlacesInvariance == Spec => [](Places /\ CountOK)
<1> DEFINE Base == Types /\ TaskOK /\ QueueOK
           Inv == Places /\ CountOK
<1>1. Init => Inv
  BY PlacesInit, CountInit
<1>2. Base /\ Inv /\ [Next]_vars => Inv'
  <2> SUFFICES ASSUME Base, Inv, [Next]_vars PROVE Inv'
    OBVIOUS
  <2>1. ASSUME NEW t \in Thread, Step(t) PROVE Inv'
    BY <2>1, PlacesStep, CountStep
  <2>2. CASE UNCHANGED vars
    <3>1. Places'
      BY <2>2, PlacesFrame DEF vars
    <3>2. Waiting' = Waiting /\ Pending' = Pending /\ (AllExit' <=> AllExit) /\ count' = count
      BY <2>2 DEF vars, Waiting, Pending, AllExit, Queued
    <3> QED
      BY <3>1, <3>2 DEF CountOK
  <2> QED
    BY <2>1, <2>2 DEF Next, Finished
<1>3. Spec => []Base
  BY Invariance, PTL
<1> QED
  BY <1>1, <1>2, <1>3, PTL DEF Spec

-----------------------------------------------------------------------------
(* When all threads have left, no task waits in a queue: it would have     *)
(* been counted.                                                           *)
LEMMA ExitEmpty ==
  ASSUME CountOK, AllExit
  PROVE  Waiting = {}
<1>1. Pending = {}
  BY DEF Pending, AllExit
<1>2. Cardinality(Pending) = 0
  BY <1>1, FS_EmptySet
<1>3. Cardinality(Waiting) = 0
  BY <1>2, CountParts DEF CountOK
<1> QED
  BY <1>3, CountParts, FS_EmptySet

(* number_of_tasks may fall behind, and threads may leave the loop early,  *)
(* but when the last one leaves it every task was executed and no lock is  *)
(* left behind.  (If some tasks were not executed, one of them would wait  *)
(* for none of the others; it would have no open edge, hence a place.)     *)
THEOREM AllDoneAtExit == Spec => []ExitComplete
<1>1. Types /\ Exclusive /\ Places /\ CountOK => ExitComplete
  <2> SUFFICES ASSUME Types, Exclusive, Places, CountOK, AllExit
               PROVE  done = Task /\ \A l \in Lock : ~ locked[l]
    BY DEF ExitComplete
  <2>1. \A l \in Lock : ~ locked[l]
    <3>1. \A t \in Thread : Held(t) = {}
      BY DEF AllExit, Held, HasFirst
    <3> QED
      BY <3>1 DEF Exclusive
  <2>2. \A x \in Task : ~ Queued(x) /\ ~ Taken(x) /\ ~ Added(x)
    <3>1. \A x \in Task : ~ Queued(x)
      BY ExitEmpty DEF Waiting
    <3>2. \A x : ~ Taken(x) /\ ~ Added(x)
      BY DEF AllExit, Taken, Added, Ready, Adding
    <3> QED
      BY <3>1, <3>2
  <2>3. \A x \in Task : OpenEdges(x) = {} => x \in done
    BY <2>2 DEF Places, Placed
  <2>4. \A x \in Task : Parents(x) \subseteq done => OpenEdges(x) = {}
    <3>1. \A t \in Thread : pc[t] \notin After
      BY DEF AllExit, After
    <3> QED
      BY <3>1 DEF OpenEdges, EdgeOpen, Parents
  <2>5. Task \subseteq done
    <3> SUFFICES ASSUME Task \ done # {} PROVE FALSE
      OBVIOUS
    <3>1. PICK x \in Task \ done : \A y \in Task \ done : y \notin Parents(x)
      BY AcyclicAssumption
    <3>2. Parents(x) \subseteq Task
      BY DEF Parents, EdgesTo
    <3> QED
      BY <2>3, <2>4, <3>1, <3>2
  <2> QED
    BY <2>1, <2>5 DEF Places, OnePlace
<1> QED
  BY <1>1, Invariance, PlacesInvariance, PTL

-----------------------------------------------------------------------------
(* The abstract task pool. *)

(* Where a task counts as being executed in the pool.                      *)
Hand == {"take", "claim", "exec"}
Running == {cur[t] : t \in {u \in Thread : pc[u] \in Hand}}

(* No task is in the hands of two threads.                                 *)
HandsOnce ==
  \A t, u \in Thread : t # u /\ pc[t] \in Hand /\ pc[u] \in Hand => cur[t] # cur[u]

(* The task that a thread has locked is in the queue it still has the lock *)
(* of, and a task is in the queues once.                                   *)
LEMMA HandsInvariance == Spec => []HandsOnce
<1>1. Types /\ TaskOK /\ QueueOK /\ Places => HandsOnce
  <2> SUFFICES ASSUME Types, TaskOK, QueueOK, Places, NEW t \in Thread, NEW u \in Thread,
                      pc[t] \in Hand, pc[u] \in Hand, cur[t] = cur[u]
               PROVE  t = u
    BY DEF HandsOnce
  <2>1. ASSUME NEW v \in Thread, pc[v] = "take"
        PROVE  /\ at[v] \in Thread /\ pos[v] \in 1 .. Len(queue[at[v]])
               /\ queue[at[v]][pos[v]] = cur[v] /\ qlock[at[v]] = v
    BY <2>1 DEF Types, QueueOK, HasQueue, Scanning
  <2>2. \A v \in Thread : pc[v] = "take" => cur[v] \in Task /\ Queued(cur[v])
    BY <2>1 DEF Queued, TaskOK, HasTask
  <2>3. \A v \in Thread : pc[v] \in Ready => Taken(cur[v])
    BY DEF Taken
  <2>4. CASE pc[t] = "take" /\ pc[u] = "take"
    <3>1. at[t] = at[u]
      BY <2>1, <2>4 DEF Places, QueuesOnce
    <3> QED
      BY <2>1, <2>4, <3>1
  <2>5. CASE pc[t] \in Ready /\ pc[u] \in Ready
    BY <2>5 DEF Places, WorkersOnce, Off
  <2>6. CASE \/ pc[t] = "take" /\ pc[u] \in Ready
             \/ pc[u] = "take" /\ pc[t] \in Ready
    BY <2>2, <2>3, <2>6 DEF Places, OnePlace
  <2> QED
    BY <2>4, <2>5, <2>6 DEF Hand, Ready
<1> QED
  BY <1>1, Invariance, PlacesInvariance, PTL

(* There a thread has all locks of its task.                               *)
LEMMA HandLocks ==
  ASSUME NEW l \in Hand, NEW x
  PROVE  LocksAt(l, x) = {Deps[x][i] : i \in DOMAIN Deps[x]}
  BY DEF LocksAt, HasFirst, HasSecond, Hand

(* The last lock of a task is taken: the task begins.  It is in a queue,   *)
(* so that it was not executed, and all edges to it are closed.            *)
LEMMA BeginsInPool ==
  ASSUME NEW t \in Thread, Types', TaskOK', QueueOK', Exclusive', Places', HandsOnce',
         pc[t] \notin Hand, pc'[t] = "take", done' = done,
         \A u \in Thread \ {t} : pc'[u] = pc[u] /\ cur'[u] = cur[u]
  PROVE  \E x \in Task : Pool!Begin(x)
<1>x. PICK x : x = cur'[t]
  OBVIOUS
<1>1. x \in Task
  BY <1>x DEF TaskOK, HasTask
<1>2. Queued(x)'
  BY <1>x DEF Types, QueueOK, Scanning, Queued
<1>3. x \notin done
  BY <1>1, <1>2 DEF Places, OnePlace
<1>4. x \notin Running
  <2>1. \A u \in Thread : pc[u] \in Hand => u # t /\ cur[u] # x
    BY <1>x DEF HandsOnce, Hand
  <2> QED
    BY <2>1 DEF Running
<1>5. Parents(x) \subseteq done
  <2>1. OpenEdges(x)' = {}
    BY <1>1, <1>2 DEF Places, Placed
  <2>2. \A e \in EdgesTo(x) : e[1] \in done'
    BY <2>1 DEF OpenEdges, EdgeOpen
  <2> QED
    BY <2>2 DEF Parents
<1>6. ASSUME NEW y \in Running
      PROVE  /\ y \in Task
             /\ {Deps[x][i] : i \in DOMAIN Deps[x]} \cap {Deps[y][i] : i \in DOMAIN Deps[y]} = {}
  <2>1. PICK u \in Thread : pc[u] \in Hand /\ y = cur[u]
    BY DEF Running
  <2>2. u # t /\ pc'[u] \in Hand /\ cur'[u] = y
    BY <2>1
  <2>3. y \in Task
    BY <2>2 DEF TaskOK, HasTask, Hand
  <2>4. Held(t)' = LocksAt("take", x) /\ Held(u)' = LocksAt(pc'[u], y)
    BY <1>x, <2>2, HeldIsLocksAt
  <2>5. /\ LocksAt("take", x) = {Deps[x][i] : i \in DOMAIN Deps[x]}
        /\ LocksAt(pc'[u], y) = {Deps[y][i] : i \in DOMAIN Deps[y]}
    BY <2>2, HandLocks DEF Hand
  <2> QED
    BY <2>2, <2>3, <2>4, <2>5 DEF Exclusive
<1>7. Running' = Running \cup {x}
  BY <1>x DEF Running, Hand
<1> QED
  BY <1>1, <1>3, <1>4, <1>5, <1>6, <1>7 DEF Pool!Begin, Running, Hand

(* A task is stopped: it ends.                                             *)
LEMMA EndsInPool ==
  ASSUME NEW t \in Thread, Types, TaskOK, HandsOnce, Execute(t)
  PROVE  \E x \in Task : Pool!End(x)
<1>x. PICK x : x = cur[t]
  OBVIOUS
<1>1. /\ pc[t] = "exec" /\ x \in Task /\ pc'[t] \in {"child", "unlock0", "unlock1"}
      /\ \A u \in Thread \ {t} : pc'[u] = pc[u]
      /\ cur' = cur /\ done' = done \cup {x}
  BY <1>x, ExecuteGoes
<1>2. x \in Running
  BY <1>x, <1>1 DEF Running, Hand
<1>3. Running' = Running \ {x}
  <2>1. \A u \in Thread : pc'[u] \in Hand <=> pc[u] \in Hand /\ u # t
    BY <1>1 DEF Hand
  <2>2. \A u \in Thread : pc[u] \in Hand /\ u # t => cur[u] # x
    BY <1>x, <1>1 DEF HandsOnce, Hand
  <2> QED
    BY <1>x, <1>1, <2>1, <2>2 DEF Running
<1> QED
  BY <1>1, <1>2, <1>3 DEF Pool!End, Running, Hand

(* Any other step changes nothing in the pool.                             *)
LEMMA StuttersInPool ==
  ASSUME done' = done,
         \A u \in Thread :
           /\ pc'[u] \in Hand <=> pc[u] \in Hand
           /\ pc[u] \in Hand => cur'[u] = cur[u]
  PROVE  UNCHANGED Pool!vars
<1>1. Running' = Running
  BY DEF Running
<1> QED
  BY <1>1 DEF Pool!vars, Running, Hand

(* So every step of a thread is a step of the pool or none.                *)
LEMMA StepInPool ==
  ASSUME NEW t \in Thread, Types, TaskOK, QueueOK, Places, HandsOnce,
         Types', TaskOK', QueueOK', Exclusive', Places', HandsOnce', Step(t)
  PROVE  [Pool!Next]_Pool!vars
<1> USE DEF Goto, shared
<1>1. ASSUME NEW l, pc' = [pc EXCEPT ![t] = l], done' = done,
             \A u \in Thread : pc[u] \in Hand => cur'[u] = cur[u],
             l \in Hand <=> pc[t] \in Hand
      PROVE  UNCHANGED Pool!vars
  <2>1. \A u \in Thread : pc'[u] \in Hand <=> pc[u] \in Hand
    BY <1>1 DEF Types
  <2> QED
    BY <1>1, <2>1, StuttersInPool
<1>2. ASSUME pc[t] \notin Hand, pc' = [pc EXCEPT ![t] = "take"], done' = done,
             \A u \in Thread \ {t} : cur'[u] = cur[u]
      PROVE  Pool!Next
  <2>1. pc'[t] = "take" /\ \A u \in Thread \ {t} : pc'[u] = pc[u]
    BY <1>2 DEF Types
  <2> QED
    BY <1>2, <2>1, BeginsInPool DEF Pool!Next
<1>3. CASE Loop(t)
  BY <1>1, <1>3 DEF Loop, Hand
<1>4. CASE GetOwn(t)
  BY <1>1, <1>4 DEF GetOwn, StartScan, Hand
<1>5. CASE ReadSize(t)
  BY <1>1, <1>5 DEF ReadSize, Hand
<1>6. ASSUME NEW q \in Thread, TryQueue(t, q) PROVE UNCHANGED Pool!vars
  <2>1. CASE StartScan(t, q, "steal")
    BY <1>1, <1>6, <2>1 DEF TryQueue, StartScan, Hand
  <2>2. CASE UNCHANGED <<shared, pc, stage, cur, at, pos>>
    BY <2>2, StuttersInPool
  <2> QED
    BY <1>6, <2>1, <2>2 DEF TryQueue
<1>7. CASE NothingToSteal(t)
  BY <1>1, <1>7 DEF NothingToSteal, Hand
<1>8. CASE ScanTask(t)
  <2>1. /\ pc[t] = "scan" /\ done' = done
        /\ \A u \in Thread \ {t} : cur'[u] = cur[u]
    BY <1>8 DEF ScanTask, Types
  <2>2. \E l \in {"take", "second", "scan"} : pc' = [pc EXCEPT ![t] = l]
    BY <1>8 DEF ScanTask, Types
  <2>3. CASE pc' = [pc EXCEPT ![t] = "take"]
    BY <1>2, <2>1, <2>3 DEF Hand
  <2>4. CASE \E l \in {"second", "scan"} : pc' = [pc EXCEPT ![t] = l]
    BY <1>1, <2>1, <2>4 DEF Hand
  <2> QED
    BY <2>2, <2>3, <2>4
<1>9. CASE TrySecond(t)
  <2>1. pc[t] = "second" /\ UNCHANGED <<done, cur>>
    BY <1>9 DEF TrySecond
  <2>2. \E l \in {"take", "back"} : pc' = [pc EXCEPT ![t] = l]
    BY <1>9 DEF TrySecond
  <2>3. CASE pc' = [pc EXCEPT ![t] = "take"]
    BY <1>2, <2>1, <2>3 DEF Hand
  <2>4. CASE pc' = [pc EXCEPT ![t] = "back"]
    BY <1>1, <2>1, <2>4 DEF Hand
  <2> QED
    BY <2>2, <2>3, <2>4
<1>10. CASE BackOff(t)
  BY <1>1, <1>10 DEF BackOff, Hand, Types
<1>11. CASE TakeTask(t)
  BY <1>1, <1>11 DEF TakeTask, Hand
<1>12. CASE ClaimSubgrid(t)
  BY <1>1, <1>12 DEF ClaimSubgrid, Hand
<1>13. CASE ScanFails(t)
  BY <1>1, <1>13 DEF ScanFails, Hand
<1>14. CASE Execute(t)
  BY <1>14, EndsInPool DEF Pool!Next
<1>15. CASE UnlockSecond(t)
  BY <1>1, <1>15 DEF UnlockSecond, Hand
<1>16. CASE UnlockFirst(t)
  BY <1>1, <1>16 DEF UnlockFirst, Hand
<1>17. CASE DecrementParents(t)
  BY <1>1, <1>17 DEF DecrementParents, Hand
<1>c. CASE ChooseQueue(t)
  BY <1>1, <1>c DEF ChooseQueue, shared, Hand
<1>18. CASE LockForAdd(t)
  BY <1>1, <1>18 DEF LockForAdd, Hand
<1>19. CASE PushChild(t)
  BY <1>1, <1>19 DEF PushChild, Hand
<1>20. CASE CountChild(t)
  BY <1>1, <1>20 DEF CountChild, Hand
<1>21. CASE UncountTask(t)
  <2>1. pc[t] = "child" /\ pc' = [pc EXCEPT ![t] = "loop"] /\ done' = done
        /\ cur' = [cur EXCEPT ![t] = NoTask]
    BY <1>21 DEF UncountTask
  <2> QED
    BY <1>1, <2>1 DEF Hand, Types
<1> QED
  BY <1>3, <1>4, <1>5, <1>6, <1>7, <1>8, <1>9, <1>10, <1>11, <1>12, <1>13, <1>14,
     <1>15, <1>16, <1>17, <1>18, <1>19, <1>20, <1>21, <1>c DEF Step

(* The threads, queues and locks do what the abstract pool promises: every *)
(* task is executed once, after all its parents, and never together with a *)
(* task that needs one of its locks.                                       *)
THEOREM PoolImplemented == Spec => ImplementsPool
<1> DEFINE Inv == /\ Types /\ TaskOK /\ QueueOK /\ TwoLocks /\ Exclusive
                  /\ Places /\ CountOK /\ HandsOnce
<1>1. Init => Pool!Init
  BY DEF Init, Pool!Init
<1>2. Inv /\ Inv' /\ [Next]_vars => [Pool!Next]_Pool!vars
  <2> SUFFICES ASSUME Inv, Inv', [Next]_vars PROVE [Pool!Next]_Pool!vars
    OBVIOUS
  <2>1. ASSUME NEW t \in Thread, Step(t) PROVE [Pool!Next]_Pool!vars
    BY <2>1, StepInPool
  <2>2. CASE UNCHANGED vars
    BY <2>2, StuttersInPool DEF vars
  <2> QED
    BY <2>1, <2>2 DEF Next, Finished
<1>3. Spec => []Inv
  BY Invariance, PlacesInvariance, HandsInvariance, PTL
<1> QED
  BY <1>1, <1>2, <1>3, PTL DEF Spec, ImplementsPool, Pool!Spec
=============================================================================
