---------------------------- MODULE TaskScheduler ----------------------------
(***************************************************************************)
(* The execution of a graph of tasks by threads with one queue each        *)
(* (src/src/Task.hpp, TaskQueue.hpp, ThreadLock.hpp and the hydro loop of  *)
(* TaskBasedRadiationHydrodynamicsSimulation.cpp).                         *)
(*                                                                         *)
(* A task names up to two locks (its dependencies: the locks of the        *)
(* subgrids it works on).  It may start once the threads that look for     *)
(* work managed to take both with try_lock, while they scan a queue whose  *)
(* own lock they hold.  A finished task releases its locks, decrements the *)
(* counters of unfinished parents of its children and adds the ones that   *)
(* reach zero to the queue of the thread that owns their subgrid.          *)
(*                                                                         *)
(* One action is one atomic access to shared memory: a lock operation, an  *)
(* atomic counter operation, or the unlocked read of a queue's size.       *)
(***************************************************************************)
EXTENDS Integers, Sequences, FiniteSets, SequencesExt

CONSTANTS
  NThread,     \* number of threads, one queue each
  Task,        \* the tasks of the graph
  Lock,        \* the dependency locks, one per subgrid
  Deps,        \* [Task -> sequence of at most two locks], _dependency
  SubgridOf,   \* [Task -> Lock], the subgrid the task belongs to
  Children,    \* [Task -> sequence of tasks], _children
  NoTask       \* NO_TASK

Thread == 0 .. NThread - 1   \* the queues have the same numbers

NoThread == -1

(* The positions in the lists of children at which a task is listed. *)
EdgesTo(x) == {e \in Task \X (1 .. 7) :
                 e[2] \in DOMAIN Children[e[1]] /\ Children[e[1]][e[2]] = x}

Parents(x) == {e[1] : e \in EdgesTo(x)}

ASSUME ThreadAssumption == NThread \in Nat \ {0}
ASSUME TaskAssumption == IsFiniteSet(Task) /\ NoTask \notin Task
ASSUME DepsAssumption ==
  /\ Deps \in [Task -> Seq(Lock)]
  /\ \A x \in Task : Len(Deps[x]) <= 2
ASSUME GraphAssumption ==
  /\ SubgridOf \in [Task -> Lock]
  /\ Children \in [Task -> Seq(Task)]
  /\ \A x \in Task : Len(Children[x]) <= 7
(* Whatever tasks are looked at, one of them waits for none of the others. *)
ASSUME AcyclicAssumption ==
  \A S \in SUBSET Task : S # {} => \E x \in S : \A y \in S : y \notin Parents(x)

VARIABLES
  queue,    \* [Thread -> sequence of tasks], _queue and _current_queue_size
  qlock,    \* [Thread -> Thread or NoThread], _queue_lock and who has it
  locked,   \* [Lock -> BOOLEAN], the dependency locks
  owner,    \* [Lock -> Thread], the owning thread of each subgrid
  parents,  \* [Task -> Nat], _number_of_unfinished_parents
  count,    \* number_of_tasks
  done,     \* the tasks that were stopped, Task::done
  pc,       \* where each thread is
  stage,    \* which of its two ways to find a task a thread is in
  cur,      \* the task a thread tries to lock or executes
  at,       \* the queue it scans or adds to
  pos,      \* its position in that queue, in the queue sizes, in the children
  sizes     \* the queue sizes it has read

shared == <<queue, qlock, locked, owner, parents, count, done>>
vars   == <<queue, qlock, locked, owner, parents, count, done,
            pc, stage, cur, at, pos, sizes>>

Stage == {"own", "steal"}

Label == {"loop", "own", "sizes", "pick", "scan", "second", "back",
          "take", "claim", "exec", "unlock1", "unlock0", "child", "home",
          "add", "push", "incr", "exit"}

Goto(t, l) == pc' = [pc EXCEPT ![t] = l]

(* The queue a task is added to: queues[subgrid.get_owning_thread()].      *)
Home(x) == owner[SubgridOf[x]]

-----------------------------------------------------------------------------
(* The tasks without parents are enqueued before the threads start. *)
Roots == {x \in Task : Parents(x) = {}}

Init ==
  /\ owner \in [Lock -> Thread]
  /\ queue = [q \in Thread |-> SetToSeq({x \in Roots : Home(x) = q})]
  /\ qlock = [q \in Thread |-> NoThread]
  /\ locked = [l \in Lock |-> FALSE]
  /\ parents = [x \in Task |-> Cardinality(EdgesTo(x))]
  /\ count = Cardinality(Roots)
  /\ done = {}
  /\ pc = [t \in Thread |-> "loop"]
  /\ stage = [t \in Thread |-> "own"]
  /\ cur = [t \in Thread |-> NoTask]
  /\ at = [t \in Thread |-> t]
  /\ pos = [t \in Thread |-> 0]
  /\ sizes = [t \in Thread |-> [q \in Thread |-> 0]]

(* while (number_of_tasks.value() > 0) *)
Loop(t) ==
  /\ pc[t] = "loop"
  /\ Goto(t, IF count > 0 THEN "own" ELSE "exit")
  /\ UNCHANGED <<shared, stage, cur, at, pos, sizes>>

(* TaskQueue::get_task: wait for the lock of the queue, then scan it from  *)
(* its end.                                                                *)
StartScan(t, q, s) ==
  /\ qlock[q] = NoThread
  /\ qlock' = [qlock EXCEPT ![q] = t]
  /\ at' = [at EXCEPT ![t] = q]
  /\ pos' = [pos EXCEPT ![t] = Len(queue[q])]
  /\ stage' = [stage EXCEPT ![t] = s]
  /\ Goto(t, "scan")
  /\ UNCHANGED <<queue, locked, owner, parents, count, done, cur>>

GetOwn(t) ==
  /\ pc[t] = "own"
  /\ StartScan(t, t, "own")
  /\ UNCHANGED sizes

(* No task was found in the own queue: read the sizes of all queues, one   *)
(* after the other and without their locks.                                *)
ReadSize(t) ==
  /\ pc[t] = "sizes"
  /\ sizes' = [sizes EXCEPT ![t][pos[t]] = Len(queue[pos[t]])]
  /\ pos' = [pos EXCEPT ![t] = (@ + 1) % NThread]
  /\ Goto(t, IF pos[t] = NThread - 1 THEN "pick" ELSE "sizes")
  /\ UNCHANGED <<shared, stage, cur, at>>

(* try_get_task on the largest queue that was not tried yet (argsort does  *)
(* not order queues of the same size); a queue that somebody has locked is *)
(* skipped.  A queue that was tried is marked by the size 0.               *)
Largest(t, q) == sizes[t][q] > 0 /\ \A r \in Thread : sizes[t][r] <= sizes[t][q]

TryQueue(t, q) ==
  /\ pc[t] = "pick"
  /\ Largest(t, q)
  /\ sizes' = [sizes EXCEPT ![t][q] = 0]
  /\ \/ StartScan(t, q, "steal")
     \/ /\ qlock[q] # NoThread
        /\ UNCHANGED <<shared, pc, stage, cur, at, pos>>

(* Nothing to steal: the loop starts over. *)
NothingToSteal(t) ==
  /\ pc[t] = "pick"
  /\ \A q \in Thread : sizes[t][q] = 0
  /\ Goto(t, "loop")
  /\ UNCHANGED <<shared, stage, cur, at, pos, sizes>>

-----------------------------------------------------------------------------
(* Task::lock_dependency on the task under the cursor: try the first lock. *)
(* A task without dependencies can start at once.                          *)
ScanTask(t) ==
  LET x == queue[at[t]][pos[t]]
      d == Deps[x]
  IN
  /\ pc[t] = "scan"
  /\ pos[t] > 0
  /\ \/ /\ d = <<>>
        /\ cur' = [cur EXCEPT ![t] = x]
        /\ Goto(t, "take")
        /\ UNCHANGED <<locked, pos>>
     \/ /\ d # <<>>
        /\ ~ locked[d[1]]
        /\ locked' = [locked EXCEPT ![d[1]] = TRUE]
        /\ cur' = [cur EXCEPT ![t] = x]
        /\ Goto(t, IF Len(d) = 1 THEN "take" ELSE "second")
        /\ UNCHANGED pos
     \/ /\ d # <<>>
        /\ locked[d[1]]
        /\ pos' = [pos EXCEPT ![t] = @ - 1]
        /\ UNCHANGED <<pc, cur, locked>>
  /\ UNCHANGED <<queue, qlock, owner, parents, count, done, stage, at, sizes>>

FaultUnlockQueueEarly(t) ==   \* Seeded fault: the queue is unlocked with the task in it
  LET l == Deps[cur[t]][2] IN
  /\ pc[t] = "second"
  /\ locked' = [locked EXCEPT ![l] = TRUE]
  /\ qlock' = IF locked[l] THEN qlock ELSE [qlock EXCEPT ![at[t]] = NoThread]
  /\ Goto(t, IF locked[l] THEN "back" ELSE "take")
  /\ UNCHANGED <<queue, owner, parents, count, done, stage, cur, at, pos, sizes>>

FaultIgnoreSecond(t) ==   \* Seeded fault: start although the second lock is taken
  LET l == Deps[cur[t]][2] IN
  /\ pc[t] = "second"
  /\ locked' = [locked EXCEPT ![l] = TRUE]
  /\ Goto(t, "take")
  /\ UNCHANGED <<queue, qlock, owner, parents, count, done, stage, cur, at, pos, sizes>>

(* Try the second lock with the first one held. *)
TrySecond(t) ==
  LET l == Deps[cur[t]][2] IN
  /\ pc[t] = "second"
  /\ locked' = [locked EXCEPT ![l] = TRUE]
  /\ Goto(t, IF locked[l] THEN "back" ELSE "take")
  /\ UNCHANGED <<queue, qlock, owner, parents, count, done, stage, cur, at, pos, sizes>>

(* The second lock is taken: give the first one back, try the next task. *)
BackOff(t) ==
  /\ pc[t] = "back"
  /\ locked' = [locked EXCEPT ![Deps[cur[t]][1]] = FALSE]
  /\ pos' = [pos EXCEPT ![t] = @ - 1]
  /\ cur' = [cur EXCEPT ![t] = NoTask]
  /\ Goto(t, "scan")
  /\ UNCHANGED <<queue, qlock, owner, parents, count, done, stage, at, sizes>>


(* The task leaves the queue and the queue is unlocked. *)
TakeTask(t) ==
  /\ pc[t] = "take"
  /\ queue' = [queue EXCEPT ![at[t]] = RemoveAt(@, pos[t])]
  /\ qlock' = [qlock EXCEPT ![at[t]] = NoThread]
  /\ sizes' = [sizes EXCEPT ![t] = [q \in Thread |-> 0]]
  /\ Goto(t, IF stage[t] = "steal" THEN "claim" ELSE "exec")
  /\ UNCHANGED <<locked, owner, parents, count, done, stage, cur, at, pos>>

(* "stealing means transferring ownership": the thief becomes the owner of *)
(* the subgrid of the task.                                                *)
ClaimSubgrid(t) ==
  /\ pc[t] = "claim"
  /\ owner' = [owner EXCEPT ![SubgridOf[cur[t]]] = t]
  /\ Goto(t, "exec")
  /\ UNCHANGED <<queue, qlock, locked, parents, count, done, stage, cur, at, pos, sizes>>

(* No task of the queue could be locked: unlock it and go on with the next *)
(* way to find one.                                                        *)
ScanFails(t) ==
  /\ pc[t] = "scan"
  /\ pos[t] = 0
  /\ qlock' = [qlock EXCEPT ![at[t]] = NoThread]
  /\ Goto(t, IF stage[t] = "own" THEN "sizes" ELSE "pick")
  /\ UNCHANGED <<queue, locked, owner, parents, count, done, stage, cur, at, pos, sizes>>

-----------------------------------------------------------------------------
FaultUncountAtStop(t) ==   \* Seeded fault: the task is counted off here, too
  /\ pc[t] = "exec"
  /\ done' = done \cup {cur[t]}
  /\ count' = count - 1
  /\ pos' = [pos EXCEPT ![t] = 0]
  /\ Goto(t, <<"child", "unlock0", "unlock1">>[Len(Deps[cur[t]]) + 1])
  /\ UNCHANGED <<queue, qlock, locked, owner, parents, stage, cur, at, sizes>>

(* The task is executed and stopped.  (What it computes is not modelled.)  *)
Execute(t) ==
  /\ pc[t] = "exec"
  /\ done' = done \cup {cur[t]}
  /\ pos' = [pos EXCEPT ![t] = 0]
  /\ Goto(t, <<"child", "unlock0", "unlock1">>[Len(Deps[cur[t]]) + 1])
  /\ UNCHANGED <<queue, qlock, locked, owner, parents, count, stage, cur, at, sizes>>

(* Task::unlock_dependency: the second lock first. *)
UnlockSecond(t) ==
  /\ pc[t] = "unlock1"
  /\ locked' = [locked EXCEPT ![Deps[cur[t]][2]] = FALSE]
  /\ Goto(t, "unlock0")
  /\ UNCHANGED <<queue, qlock, owner, parents, count, done, stage, cur, at, pos, sizes>>

UnlockFirst(t) ==
  /\ pc[t] = "unlock0"
  /\ locked' = [locked EXCEPT ![Deps[cur[t]][1]] = FALSE]
  /\ Goto(t, "child")
  /\ UNCHANGED <<queue, qlock, owner, parents, count, done, stage, cur, at, pos, sizes>>

Child(t) == Children[cur[t]][pos[t]]

FaultAddAtOne(t) ==   \* Seeded fault: a child with one unfinished parent is added
  LET c == Children[cur[t]][pos[t] + 1] IN
  /\ pc[t] = "child"
  /\ pos[t] < Len(Children[cur[t]])
  /\ pos' = [pos EXCEPT ![t] = @ + 1]
  /\ parents' = [parents EXCEPT ![c] = @ - 1]
  /\ Goto(t, IF parents[c] <= 2 THEN "home" ELSE "child")
  /\ UNCHANGED <<queue, qlock, locked, owner, count, done, stage, cur, at, sizes>>


(* The next child: one unfinished parent less.  It is unlocked (added to a *)
(* queue) by the thread that takes the counter to zero.                    *)
DecrementParents(t) ==
  LET c == Children[cur[t]][pos[t] + 1] IN
  /\ pc[t] = "child"
  /\ pos[t] < Len(Children[cur[t]])
  /\ pos' = [pos EXCEPT ![t] = @ + 1]
  /\ parents' = [parents EXCEPT ![c] = @ - 1]
  /\ Goto(t, IF parents[c] = 1 THEN "home" ELSE "child")
  /\ UNCHANGED <<queue, qlock, locked, owner, count, done, stage, cur, at, sizes>>

(* The owner of the subgrid of the child is read without a lock: it may    *)
(* change while the thread waits for the queue it has chosen.              *)
ChooseQueue(t) ==
  /\ pc[t] = "home"
  /\ at' = [at EXCEPT ![t] = Home(Child(t))]
  /\ Goto(t, "add")
  /\ UNCHANGED <<shared, stage, cur, pos, sizes>>

(* TaskQueue::add_task: wait for the lock, then push and unlock. *)
LockForAdd(t) ==
  /\ pc[t] = "add"
  /\ qlock[at[t]] = NoThread
  /\ qlock' = [qlock EXCEPT ![at[t]] = t]
  /\ Goto(t, "push")
  /\ UNCHANGED <<queue, locked, owner, parents, count, done, stage, cur, at, pos, sizes>>

PushChild(t) ==
  /\ pc[t] = "push"
  /\ queue' = [queue EXCEPT ![at[t]] = Append(@, Child(t))]
  /\ qlock' = [qlock EXCEPT ![at[t]] = NoThread]
  /\ Goto(t, "incr")
  /\ UNCHANGED <<locked, owner, parents, count, done, stage, cur, at, pos, sizes>>


(* number_of_tasks.pre_increment(), after the child became available.      *)
CountChild(t) ==
  /\ pc[t] = "incr"
  /\ count' = count + 1
  /\ Goto(t, "child")
  /\ UNCHANGED <<queue, qlock, locked, owner, parents, done, stage, cur, at, pos, sizes>>

(* All children done: number_of_tasks.pre_decrement() for the task itself. *)
UncountTask(t) ==
  /\ pc[t] = "child"
  /\ pos[t] = Len(Children[cur[t]])
  /\ count' = count - 1
  /\ cur' = [cur EXCEPT ![t] = NoTask]
  /\ at' = [at EXCEPT ![t] = t]
  /\ pos' = [pos EXCEPT ![t] = 0]
  /\ Goto(t, "loop")
  /\ UNCHANGED <<queue, qlock, locked, owner, parents, done, stage, sizes>>

-----------------------------------------------------------------------------
Step(t) ==
  \/ Loop(t)
  \/ GetOwn(t)
  \/ ReadSize(t)
  \/ \E q \in Thread : TryQueue(t, q)
  \/ NothingToSteal(t)
  \/ ScanTask(t)
  \/ TrySecond(t)
  \/ BackOff(t)
  \/ TakeTask(t)
  \/ ClaimSubgrid(t)
  \/ ScanFails(t)
  \/ Execute(t)
  \/ UnlockSecond(t)
  \/ UnlockFirst(t)
  \/ DecrementParents(t)
  \/ ChooseQueue(t)
  \/ LockForAdd(t)
  \/ PushChild(t)
  \/ CountChild(t)
  \/ UncountTask(t)

AllExit == \A t \in Thread : pc[t] = "exit"

Finished == AllExit /\ UNCHANGED vars

Next == (\E t \in Thread : Step(t)) \/ Finished

Spec == Init /\ [][Next]_vars

(* Every thread keeps running.  The spin locks of the queues are not       *)
(* first-come first-served, but a thread that waits for a lock that is     *)
(* released again and again gets it at last.                               *)
Fairness ==
  \A t \in Thread :
    /\ WF_vars(Step(t))
    /\ SF_vars(GetOwn(t))
    /\ SF_vars(LockForAdd(t))

FairSpec == Spec /\ Fairness

-----------------------------------------------------------------------------
(* The dependency locks a thread has, by where it is. *)
HasFirst  == {"second", "back", "take", "claim", "exec", "unlock1", "unlock0"}
HasSecond == {"take", "claim", "exec", "unlock1"}

Held(t) ==
  IF pc[t] \in HasFirst
  THEN {Deps[cur[t]][i] : i \in {j \in DOMAIN Deps[cur[t]] : j = 1 \/ pc[t] \in HasSecond}}
  ELSE {}

(* No two threads work on the same subgrid: two tasks that have a          *)
(* dependency in common are never executed at the same time.  And no lock  *)
(* is left behind: it is set only while a thread has it.                   *)
Exclusive ==
  /\ \A t, u \in Thread : t # u => Held(t) \cap Held(u) = {}
  /\ \A l \in Lock : locked[l] <=> \E t \in Thread : l \in Held(t)

(* A thread works on a queue only under its lock: what it scans cannot     *)
(* move under its cursor.                                                  *)
Scanning == {"scan", "second", "back", "take"}

QueueExclusive ==
  /\ \A t \in Thread :
       pc[t] \in Scanning \cup {"push"} <=> \E q \in Thread : qlock[q] = t
  /\ \A t \in Thread :
       pc[t] \in Scanning \cup {"push"} => qlock[at[t]] = t
  /\ \A t \in Thread :
       pc[t] \in Scanning => pos[t] <= Len(queue[at[t]])
  /\ \A t \in Thread :
       pc[t] \in {"second", "back", "take"} => pos[t] > 0 /\ queue[at[t]][pos[t]] = cur[t]

(* A child is counted after it became available, so that number_of_tasks   *)
(* may fall behind and other threads may leave the loop early.  But when   *)
(* the last thread leaves it every task was executed, and all locks are    *)
(* free.                                                                   *)
ExitComplete == AllExit => done = Task /\ \A l \in Lock : ~ locked[l]

(* The threads, queues and locks implement the abstract task pool: a task  *)
(* begins when its last lock is taken and ends when it is stopped.         *)
Pool == INSTANCE TaskPool WITH
  LocksOf   <- [x \in Task |-> {Deps[x][i] : i \in DOMAIN Deps[x]}],
  ParentsOf <- [x \in Task |-> Parents(x)],
  running   <- {cur[t] : t \in {u \in Thread : pc[u] \in {"take", "claim", "exec"}}},
  finished  <- done

ImplementsPool == Pool!Spec

(* Every task is executed, and every thread leaves the loop: no deadlock   *)
(* on the locks of queues and subgrids, and no livelock of threads that    *)
(* take the first lock of a task and find the second one taken.            *)
AllTasksDone == <>(done = Task /\ AllExit)
=============================================================================
