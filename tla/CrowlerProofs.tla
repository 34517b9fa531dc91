---------------------------- MODULE CrowlerProofs ----------------------------
(***************************************************************************)
(* Proofs about SafeQueue, for any threads and tasks and any bound, and    *)
(* about Crowler, for any number of workers.                               *)
(*                                                                         *)
(* The mutex makes the queue sequential: its owner is the one thread in a  *)
(* locked phase, so what the owner has seen of queue_ is still so.  There  *)
(* is one push in a run of Crowler, so the task is in main's hands, in the *)
(* queue, or processed: the invariant follows it from one to the next.     *)
(***************************************************************************)
EXTENDS Crowler, TLAPS

-----------------------------------------------------------------------------
(* The queue.                                                              *)

\* A thread is in a locked phase exactly while it owns the mutex.
OwnerLocked == \A t \in Thread : phase[t] \in Locked <=> mutex_ = t

\* A thread in push has a task to push.
PushHasTask ==
  \A t \in Thread : phase[t] \in {"pushLock", "push"} => task[t] \in Task

QueueIInv ==
  QueueTypeOK /\ OwnerLocked /\ PushHasTask /\ PopHasTask /\ NoSleepOnWork

LEMMA QueueInitially == QueueInit => QueueIInv
BY QueueAssumption
   DEF QueueInit, QueueIInv, QueueTypeOK, OwnerLocked, PushHasTask,
       PopHasTask, NoSleepOnWork, Phase, Locked

\* Whatever a thread does inside the class, and whenever it enters it.
LEMMA ThreadKeepsQueue ==
  ASSUME NEW t \in Thread, QueueIInv,
         InQueue(t) \/ (\E x \in Task : CallPush(t, x)) \/ CallPop(t)
  PROVE  QueueIInv'
<1> USE QueueAssumption DEF Locked, QueueIInv, QueueTypeOK, OwnerLocked,
        PushHasTask, PopHasTask, NoSleepOnWork, Phase, Move, Lock, Unlock
<1>1. CASE \E x \in Task : CallPush(t, x)
  BY <1>1 DEF CallPush
<1>2. CASE CallPop(t)
  BY <1>2 DEF CallPop
<1>3. CASE LockPush(t)
  BY <1>3 DEF LockPush
<1>4. CASE PushTask(t)
  <2>1. queue_' \in Seq(Task) /\ queue_' # <<>>
    BY <1>4 DEF PushTask
  <2> QED
    BY <1>4, <2>1 DEF PushTask
<1>5. CASE NotifyAll(t)
  BY <1>5 DEF NotifyAll
<1>6. CASE LockPop(t)
  BY <1>6 DEF LockPop
<1>7. CASE Wait(t)
  BY <1>7 DEF Wait
<1>8. CASE Wake(t)
  BY <1>8 DEF Wake
<1>9. CASE PopTask(t)
  <2>1. queue_' \in Seq(Task) /\ task'[t] \in Task
    BY <1>9 DEF PopTask
  <2> QED
    BY <1>9, <2>1 DEF PopTask
<1> QED
  BY <1>1, <1>2, <1>3, <1>4, <1>5, <1>6, <1>7, <1>8, <1>9 DEF InQueue

LEMMA QueueUnchanged ==
  ASSUME QueueIInv, UNCHANGED queueVars PROVE QueueIInv'
BY DEF queueVars, QueueIInv, QueueTypeOK, OwnerLocked, PushHasTask, PopHasTask,
       NoSleepOnWork, Phase, Locked

LEMMA QueueStep == QueueIInv /\ [QueueNext]_queueVars => QueueIInv'
BY ThreadKeepsQueue, QueueUnchanged DEF QueueNext, Client

LEMMA QueueInvariant == QueueSpec => []QueueIInv
BY QueueInitially, QueueStep, PTL DEF QueueSpec

\* Every variable of the queue keeps its type.
THEOREM QueueTypeCorrect == QueueSpec => []QueueTypeOK
BY QueueInvariant, PTL DEF QueueIInv

\* pop never reads the front of an empty queue.
THEOREM PopNeverEmpty == QueueSpec => []PopHasTask
BY QueueInvariant, PTL DEF QueueIInv

\* No thread sleeps in pop while there is a task for it.
THEOREM NoLostWakeup == QueueSpec => []NoSleepOnWork
BY QueueInvariant, PTL DEF QueueIInv

-----------------------------------------------------------------------------
LEMMA FIFOInitially == QueueInit => FIFO!Init
BY DEF QueueInit, FIFO!Init

LEMMA FIFOStep ==
  QueueIInv /\ [QueueNext]_queueVars => [FIFO!Next]_(FIFO!vars)
<1> USE QueueAssumption
<1> SUFFICES ASSUME QueueIInv, [QueueNext]_queueVars
             PROVE  [FIFO!Next]_(FIFO!vars)
  OBVIOUS
<1>1. CASE UNCHANGED queueVars
  BY <1>1 DEF queueVars, FIFO!vars
<1>2. ASSUME NEW t \in Thread, InQueue(t) \/ Client(t)
      PROVE  [FIFO!Next]_(FIFO!vars)
  <2> USE DEF QueueIInv, QueueTypeOK, Phase, Move
  <2>1. ASSUME NEW x \in Task, CallPush(t, x) PROVE FIFO!Call(t, "push", x)
    BY <2>1 DEF CallPush, FIFO!Call
  <2>2. CASE CallPop(t)
    <3> DEFINE item == [s \in Thread |->
                          IF phase[s] = "notify" THEN NoTask ELSE task[s]]
    <3>1. item[t] = task[t] /\ FIFO!Call(t, "pop", item[t])
      BY <2>2 DEF CallPop, FIFO!Call
    <3> QED
      BY <3>1 DEF FIFO!Next, FIFO!Call
  <2>3. CASE LockPush(t)
    BY <2>3 DEF LockPush, FIFO!vars
  <2>4. CASE PushTask(t)
    <3>1. FIFO!Push(t)
      BY <2>4 DEF PushTask, FIFO!Push
    <3> QED
      BY <3>1 DEF FIFO!Next
  <2>5. CASE NotifyAll(t)
    BY <2>5 DEF NotifyAll, FIFO!vars
  <2>6. CASE LockPop(t)
    BY <2>6 DEF LockPop, FIFO!vars
  <2>7. CASE Wait(t)
    BY <2>7 DEF Wait, FIFO!vars
  <2>8. CASE Wake(t)
    BY <2>8 DEF Wake, FIFO!vars
  <2>9. CASE PopTask(t)
    <3>1. FIFO!Pop(t)
      BY <2>9 DEF PopTask, FIFO!Pop
    <3> QED
      BY <3>1 DEF FIFO!Next
  <2> QED
    BY <1>2, <2>1, <2>2, <2>3, <2>4, <2>5, <2>6, <2>7, <2>8, <2>9
       DEF InQueue, Client, FIFO!Next
<1> QED
  BY <1>1, <1>2 DEF QueueNext

\* The queue behaves as a FIFO whose operations happen at one moment.
THEOREM QueueIsFIFO == QueueSpec => ImplementsFIFO
BY QueueInvariant, FIFOInitially, FIFOStep, PTL
   DEF QueueSpec, ImplementsFIFO, FIFO!Spec

-----------------------------------------------------------------------------
(* The pool.                                                               *)

\* Main only pushes, workers only pop.
MainPushes ==
  /\ phase[Main] \in {"out", "pushLock", "push", "notify"}
  /\ main # "addToCrowlingQueue" => phase[Main] = "out"
  /\ phase[Main] \in {"pushLock", "push"} => task[Main] = StartTask

WorkersPop ==
  \A w \in Worker : phase[w] \notin {"pushLock", "push", "notify"}

\* Main has put the task into queue_.
Pushed ==
  /\ main \in {"addToCrowlingQueue", "join"}
  /\ phase[Main] \notin {"pushLock", "push"}

NotYet == \A x \in Task : runs[x] = 0

OnceStarted ==
  runs[StartTask] = 1 /\ \A x \in Task \ {StartTask} : runs[x] = 0

\* Where the one task is.
TaskIsSomewhere ==
  IF Pushed
  THEN (queue_ = <<StartTask>> /\ NotYet) \/ (queue_ = <<>> /\ OnceStarted)
  ELSE queue_ = <<>> /\ NotYet

PoolIInv ==
  TypeOK /\ QueueIInv /\ MainPushes /\ WorkersPop /\ TaskIsSomewhere

LEMMA PoolInitially == Init => PoolIInv
<1> SUFFICES ASSUME Init PROVE PoolIInv
  OBVIOUS
<1>1. QueueIInv
  BY QueueInitially DEF Init
<1>2. TypeOK
  BY <1>1 DEF Init, TypeOK, QueueIInv
<1>3. MainPushes /\ WorkersPop /\ TaskIsSomewhere
  BY PoolAssumption DEF Init, QueueInit, MainPushes, WorkersPop,
                        TaskIsSomewhere, Pushed, NotYet
<1> QED
  BY <1>1, <1>2, <1>3 DEF PoolIInv

\* Steps of main, of a worker, and of neither, that leave the queue alone.
LEMMA OutsideQueue ==
  ASSUME PoolIInv, UNCHANGED queueVars, UNCHANGED runs,
         pool' \subseteq Worker, started' \subseteq pool',
         main' \in {"construct", "processStartPage", "addToCrowlingQueue",
                    "join"},
         at' \in [Worker -> {"work", "pop", "processUrl"}],
         process' \in {"running", "returned", "aborted"},
         Pushed' = Pushed, main' # "addToCrowlingQueue" => phase[Main] = "out"
  PROVE  PoolIInv'
<1>1. QueueIInv'
  BY QueueUnchanged DEF PoolIInv
<1>2. TypeOK'
  BY <1>1 DEF PoolIInv, TypeOK, QueueIInv
<1>3. MainPushes' /\ WorkersPop' /\ TaskIsSomewhere'
  BY DEF PoolIInv, MainPushes, WorkersPop, TaskIsSomewhere, NotYet,
         OnceStarted, queueVars
<1> QED
  BY <1>1, <1>2, <1>3 DEF PoolIInv

LEMMA MainKeeps == ASSUME PoolIInv, MainStep \/ MainThrows PROVE PoolIInv'
<1> USE PoolAssumption DEF PoolIInv, TypeOK
<1>1. CASE StartWorker \/ JoinAll \/ MainThrows
  BY <1>1, OutsideQueue
     DEF StartWorker, JoinAll, MainThrows, Pushed, MainPushes, queueVars
<1>2. CASE Constructed \/ Destruct
  BY <1>2, OutsideQueue
     DEF Constructed, Destruct, Pushed, MainPushes, queueVars
<1>3. CASE ProcessStartPage
  <2>1. QueueIInv'
    BY <1>3, ThreadKeepsQueue DEF ProcessStartPage
  <2> QED
    BY <1>3, <2>1
       DEF ProcessStartPage, CallPush, Move, QueueIInv, QueueTypeOK, MainPushes,
           WorkersPop, TaskIsSomewhere, Pushed, NotYet
<1>4. CASE PushStep
  <2> USE DEF PushStep, poolVars, Move, QueueIInv, QueueTypeOK, MainPushes,
              WorkersPop, TaskIsSomewhere, Pushed, NotYet, OnceStarted
  <2>1. QueueIInv'
    BY <1>4, ThreadKeepsQueue DEF InQueue
  <2>2. CASE LockPush(Main)
    BY <1>4, <2>1, <2>2 DEF LockPush
  <2>3. CASE PushTask(Main)
    <3>1. queue_' = <<StartTask>>
      BY <2>3 DEF PushTask
    <3> QED
      BY <1>4, <2>1, <2>3, <3>1 DEF PushTask
  <2>4. CASE NotifyAll(Main)
    BY <1>4, <2>1, <2>4 DEF NotifyAll
  <2> QED
    BY <1>4, <2>2, <2>3, <2>4
<1> QED
  BY <1>1, <1>2, <1>3, <1>4 DEF MainStep

LEMMA WorkerKeeps ==
  ASSUME NEW w \in Worker, PoolIInv,
         WorkerStep(w) \/ Yield(w) \/ SpuriousWake(w) \/ WorkerThrows(w)
  PROVE  PoolIInv'
<1> USE PoolAssumption DEF PoolIInv
<1>1. CASE ProcessUrl(w) \/ WorkerThrows(w)
  BY <1>1, OutsideQueue
     DEF ProcessUrl, WorkerThrows, TypeOK, Pushed, MainPushes, queueVars
<1>2. CASE Yield(w)
  BY <1>2, OutsideQueue
     DEF Yield, vars, poolVars, queueVars, TypeOK, Pushed, MainPushes
<1>3. CASE GoPop(w) \/ PopStep(w) \/ SpuriousWake(w)
  <2>1. QueueIInv'
    BY <1>3, ThreadKeepsQueue DEF GoPop, PopStep, SpuriousWake, InQueue
  <2>2. /\ phase'[Main] = phase[Main] /\ task' = task /\ queue_' = queue_
        /\ WorkersPop'
    BY <1>3 DEF GoPop, PopStep, SpuriousWake, CallPop, LockPop, Wait, Wake,
                Move, QueueIInv, QueueTypeOK, WorkersPop
  <2>3. /\ TypeOK' /\ runs' = runs /\ main' = main
    BY <1>3, <2>1 DEF GoPop, PopStep, SpuriousWake, TypeOK, poolVars, QueueIInv
  <2> QED
    BY <2>1, <2>2, <2>3
       DEF MainPushes, TaskIsSomewhere, Pushed, NotYet, OnceStarted
<1>4. CASE GetTask(w)
  <2>1. QueueIInv' /\ PopTask(w)
    BY <1>4, ThreadKeepsQueue DEF GetTask, InQueue
  <2>2. /\ Pushed /\ queue_ = <<StartTask>> /\ NotYet
    BY <2>1 DEF PopTask, TaskIsSomewhere
  <2>3. queue_' = <<>> /\ task'[w] = StartTask
    BY <2>1, <2>2 DEF PopTask, QueueIInv, QueueTypeOK
  <2>4. OnceStarted' /\ runs' \in [Task -> Nat]
    BY <1>4, <2>2, <2>3 DEF GetTask, NotYet, OnceStarted, TypeOK
  <2>5. /\ phase'[Main] = phase[Main] /\ task'[Main] = task[Main]
        /\ WorkersPop'
    BY <2>1 DEF PopTask, Move, QueueIInv, QueueTypeOK, WorkersPop
  <2>6. TypeOK'
    BY <1>4, <2>1, <2>4 DEF GetTask, TypeOK, QueueIInv
  <2> QED
    BY <1>4, <2>1, <2>2, <2>3, <2>4, <2>5, <2>6
       DEF GetTask, MainPushes, TaskIsSomewhere, Pushed
<1> QED
  BY <1>1, <1>2, <1>3, <1>4 DEF WorkerStep

LEMMA PoolStep == PoolIInv /\ [Next]_vars => PoolIInv'
<1> SUFFICES ASSUME PoolIInv, [Next]_vars PROVE PoolIInv'
  OBVIOUS
<1>1. CASE UNCHANGED vars
  BY <1>1, OutsideQueue
     DEF vars, poolVars, PoolIInv, TypeOK, Pushed, MainPushes, queueVars
<1>2. CASE Next
  BY <1>2, MainKeeps, WorkerKeeps DEF Next
<1> QED
  BY <1>1, <1>2

LEMMA PoolInvariant == Spec => []PoolIInv
BY PoolInitially, PoolStep, PTL DEF Spec

\* Every variable of the threads keeps its type.
THEOREM PoolTypeCorrect == Spec => []TypeOK
BY PoolInvariant, PTL DEF PoolIInv

\* At most one thread processes the start task, and no other task exists.
THEOREM OneThreadCrawls == Spec => []TaskRunsOnce
<1>1. PoolIInv => TaskRunsOnce
  BY PoolAssumption
     DEF PoolIInv, TaskIsSomewhere, NotYet, OnceStarted, TaskRunsOnce
<1> QED
  BY <1>1, PoolInvariant, PTL
=============================================================================
