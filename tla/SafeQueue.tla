------------------------------ MODULE SafeQueue ------------------------------
(***************************************************************************)
(* Class SafeQueue (SafeQueue.cpp): a queue of crawling tasks behind a     *)
(* mutex and a condition variable.  A thread enters push or pop, takes the *)
(* mutex, changes queue_ and leaves; pop waits while the queue is empty,   *)
(* and a wait may end without a notification.  isEmpty takes no mutex: it  *)
(* races with the thread that is changing queue_, and then says anything.  *)
(***************************************************************************)
EXTENDS Naturals, Sequences

CONSTANTS
  Thread,      \* the threads of the process
  Task,        \* values of UrlCrowlingTask
  NoTask,      \* a task variable that holds none
  NoThread,    \* the owner of a free mutex
  QueueBound   \* bound on queue_, for the runs; the program has none

ASSUME QueueAssumption ==
  /\ NoTask \notin Task
  /\ NoThread \notin Thread
  /\ QueueBound \in Nat

VARIABLES
  queue_,   \* the tasks, first in front
  mutex_,   \* its owner
  phase,    \* where each thread is in push and pop
  task      \* the argument of push, the result of pop

queueVars == <<queue_, mutex_, phase, task>>

Phase == {"out", "pushLock", "push", "notify", "popLock", "test", "waiting",
          "pop"}

\* Phases in which a thread owns the mutex.
Locked == {"push", "notify", "test", "pop"}

\* Each variable of the queue has its type.
QueueTypeOK ==
  /\ queue_ \in Seq(Task)
  /\ mutex_ \in Thread \cup {NoThread}
  /\ phase \in [Thread -> Phase]
  /\ task \in [Thread -> Task \cup {NoTask}]

QueueInit ==
  /\ queue_ = <<>>
  /\ mutex_ = NoThread
  /\ phase = [t \in Thread |-> "out"]
  /\ task = [t \in Thread |-> NoTask]

Move(t, from, to) == phase[t] = from /\ phase' = [phase EXCEPT ![t] = to]

Lock(t) == mutex_ = NoThread /\ mutex_' = t
\* An owner that leaves without unlocking.
KeepLock(t) == mutex_ = t /\ UNCHANGED mutex_

Unlock(t) == mutex_ = t /\ mutex_' = NoThread

-----------------------------------------------------------------------------
(* push.                                                                   *)

\* A push of a task variable that was not assigned.
CallPushUnset(t, x) ==
  /\ Move(t, "out", "pushLock")
  /\ UNCHANGED <<queue_, mutex_, task>>

CallPush(t, x) ==
  /\ Move(t, "out", "pushLock")
  /\ task' = [task EXCEPT ![t] = x]
  /\ UNCHANGED <<queue_, mutex_>>

LockPush(t) ==
  /\ Move(t, "pushLock", "push")
  /\ Lock(t)
  /\ UNCHANGED <<queue_, task>>

PushTask(t) ==
  /\ Move(t, "push", "notify")
  /\ queue_' = Append(queue_, task[t])
  /\ UNCHANGED <<mutex_, task>>

\* A push that wakes nobody.
NotifyNone(t) ==
  /\ Move(t, "notify", "out")
  /\ task' = [task EXCEPT ![t] = NoTask]
  /\ Unlock(t)
  /\ UNCHANGED queue_

\* notify_all, then the lock_guard ends.
NotifyAll(t) ==
  /\ phase[t] = "notify"
  /\ phase' = [s \in Thread |->
                 IF s = t THEN "out"
                 ELSE IF phase[s] = "waiting" THEN "popLock" ELSE phase[s]]
  /\ task' = [task EXCEPT ![t] = NoTask]
  /\ Unlock(t)
  /\ UNCHANGED queue_

-----------------------------------------------------------------------------
(* pop.                                                                    *)

CallPop(t) ==
  /\ Move(t, "out", "popLock")
  /\ UNCHANGED <<queue_, mutex_, task>>

\* At the call, and again whenever the wait is woken.
LockPop(t) ==
  /\ Move(t, "popLock", "test")
  /\ Lock(t)
  /\ UNCHANGED <<queue_, task>>

\* A pop that trusts isEmpty, or the notification that woke it.
WaitOnce(t) ==
  /\ Move(t, "test", "pop")
  /\ UNCHANGED <<queue_, mutex_, task>>

\* The predicate of the wait: go on, or release the mutex and sleep.
Wait(t) ==
  \/ /\ queue_ # <<>>
     /\ Move(t, "test", "pop")
     /\ UNCHANGED <<queue_, mutex_, task>>
  \/ /\ queue_ = <<>>
     /\ Move(t, "test", "waiting")
     /\ Unlock(t)
     /\ UNCHANGED <<queue_, task>>

\* A spurious wakeup.
Wake(t) ==
  /\ Move(t, "waiting", "popLock")
  /\ UNCHANGED <<queue_, mutex_, task>>

\* front() without the pop() that removes it.
CopyFront(t) ==
  /\ queue_ # <<>>
  /\ Move(t, "pop", "out")
  /\ task' = [task EXCEPT ![t] = Head(queue_)]
  /\ Unlock(t)
  /\ UNCHANGED queue_

\* On an empty queue this has no behaviour to model: see PopHasTask.
PopTask(t) ==
  /\ queue_ # <<>>
  /\ Move(t, "pop", "out")
  /\ task' = [task EXCEPT ![t] = Head(queue_)]
  /\ queue_' = Tail(queue_)
  /\ Unlock(t)

-----------------------------------------------------------------------------
(* isEmpty.                                                                *)

\* Some thread is in queue_.push or queue_.pop.
Changing == \E t \in Thread : phase[t] \in {"push", "pop"}

isEmpty(result) == Changing \/ result = (queue_ = <<>>)

-----------------------------------------------------------------------------
(* Threads that push and pop as they like.                                 *)

InQueue(t) ==
  \/ LockPush(t) \/ PushTask(t) \/ NotifyAll(t)
  \/ LockPop(t) \/ Wait(t) \/ Wake(t) \/ PopTask(t)

\* A client pops only after isEmpty has told it not to expect an empty queue.
Client(t) ==
  \/ /\ Len(queue_) < QueueBound
     /\ \E x \in Task : CallPush(t, x)
  \/ isEmpty(FALSE) /\ CallPop(t)

QueueNext == \E t \in Thread : InQueue(t) \/ Client(t)

QueueSpec == QueueInit /\ [][QueueNext]_queueVars

-----------------------------------------------------------------------------
(* Properties.                                                             *)

\* pop never takes the front of an empty queue, although its caller saw the
\* queue without the mutex, one push wakes every waiting thread, and threads
\* that were not waiting may overtake the woken ones.
PopHasTask == \A t \in Thread : phase[t] = "pop" => queue_ # <<>>

\* No thread sleeps in pop while there is a task, except until the thread
\* that has just pushed it, and still owns the mutex, notifies all.
NoSleepOnWork ==
  \A t \in Thread :
    (phase[t] = "waiting" /\ queue_ # <<>>) =>
      \E s \in Thread : phase[s] = "notify" /\ mutex_ = s

\* Seen from outside, push and pop happen at one moment each, in FIFO order,
\* and every task pushed is taken by one pop at most.
FIFO == INSTANCE TaskQueue WITH
          contents <- queue_,
          call <- [t \in Thread |->
                     IF phase[t] \in {"pushLock", "push"} THEN "push"
                     ELSE IF phase[t] \in {"out", "notify"} THEN "none"
                     ELSE "pop"],
          item <- [t \in Thread |->
                     IF phase[t] = "notify" THEN NoTask ELSE task[t]]

ImplementsFIFO == FIFO!Spec
=============================================================================
