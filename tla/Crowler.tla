------------------------------- MODULE Crowler -------------------------------
(***************************************************************************)
(* The crawler program's threads (main.cpp, class Crowler): main starts    *)
(* the workers, reads the configuration, pushes the one task of the run    *)
(* and joins the workers, which look for tasks in an endless loop.  What a *)
(* worker does with its task, processUrl, is one long step here; the       *)
(* database work in it is module Indexer, which relies on what this module *)
(* checks: one thread of a process does it.                                *)
(***************************************************************************)
EXTENDS SafeQueue

CONSTANTS
  Main,        \* the main thread
  Worker,      \* the threads there may be besides it
  StartTask    \* startPageDomain, startPagePath and recursionDepth

ASSUME PoolAssumption ==
  /\ Main \notin Worker
  /\ Thread = Worker \cup {Main}
  /\ StartTask \in Task

VARIABLES
  pool,        \* as many workers as hardware_concurrency() says, maybe none
  main,      \* where the main thread is
  started,   \* the workers started so far
  at,        \* where each worker is in work()
  process,   \* whether the process runs, returned from main or was aborted
  runs       \* history: how often processUrl was called with each task

poolVars == <<pool, main, started, at, process, runs>>
vars == <<queueVars, poolVars>>

TypeOK ==
  /\ QueueTypeOK
  /\ pool \subseteq Worker
  /\ main \in {"construct", "processStartPage", "addToCrowlingQueue", "join"}
  /\ started \subseteq pool
  /\ at \in [Worker -> {"work", "pop", "processUrl"}]
  /\ process \in {"running", "returned", "aborted"}
  /\ runs \in [Task -> Nat]

Init ==
  /\ QueueInit
  /\ pool \in SUBSET Worker
  /\ main = "construct" /\ started = {}
  /\ at = [w \in Worker |-> "work"]
  /\ process = "running"
  /\ runs = [x \in Task |-> 0]

-----------------------------------------------------------------------------
(* main.                                                                   *)

\* The constructor's loop; a worker runs before the next one is started.
StartWorker ==
  /\ main = "construct"
  /\ \E w \in pool \ started : started' = started \cup {w}
  /\ UNCHANGED <<queueVars, pool, main, at, process, runs>>

Constructed ==
  /\ main = "construct" /\ main' = "processStartPage"
  /\ started = pool
  /\ UNCHANGED <<queueVars, pool, started, at, process, runs>>

ProcessStartPage ==
  /\ main = "processStartPage" /\ main' = "addToCrowlingQueue"
  /\ CallPush(Main, StartTask)
  /\ UNCHANGED <<pool, started, at, process, runs>>

\* Nothing catches what the IniParser or std::thread throws.
MainThrows ==
  /\ \/ main = "processStartPage"
     \/ main = "construct" /\ started # pool
  /\ process' = "aborted"
  /\ UNCHANGED <<queueVars, pool, main, started, at, runs>>

PushStep ==
  /\ LockPush(Main) \/ PushTask(Main) \/ NotifyAll(Main)
  /\ UNCHANGED poolVars

\* The destructor is reached.
Destruct ==
  /\ main = "addToCrowlingQueue" /\ main' = "join"
  /\ phase[Main] = "out"
  /\ UNCHANGED <<queueVars, pool, started, at, process, runs>>

\* Joining returns when every worker has returned: none ever does.
JoinAll ==
  /\ main = "join"
  /\ pool = {}
  /\ process' = "returned"
  /\ UNCHANGED <<queueVars, pool, main, started, at, runs>>

MainStep ==
  \/ StartWorker \/ Constructed \/ ProcessStartPage \/ PushStep \/ Destruct
  \/ JoinAll

-----------------------------------------------------------------------------
(* work.                                                                   *)

\* isEmpty said there is a task.
GoPop(w) ==
  /\ w \in started
  /\ at[w] = "work" /\ at' = [at EXCEPT ![w] = "pop"]
  /\ isEmpty(FALSE)
  /\ CallPop(w)
  /\ UNCHANGED <<pool, main, started, process, runs>>

\* isEmpty said there is none: yield, and look again.
Yield(w) ==
  /\ w \in started
  /\ at[w] = "work"
  /\ isEmpty(TRUE)
  /\ UNCHANGED vars

PopStep(w) ==
  /\ LockPop(w) \/ Wait(w)
  /\ UNCHANGED poolVars

SpuriousWake(w) == Wake(w) /\ UNCHANGED poolVars

GetTask(w) ==
  /\ PopTask(w)
  /\ at' = [at EXCEPT ![w] = "processUrl"]
  /\ runs' = [runs EXCEPT ![task'[w]] = @ + 1]
  /\ UNCHANGED <<pool, main, started, process>>

ProcessUrl(w) ==
  /\ at[w] = "processUrl" /\ at' = [at EXCEPT ![w] = "work"]
  /\ UNCHANGED <<queueVars, pool, main, started, process, runs>>

\* DbManager's constructor or the IniParser throws out of work().
WorkerThrows(w) ==
  /\ at[w] = "processUrl"
  /\ process' = "aborted"
  /\ UNCHANGED <<queueVars, pool, main, started, at, runs>>

WorkerStep(w) == GoPop(w) \/ PopStep(w) \/ GetTask(w) \/ ProcessUrl(w)

Next ==
  /\ process = "running"
  /\ \/ MainStep \/ MainThrows
     \/ \E w \in Worker :
          WorkerStep(w) \/ Yield(w) \/ SpuriousWake(w) \/ WorkerThrows(w)

Spec == Init /\ [][Next]_vars

\* The operating system runs every thread; it need not wake one that waits.
FairSpec ==
  /\ Spec
  /\ WF_vars(process = "running" /\ MainStep)
  /\ \A w \in Worker : WF_vars(process = "running" /\ WorkerStep(w))

-----------------------------------------------------------------------------
(* Properties.                                                             *)

\* However the workers race for the one task, at most one of them gets it and
\* the others neither process it again nor a task that is not there: only one
\* thread of a process ever writes to the database.
TaskRunsOnce == runs[StartTask] <= 1 /\ \A x \in Task \ {StartTask} : runs[x] = 0

\* If there is a worker at all, the task pushed is taken by one, or the
\* process is aborted: neither the stale answers of isEmpty nor the wait for
\* the mutex keep all workers from it.
StartTaskTaken ==
  pool # {} => <>(runs[StartTask] = 1 \/ process = "aborted")
=============================================================================
