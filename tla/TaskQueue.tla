------------------------------ MODULE TaskQueue ------------------------------
(***************************************************************************)
(* What SafeQueue promises: an unbounded FIFO whose operations take effect *)
(* at one moment between call and return.  A pop of an empty queue lasts   *)
(* until there is a task.                                                  *)
(***************************************************************************)
EXTENDS Sequences

CONSTANTS Thread, Task, NoTask

VARIABLES
  contents,   \* the tasks in the queue
  call,       \* the operation a thread has called and that has no effect yet
  item        \* the argument of a push until then, the result of a pop after

vars == <<contents, call, item>>

Init ==
  /\ contents = <<>>
  /\ call = [t \in Thread |-> "none"]
  /\ item = [t \in Thread |-> NoTask]

Call(t, op, x) ==
  /\ call[t] = "none"
  /\ call' = [call EXCEPT ![t] = op]
  /\ item' = [item EXCEPT ![t] = x]
  /\ UNCHANGED contents

Push(t) ==
  /\ call[t] = "push"
  /\ contents' = Append(contents, item[t])
  /\ call' = [call EXCEPT ![t] = "none"]
  /\ item' = [item EXCEPT ![t] = NoTask]

Pop(t) ==
  /\ call[t] = "pop" /\ contents # <<>>
  /\ item' = [item EXCEPT ![t] = Head(contents)]
  /\ contents' = Tail(contents)
  /\ call' = [call EXCEPT ![t] = "none"]

Next ==
  \E t \in Thread :
    \/ \E x \in Task : Call(t, "push", x)
    \/ Call(t, "pop", item[t])
    \/ Push(t) \/ Pop(t)

Spec == Init /\ [][Next]_vars
=============================================================================
