---------------------------- MODULE BoundedQueue ----------------------------
(***************************************************************************)
(* What the MPMC FIFO promises: a queue of at most Capacity items, pushed  *)
(* and popped whole and one at a time, in one order for all threads.       *)
(***************************************************************************)
EXTENDS Integers, Sequences

CONSTANTS Threads, Values, Capacity, Nothing

VARIABLES queue, result   \* the items, and what each thread's last pop returned

vars == <<queue, result>>

Init == queue = <<>> /\ result = [t \in Threads |-> Nothing]

Push(v) ==
  /\ Len(queue) < Capacity
  /\ queue' = Append(queue, v)
  /\ UNCHANGED result

Pop(t) ==
  /\ queue # <<>>
  /\ result' = [result EXCEPT ![t] = Head(queue)]
  /\ queue' = Tail(queue)

\* The caller moves the item it popped away.
Forget(t) ==
  /\ result' = [result EXCEPT ![t] = Nothing]
  /\ UNCHANGED queue

Next == (\E v \in Values : Push(v)) \/ \E t \in Threads : Pop(t) \/ Forget(t)

Spec == Init /\ [][Next]_vars
=============================================================================
