------------------------------- MODULE Memory -------------------------------
(***************************************************************************)
(* What the kernel's allocator promises: the memory it hands out lies in   *)
(* the heap and belongs to one owner at a time.                            *)
(***************************************************************************)
EXTENDS Integers

CONSTANTS Low, High, Sizes   \* the heap is Low .. High - 1

VARIABLE owned   \* the allocations: where each starts and the size asked for

Apart(a, b) == a.at + a.size <= b.at \/ b.at + b.size <= a.at

Init == owned = {}

Allocate ==
  \E at \in Low .. High, size \in Sizes :
    LET new == [at |-> at, size |-> size]
    IN  /\ at + size <= High
        /\ new \notin owned /\ \A a \in owned : Apart(new, a)
        /\ owned' = owned \cup {new}

Release == \E a \in owned : owned' = owned \ {a}

Next == Allocate \/ Release

Spec == Init /\ [][Next]_owned
=============================================================================
