------------------------- MODULE InstructionMemory -------------------------
(***************************************************************************)
(* What the architecture promises to a program that fetches instructions   *)
(* from a memory it can write: each halfword of an instruction is one that *)
(* the place has held since the last FENCE.I, and after a FENCE.I it is    *)
(* what memory holds.                                                      *)
(***************************************************************************)
CONSTANTS
  Places,        \* places of a halfword that can be executed
  Halfword,      \* what one holds
  Erased,        \* what is read beyond the end of a memory
  After          \* the place behind each place, which need not exist

VARIABLES mem, seen, fetched
vars == <<mem, seen, fetched>>

Init ==
  /\ mem \in [Places -> Halfword]
  /\ seen = [a \in Places |-> {mem[a]}]
  /\ fetched = <<>>

SeenAt(a) == IF a \in Places THEN seen[a] ELSE {Erased}

Fetch ==
  /\ \E a \in Places : \E low \in SeenAt(a), high \in SeenAt(After[a]) :
       fetched' = [place |-> a, code |-> <<low, high>>]
  /\ UNCHANGED <<mem, seen>>

Write ==
  /\ mem' \in [Places -> Halfword]
  /\ seen' = [a \in Places |-> seen[a] \cup {mem'[a]}]
  /\ UNCHANGED fetched

Fence == seen' = [a \in Places |-> {mem[a]}] /\ UNCHANGED <<mem, fetched>>

Next == Fetch \/ Write \/ Fence

Spec == Init /\ [][Next]_vars
=============================================================================
