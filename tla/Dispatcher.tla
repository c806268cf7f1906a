----------------------------- MODULE Dispatcher -----------------------------
(***************************************************************************)
(* What the scheduler of nr32-rt promises, without its timer, its context  *)
(* switching or the reasons for which tasks block: one task at a time has  *)
(* the processor; it loses it only by blocking, by dying, or to a task     *)
(* that is of the highest priority among the ready ones; nobody else       *)
(* blocks or dies; and whoever becomes ready above the running task's      *)
(* priority gets the processor in the same step, with the one exception    *)
(* of a task created in the slot of a dead one.                            *)
(***************************************************************************)
EXTENDS Integers

CONSTANTS Tasks, IdleTask, Prios, MIN_PRIO

VARIABLES status, prio, running,
          overlooked   \* tasks created above the running one and not yet considered

vars == <<status, prio, running, overlooked>>

Init ==
  /\ \E main \in Tasks \ {IdleTask} :
       /\ status = [i \in Tasks |-> IF i \in {IdleTask, main} THEN "ready" ELSE "none"]
       /\ running = main
       /\ \E p \in Prios : prio = [i \in Tasks |-> IF i = main THEN p ELSE MIN_PRIO]
  /\ overlooked = {}

Blocked == {i \in Tasks : status[i] = "blocked"}

\* i is ready and no ready task outranks it.
Highest(i, st, pr) ==
  st[i] = "ready" /\ \A j \in Tasks : st[j] = "ready" => pr[j] <= pr[i]

\* The tasks of S wake up.
Woken(st, S) == [i \in Tasks |-> IF i \in S THEN "ready" ELSE st[i]]

\* The running task keeps the processor: it outranks or equals all of S.
Wake(S) ==
  /\ S \subseteq Blocked
  /\ \A i \in S : prio[i] <= prio[running]
  /\ status' = Woken(status, S)
  /\ UNCHANGED <<prio, running, overlooked>>

\* The processor is given to a highest task, after the running task did what
\* brought it here (left: what became of it) and the tasks of S woke up.
Dispatch(left, S) ==
  /\ S \subseteq Blocked \cup {running}
  /\ running # IdleTask \/ left = "ready"
  /\ status' = Woken([status EXCEPT ![running] = left], S)
  /\ prio' = IF left = "none" THEN [prio EXCEPT ![running] = MIN_PRIO] ELSE prio
  /\ left = "none" => running \notin S
  /\ running' \in Tasks /\ Highest(running', status', prio')
  /\ overlooked' = {}

\* A task is created; one that outranks the creator is given the processor or
\* overlooked.
Create(i, p) ==
  /\ running # IdleTask
  /\ status[i] = "none" /\ prio' = [prio EXCEPT ![i] = p]
  /\ \E S \in SUBSET Blocked :
       /\ status' = Woken([status EXCEPT ![i] = "ready"], S)
       /\ \/ /\ S = {} /\ running' = running
             /\ overlooked' = overlooked \cup {x \in {i} : p > prio[running]}
          \/ /\ running' \in Tasks /\ Highest(running', status', prio')
             /\ overlooked' = {}

Next ==
  \/ \E S \in SUBSET Tasks : Wake(S)
  \/ \E left \in {"ready", "blocked", "none"}, S \in SUBSET Tasks : Dispatch(left, S)
  \/ \E i \in Tasks, p \in Prios : Create(i, p)

Spec == Init /\ [][Next]_vars
=============================================================================
