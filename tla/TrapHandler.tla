----------------------------- MODULE TrapHandler -----------------------------
(***************************************************************************)
(* The kernel's trap handler (asm.rs), which saves and restores the        *)
(* registers of the tasks, with what the kernel does to them meanwhile:    *)
(* mepc and mscratch (scheduler.rs), the registers it banks, its calls'    *)
(* results (main.rs); and the reservation of LR and SC, which must not     *)
(* outlive a trap nor a write to its word (cpu.rs).                        *)
(*                                                                         *)
(* Traps do not nest, so a trap is one step, from the user's instruction   *)
(* to mret.  Which task is scheduled is the subject of Kernel, and any     *)
(* runnable task is chosen here.                                           *)
(***************************************************************************)
EXTENDS Integers, FiniteSets

CONSTANTS
  Tasks,        \* slots of the task table; 0 is the idle task, 1 the first program
  StackMax,     \* bound: how deep a task's stack is, in frames
  CodeMax,      \* bound: addresses of a program's instructions, 0 .. CodeMax
  Programs,     \* bound: what programs have in the registers, how deep they use the stack,
                \* the calls they make and the words of RAM they share
  CellWords     \* words in a cell of memory (4)

Idle == 0
First == 1
Runner == 0          \* the address of _task_runner
Zero == 0            \* Ok too
Timeout == 7
Junk == -1           \* what compiled code leaves in a register
None == -1

Preserved == {"gp", "s0", "s1"}     \* s0 to s11, gp and tp, by which compiled code does right
Results == {"a0", "a1"}
Temporaries == {"ra", "t0"}         \* ra, t0 to t6, a2 to a7
Registers == Preserved \cup Results \cup Temporaries

Calls == {"Other", "Sleep", "FutexWait", "Wait", "FutexWake", "Spawn", "Exit"}

ASSUME TrapAssumption ==
  /\ Tasks \subseteq Nat /\ IsFiniteSet(Tasks) /\ {Idle, First} \subseteq Tasks
  /\ StackMax \in Nat \ {0} /\ CodeMax \in Nat
  /\ Programs \subseteq [contexts : SUBSET [Registers -> Int], depth : 0 .. StackMax, calls : SUBSET Calls,
                   words : SUBSET Nat]
  /\ CellWords \in Nat \ {0}

VARIABLES
  programs,       \* one of Programs
  x, sp, pc,      \* of the task that runs
  cur,            \* cur_task
  tasks,          \* tasks: ra, sp and state
  stack,          \* frames of registers on the tasks' stacks
  reservation,    \* the word of the last LR, or None
  dma,            \* the words that the transfer is yet to write
  expect,         \* history: what each task finds when it goes on
  linked,         \* history: the word of each task's last LR
  broken          \* history: the tasks whose word was written to since

taskVars == <<x, sp, pc, cur, tasks, stack, expect>>
wordVars == <<reservation, dma, linked, broken>>
vars == <<programs, x, sp, pc, cur, tasks, stack, reservation, dma, expect, linked, broken>>

Contexts == programs.contexts
Words == programs.words

\* A place on a stack: the task's and how many frames deep.  A frame lies at the place it ends.
Down(p) == [p EXCEPT !.depth = @ + 1]
Up(p) == [p EXCEPT !.depth = @ - 1]
Top(t) == [task |-> t, depth |-> 0]
Stacks == [task : Tasks, depth : 0 .. StackMax + 1]
Frame == [Registers -> Int]
States == {"Dead", "Running", "Sleeping", "Waiting"}

-----------------------------------------------------------------------------
(* What a task expects: its place, and of some registers the values allowed *)

Meets(frame, wanted) == \A r \in DOMAIN wanted : frame[r] \in wanted[r]

\* After an interrupt: all is as it was.
Unchanged == [pc |-> pc, sp |-> sp, x |-> [r \in Registers |-> {x[r]}]]

\* After a call: temporaries are lost.
AfterCall(a0s, a1) ==
  [ pc |-> pc + 1, sp |-> sp,
    x |-> [r \in Preserved \cup Results |-> CASE r = "a0" -> a0s [] r = "a1" -> {a1} [] OTHER -> {x[r]}] ]

NoExpectation == [pc |-> Runner, sp |-> Top(Idle), x |-> [r \in {} |-> {}]]
AtStart(t, context) == [pc |-> Runner, sp |-> Top(t), x |-> [r \in {"a0", "a1", "gp"} |-> {context[r]}]]

-----------------------------------------------------------------------------
(* scheduler.rs, on k: the kernel's tasks, stack and cur, mepc and mscratch *)

\* set_banked_reg, for each task that maybe_wake_up_tasks wakes up.
BankTimeout(k, late) ==
  [ k EXCEPT
      !.stack = [p \in Stacks |-> IF \E t \in late : k.tasks[t].sp = p
                                  THEN [k.stack[p] EXCEPT !["a0"] = Timeout] ELSE k.stack[p]],
      !.tasks = [t \in Tasks |-> IF t \in late THEN [k.tasks[t] EXCEPT !.state = "Running"] ELSE k.tasks[t]] ]

SaveCurrent(k) ==
  [k EXCEPT !.tasks = [@ EXCEPT ![k.cur].ra = k.mepc, ![k.cur].sp = k.mscratch]]

SwitchTo(k, next) ==
  IF next = k.cur THEN k
  ELSE [k EXCEPT !.cur = next, !.mepc = k.tasks[next].ra, !.mscratch = k.tasks[next].sp]

Schedule(k, late, next) == SwitchTo(BankTimeout(SaveCurrent(k), late), next)

InState(k, state) == {t \in Tasks : k.tasks[t].state = state}
SetState(k, ts, state) ==
  [k EXCEPT !.tasks = [t \in Tasks |-> IF t \in ts THEN [k.tasks[t] EXCEPT !.state = state] ELSE k.tasks[t]]]

\* The tasks whose sleep may be over by the time of a schedule, and the one to run then.
Choices(k) ==
  {c \in [late : SUBSET InState(k, "Sleeping"), next : Tasks] : c.next \in InState(k, "Running") \cup c.late}
Scheduled(k) == {[k |-> Schedule(k, c.late, c.next), late |-> c.late] : c \in Choices(k)}
MaybeScheduled(k) == {[k |-> k, late |-> {}]} \cup Scheduled(k)

-----------------------------------------------------------------------------
(* asm.rs *)

\* Mutant: a1 is not among the registers saved when the caller is preempted.
SavedByCallNoValue == Preserved \cup {"a0"}

SavedByCall == Preserved \cup Results

\* What the kernel starts from: the trap's frame is below the stack of the task.
Trapped(p) ==
  [ tasks |-> tasks, cur |-> cur, mepc |-> p, mscratch |-> Down(sp),
    stack |-> [stack EXCEPT ![Down(sp)] = [@ EXCEPT !["s0"] = x["s0"]]] ]

\* Mutant: the store-conditional at the entry is left out.
DummyScNone == reservation' = reservation

DummySc == reservation' = None

\* mret, to the running task.  Below its stack there is nothing to be found again.
Unused == [r \in Registers |-> Junk]
Mret(k) ==
  /\ sp' = Up(k.mscratch) /\ pc' = k.mepc /\ cur' = k.cur /\ tasks' = k.tasks
  /\ stack' = [p \in Stacks |-> IF p.task = k.cur THEN Unused ELSE k.stack[p]]

\* __return_to_user
ReturnToUser(k) == x' = k.stack[k.mscratch] /\ Mret(k)

\* The registers when _system_ecall has returned, and those of them that a preempted caller
\* is to find.
Returned(a0, a1) ==
  [r \in Registers |-> CASE r \in Preserved -> x[r] [] r = "a0" -> a0 [] r = "a1" -> a1
                         [] r = "t0" -> Zero [] r = "ra" -> Junk]

\* The frame of a preempted caller, where s0 has been saved at the entry.
CallerFrame(frame, a0, a1) ==
  [r \in Registers |-> IF r \in SavedByCall \ {"s0"} THEN Returned(a0, a1)[r] ELSE frame[r]]

\* The end of an ecall, by the CallerState: NoChange, Preempted.
EndCall(k, a0, a1) ==
  IF k.cur = cur
  THEN x' = [Returned(a0, a1) EXCEPT !["s0"] = k.stack[k.mscratch]["s0"]] /\ Mret(k)
  ELSE LET frame == CallerFrame(k.stack[Down(sp)], a0, a1)
       IN  ReturnToUser([k EXCEPT !.stack = [k.stack EXCEPT ![Down(sp)] = frame]])

\* When a sleep is over, its task finds Timeout.
Late(wanted, late) == [t \in Tasks |-> IF t \in late THEN [wanted[t] EXCEPT !.x["a0"] = {Timeout}] ELSE wanted[t]]

MayCall(call) == call \in programs.calls /\ cur # Idle /\ pc < CodeMax

\* A call with a result, whose caller may also have been late for it to be Timeout.
Ecall(call, outcomes, a0, a1, wanted) ==
  /\ MayCall(call)
  /\ \E o \in outcomes :
       /\ EndCall(o.k, a0, a1)
       /\ expect' = [Late(wanted, o.late) EXCEPT
                       ![cur] = AfterCall(IF cur \in o.late THEN {a0, Timeout} ELSE {a0}, a1)]
  /\ DummySc /\ UNCHANGED <<programs, linked>>

\* handle_ecall steps over the instruction.
AtCall == Trapped(pc + 1)

\* Calls that return at once, or with an error.
CallOther == Ecall("Other", {[k |-> AtCall, late |-> {}]}, Zero, Zero, expect) /\ UNCHANGED <<dma, broken>>

\* SYS_SLEEP, also without ticks, which is to yield.
CallSleep ==
  /\ \E state \in {"Sleeping", "Running"} :
       Ecall("Sleep", Scheduled(SetState(AtCall, {cur}, state)), Timeout, Zero, expect)
  /\ UNCHANGED <<dma, broken>>

CallFutexWait ==
  /\ Ecall("FutexWait", Scheduled(SetState(AtCall, {cur}, "Sleeping")), Zero, Zero, expect)
  /\ UNCHANGED <<dma, broken>>

Written(ws) == broken' = broken \cup {t \in Tasks : linked[t] \in ws}

\* The driver does not look whether a transfer is under way (in_progress is never set): its
\* registers are rewritten one by one, and it may write words anywhere until the last.
StartDma ==
  /\ \E first, last \in Words : dma' = {w \in Words : first <= w /\ w <= last}
  /\ \E early \in SUBSET (IF dma = {} THEN {} ELSE Words) : Written(early)

\* SYS_WAIT_FOR_VSYNC, SYS_INPUT_DEV, and SYS_DO_DMA, which may start a transfer to some words.
CallWait ==
  /\ Ecall("Wait", Scheduled(SetState(AtCall, {cur}, "Waiting")), Zero, Zero, expect)
  /\ StartDma \/ UNCHANGED <<dma, broken>>

CallFutexWake ==
  /\ \E woken \in SUBSET InState(AtCall, "Sleeping") :
       Ecall("FutexWake", MaybeScheduled(SetState(AtCall, woken, "Running")), Zero, Cardinality(woken), expect)
  /\ UNCHANGED <<dma, broken>>

\* A task in a dead slot is left to wait its turn.
NewTask(k, t, context) ==
  [ k EXCEPT
      !.tasks = [@ EXCEPT ![t] = [ra |-> Runner, sp |-> Down(Top(t)), state |-> "Running"]],
      !.stack = [@ EXCEPT ![Down(Top(t))] =
                   [r \in Registers |-> IF r \in {"a0", "a1", "gp"} THEN context[r] ELSE Zero]] ]

CallSpawn ==
  /\ \E t \in InState(AtCall, "Dead"), context \in Contexts :
       Ecall("Spawn", MaybeScheduled(NewTask(AtCall, t, context)), Zero, t, [expect EXCEPT ![t] = AtStart(t, context)])
  /\ UNCHANGED <<dma, broken>>

\* The stack of a task that is no more.
Freed(k, t) == [k EXCEPT !.stack = [p \in Stacks |-> IF p.task = t THEN Unused ELSE k.stack[p]]]

CallExit ==
  /\ MayCall("Exit")
  /\ \E o \in Scheduled(SetState(AtCall, {cur}, "Dead")) :
       /\ ReturnToUser(Freed(o.k, cur))
       /\ expect' = [Late(expect, o.late) EXCEPT ![cur] = NoExpectation]
  /\ DummySc /\ UNCHANGED <<programs, dma, linked, broken>>

\* .L_not_ecall: an interrupt, whose causes may each schedule, of which two are taken to do so:
\* a third would do to the current task what the second does.  The input driver writes its
\* reply where the program asked.
SaveAll(k) == [k EXCEPT !.stack = [@ EXCEPT ![k.mscratch] = x]]

Interrupt ==
  /\ \E woken \in SUBSET InState(Trapped(pc), "Waiting") :
       \E first \in MaybeScheduled(SetState(SaveAll(Trapped(pc)), woken, "Running")) :
         \E second \in MaybeScheduled(first.k) :
           /\ ReturnToUser(second.k)
           /\ expect' = Late([expect EXCEPT ![cur] = Unchanged], first.late \cup second.late)
  /\ \E replies \in SUBSET Words : Written(replies)
  /\ DummySc /\ UNCHANGED <<programs, dma, linked>>

-----------------------------------------------------------------------------
(* The task that runs *)

\* Any computation: the program is elsewhere, with other registers and another depth of
\* its stack.
Work ==
  /\ cur # Idle
  /\ \E context \in Contexts : x' = context
  /\ \E depth \in 0 .. programs.depth : sp' = [task |-> cur, depth |-> depth]
  /\ pc' \in 0 .. CodeMax
  /\ expect' = [expect EXCEPT ![cur] = Unchanged']
  /\ UNCHANGED <<programs, cur, tasks, stack>> /\ UNCHANGED wordVars

Instruction == cur # Idle /\ UNCHANGED programs /\ UNCHANGED taskVars

\* check_dma_reservation ends a reservation of a word that a transfer is yet to write.
LoadReserved(w) ==
  /\ reservation' = IF w \in dma THEN None ELSE w
  /\ linked' = [linked EXCEPT ![cur] = w] /\ broken' = broken \ {cur}
  /\ Instruction /\ UNCHANGED dma

ScSucceeds(w) == reservation = w

StoreConditional(w) ==
  /\ reservation' = None
  /\ Written(IF ScSucceeds(w) THEN {w} ELSE {})
  /\ Instruction /\ UNCHANGED <<dma, linked>>

\* ram_write
Store(w) ==
  /\ reservation' = IF reservation # None /\ reservation \div CellWords = w \div CellWords THEN None ELSE reservation
  /\ Written({w})
  /\ Instruction /\ UNCHANGED <<dma, linked>>

\* run_dma_cycles writes the next word, of which ram_write is not told.
DmaWrites ==
  /\ \E w \in dma :
       /\ \A v \in dma : w <= v
       /\ dma' = dma \ {w} /\ Written({w})
  /\ UNCHANGED <<programs, reservation, linked>> /\ UNCHANGED taskVars

\* The first task has been started, and the kernel has returned to it.
Init ==
  /\ programs \in Programs
  /\ cur = First
  /\ tasks = [t \in Tasks |->
       IF t \in {Idle, First} THEN [ra |-> Runner, sp |-> Down(Top(t)), state |-> "Running"]
       ELSE [ra |-> Runner, sp |-> Down(Top(t)), state |-> "Dead"]]
  /\ stack = [p \in Stacks |-> IF p.task = First THEN Unused ELSE [r \in Registers |-> Zero]]
  /\ x = [r \in Registers |-> Zero] /\ sp = Top(First) /\ pc = Runner
  /\ expect = [t \in Tasks |-> IF t \in {Idle, First} THEN AtStart(t, [r \in Registers |-> Zero]) ELSE NoExpectation]
  /\ reservation = None /\ dma = {}
  /\ linked = [t \in Tasks |-> None] /\ broken = {}

Next ==
  \/ CallOther \/ CallSleep \/ CallFutexWait \/ CallWait \/ CallFutexWake \/ CallSpawn \/ CallExit
  \/ Interrupt \/ Work
  \/ \E w \in Words : LoadReserved(w) \/ StoreConditional(w) \/ Store(w)
  \/ DmaWrites

Spec == Init /\ [][Next]_vars

-----------------------------------------------------------------------------
(* Properties *)

\* Each task goes on where it was, on its own stack: after an interrupt with every register
\* as it was, after a call with the preserved ones and its own result, whatever tasks ran,
\* made calls, ended and began meanwhile.
RegistersKept ==
  pc = expect[cur].pc /\ sp = expect[cur].sp /\ Meets(x, expect[cur].x)

\* An SC that succeeds is by the task that did the LR, and neither a task nor the kernel nor
\* the DMA has written to the word since.
ScIsAtomic == \A w \in Words : ScSucceeds(w) => linked[cur] = w /\ cur \notin broken
=============================================================================
