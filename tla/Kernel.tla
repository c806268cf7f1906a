------------------------------- MODULE Kernel -------------------------------
(***************************************************************************)
(* The NovaRave32 kernel (nr32-rt): the scheduler, the system calls that   *)
(* change its state, the trap handler and the two drivers, composed with   *)
(* the hardware they depend on (MTIME/MTIMECMP, the external interrupt     *)
(* controller, the DMA engine and the input port).                         *)
(*                                                                         *)
(* There is one core and the kernel runs with interrupts disabled, so a    *)
(* system call is one atomic action.  The external interrupt handler makes *)
(* up to three wake-ups, each of which may switch tasks, and the hardware  *)
(* runs on meanwhile: it is a sequence of steps driven by kpc.             *)
(***************************************************************************)
EXTENDS Integers, FiniteSets

CONSTANTS
  MaxTasks,    \* bound: slots of the `tasks` vector, the idle task included
  Prios,       \* priorities user tasks are spawned with
  MIN_PRIO,    \* i32::MIN: the priority of the idle task and of dead slots
  Ticks,       \* durations user tasks sleep or wait for
  Addrs,       \* addresses user tasks use as futexes
  NoFutex,     \* the address `!0` under which a plain sleep is recorded
  Calls,       \* the system calls the user tasks make
  HZ,          \* MTIME_HZ: the longest the timer is armed for
  Slot,        \* TASK_SLOT_ROUND_ROBBIN
  StatPeriod,  \* MTIME_HZ * 5: the shortest span of a statistics dump
  U64Max,      \* where `saturating_add` stops
  ReadSkew,    \* bound: MTIME ticks that may pass inside one handler
  MaxTime,     \* bound on MTIME
  MaxBirths,   \* bound on the number of tasks ever created
  Devices,     \* the interrupts whose hardware is connected
  NoTask       \* "no task": an idle DMA engine, an absent buffer

Irqs == {"VSYNC", "INPUT", "DMA"}
Tasks == 0 .. MaxTasks - 1   \* TaskId: indices of `tasks`; 0 is the idle task
IdleTask == 0
MainTask == 1

ASSUME TasksAssumption == MaxTasks \in Nat /\ MaxTasks >= 2
ASSUME PriosAssumption ==
  MIN_PRIO \in Int /\ Prios \subseteq Int /\ 0 \in Prios
                   /\ \A p \in Prios : p > MIN_PRIO
ASSUME TimesAssumption ==
  /\ Ticks \subseteq Nat /\ U64Max \in Nat /\ StatPeriod \in Nat \ {0}
  /\ HZ \in Nat /\ Slot \in Nat /\ 0 < Slot /\ Slot <= HZ
  /\ ReadSkew \in Nat /\ MaxTime \in Nat /\ U64Max > MaxTime
ASSUME NamesAssumption ==
  Devices \subseteq Irqs /\ NoFutex \notin Addrs /\ NoTask \notin Tasks /\ MaxBirths \in Nat \ {0}

States == {"Dead", "Running", "Sleeping",
           "WaitingForVSync", "WaitingForInputDev", "WaitingForDma"}
AllPrios == Prios \cup {MIN_PRIO}
Lives == 0 .. MaxBirths   \* a number per task ever created; 0 is the idle task

\* struct Task.  until and futex are the fields of TaskState::Sleeping; life
\* says which of the tasks ever created this is, and saved stands for {ra, sp}:
\* the task whose context is stored there.
Instants == 0 .. U64Max
FutexIds == Addrs \cup {NoFutex}
Task == [state : States, until : Instants, futex : FutexIds,
         prio : AllPrios, life : Lives, saved : Lives, runTicks : Nat]

VARIABLES
  tasks,                \* Scheduler::tasks, a record per slot
  ntasks,               \* tasks.len(); the slots beyond it are "Dead"
  cur,                  \* cur_task
  lastTaskChange, lastStatDump,
  live,                 \* mepc/mscratch: the task whose context mret resumes
  mpp,                  \* mstatus.MPP: the privilege mret drops to
  kpc,                  \* "user", the step of handle_irqs, or "off"
  pending,              \* handle_irqs' local copy of IRQ_PENDING
  xferTarget,           \* InputDev::xfer_target: the slot that owns the buffer
  mtime, mtimecmp,      \* hardware: the timer
  irqPending,           \* hardware: the interrupt controller
  dmaHw,                \* hardware: the slot whose transfer the DMA engine runs
  inputHw,              \* hardware: the input port is shifting bytes
  births,               \* history: tasks created so far
  late                  \* history: how a task became runnable without schedule()

cpuVars == <<cur, live, mpp, lastTaskChange, mtimecmp>>
irqVars == <<kpc, pending>>
hwVars == <<irqPending, dmaHw, inputHw>>
vars == <<tasks, ntasks, cpuVars, irqVars, hwVars, xferTarget, lastStatDump,
          mtime, births, late>>

-----------------------------------------------------------------------------
(* The state in which rust_start returns: the idle task has been created,  *)
(* the boot script's EXEC has spawned MAIN, and the final schedule() has   *)
(* switched to it.                                                         *)

NewTask(p, id) ==
  [state |-> "Running", until |-> 0, futex |-> NoFutex,
   prio |-> p, life |-> id, saved |-> id, runTicks |-> 0]

Init ==
  /\ tasks = [i \in Tasks |->
                CASE i = IdleTask -> NewTask(MIN_PRIO, 0)
                  [] i = MainTask -> NewTask(0, 1)
                  [] OTHER -> [NewTask(MIN_PRIO, 0) EXCEPT !.state = "Dead"]]
  /\ ntasks = 2
  /\ cur = MainTask /\ live = 1 /\ mpp = "User"
  /\ lastTaskChange = 0 /\ lastStatDump = 0
  /\ kpc = "user" /\ pending = {} /\ xferTarget = NoTask
  /\ mtime = 0 /\ mtimecmp = HZ
  /\ irqPending = {} /\ dmaHw = NoTask /\ inputHw = FALSE
  /\ births = 1
  /\ late = [i \in Tasks |-> "no"]

-----------------------------------------------------------------------------
(* Scheduler *)

Asleep(t, addr, at) == [t EXCEPT !.state = "Sleeping", !.until = at, !.futex = addr]
Awake(t) == [t EXCEPT !.state = "Running", !.until = 0, !.futex = NoFutex]

\* maybe_wake_up_tasks: the sleepers whose deadline has passed run again.
WakeUpTasks(ts, now) ==
  [i \in Tasks |-> IF ts[i].state = "Sleeping" /\ now >= ts[i].until
                   THEN Awake(ts[i]) ELSE ts[i]]

\* How far slot i is from the start of the scan, the slot after cur.
ScanOrder(i) == (i - cur - 1) % MaxTasks

\* Mutant: the scan stops at the first runnable task.
IsNextFirst(nxt, ts) ==
  LET better == {i \in Tasks : ts[i].state = "Running" /\ ts[i].prio > ts[IdleTask].prio}
  IN  \/ better = {} /\ nxt = IdleTask
      \/ nxt \in better /\ \A i \in better : ScanOrder(nxt) <= ScanOrder(i)

\* The runnable task of highest priority, the first in scan order among
\* equals; the idle task when no runnable task beats its priority.
IsNext(nxt, ts) ==
  LET better == {i \in Tasks : ts[i].state = "Running" /\ ts[i].prio > ts[IdleTask].prio}
  IN  \/ better = {} /\ nxt = IdleTask
      \/ /\ nxt \in better
         /\ \A i \in better :
              \/ ts[i].prio < ts[nxt].prio
              \/ ts[i].prio = ts[nxt].prio /\ ScanOrder(nxt) <= ScanOrder(i)

\* Mutants: no slot among equals; sleepers do not bound the timer.
DeadlinesNoSlot(nxt, ts, now) ==
  {now + HZ} \cup {ts[i].until : i \in {j \in Tasks \ {nxt} :
                     ts[j].state = "Sleeping" /\ ts[j].prio > ts[nxt].prio}}
DeadlinesNoSleepers(nxt, ts, now) ==
  {now + HZ} \cup {now + Slot : i \in {j \in Tasks \ {nxt} :
                     ts[j].state = "Running" /\ ts[j].prio >= ts[nxt].prio}}

\* The instants of which run_until is the minimum.
Deadlines(nxt, ts, now) ==
  LET rivals == {i \in Tasks \ {nxt} : ts[i].prio >= ts[nxt].prio}
      contended == \E i \in rivals :
                      \/ ts[i].state = "Running"
                      \/ ts[i].state = "Sleeping" /\ ts[i].prio = ts[nxt].prio
      preempting == {i \in rivals : ts[i].state = "Sleeping" /\ ts[i].prio > ts[nxt].prio}
  IN  {now + HZ} \cup (IF contended THEN {now + Slot} ELSE {})
                 \cup {ts[i].until : i \in preempting}

\* The task that is switched out is charged for its time, unless it is dead.
Charge(nxt, ts, now) ==
  IF nxt = cur \/ ts[cur].state = "Dead" THEN ts
  ELSE [ts EXCEPT ![cur].runTicks = @ + (now - lastTaskChange)]

\* Scheduler::schedule over the vector ts, from instant start on.  It stores the
\* interrupted context, and reads MTIME twice: to wake the sleepers and to arm
\* the timer.
Schedule(ts, start) ==
  \E wake \in start .. mtime + ReadSkew :
    LET woken == WakeUpTasks([ts EXCEPT ![cur].saved = live], wake)
    IN  \E nxt \in {i \in Tasks : IsNext(i, woken)}, now \in wake .. mtime + ReadSkew :
          LET deadlines == Deadlines(nxt, woken, now)
          IN  /\ now <= MaxTime
              /\ tasks' = Charge(nxt, woken, now)
              /\ mtime' = now
              /\ mtimecmp' \in {d \in deadlines : \A e \in deadlines : d <= e}
              /\ cur' = nxt
              /\ IF nxt = cur THEN UNCHANGED <<lastTaskChange, live, mpp>>
                 ELSE /\ lastTaskChange' = now
                      /\ live' = woken[nxt].saved
                      /\ mpp' = IF nxt = IdleTask THEN "Machine" ELSE "User"
              /\ late' = [i \in Tasks |-> "no"]

\* Mutant: the decision is the last task's, not anyone's.
MakeRunnableIfAll(S) ==
  LET ts == [i \in Tasks |-> IF i \in S THEN Awake(tasks[i]) ELSE tasks[i]]
  IN  IF \A i \in S : tasks[i].prio > tasks[cur].prio
      THEN Schedule(ts, mtime)
      ELSE /\ tasks' = ts
           /\ late' = [i \in Tasks |-> IF i \in S THEN "woken" ELSE late[i]]
           /\ UNCHANGED <<cpuVars, mtime>>

\* The tasks of S become runnable, and schedule() is called if one of them has
\* a higher priority than the current task.
MakeRunnable(S) ==
  LET ts == [i \in Tasks |-> IF i \in S THEN Awake(tasks[i]) ELSE tasks[i]]
  IN  IF \E i \in S : tasks[i].prio > tasks[cur].prio
      THEN Schedule(ts, mtime)
      ELSE /\ tasks' = ts
           /\ late' = [i \in Tasks |-> IF i \in S THEN "woken" ELSE late[i]]
           /\ UNCHANGED <<cpuVars, mtime>>

-----------------------------------------------------------------------------
(* System calls: handle_ecall, on behalf of the current user task.  A call *)
(* the kernel refuses (Busy, Invalid, TooLong, NoMem, Again, NoSys) leaves *)
(* all of this state as it was and is a stuttering step.                   *)

UserCall(call) == kpc = "user" /\ cur # IdleTask /\ call \in Calls

\* saturating_add on the 64-bit MTIME.
SatAdd(a, b) == IF a + b > U64Max THEN U64Max ELSE a + b

\* sleep_current_task: with 0 ticks the call only yields.
SleepCurrentTask(addr, ticks) ==
  IF ticks = 0 THEN Schedule(tasks, mtime)
  ELSE \E now \in mtime .. mtime + ReadSkew :
         Schedule([tasks EXCEPT ![cur] = Asleep(@, addr, SatAdd(now, ticks))], now)

SysSleep(ticks) ==
  /\ UserCall("sleep")
  /\ SleepCurrentTask(NoFutex, ticks)
  /\ UNCHANGED <<ntasks, irqVars, hwVars, xferTarget, lastStatDump, births>>

\* The futex word holds the expected value (else the call is refused).  A
\* timeout of 0 ticks makes the call return at once, a stuttering step too.
SysFutexWait(addr, ticks) ==
  /\ UserCall("futex") /\ ticks > 0
  /\ SleepCurrentTask(addr, ticks)
  /\ UNCHANGED <<ntasks, irqVars, hwVars, xferTarget, lastStatDump, births>>

\* Mutant: any sleeper is taken for a waiter.
FutexWaitersAny(addr) == {i \in Tasks : tasks[i].state = "Sleeping"}

\* futex_wake: futex_wake_one up to n times, each picking the waiter of
\* highest priority and, among equals, of highest index.
FutexWaiters(addr) ==
  {i \in Tasks : tasks[i].state = "Sleeping" /\ tasks[i].futex = addr}

IsWakeSet(W, addr, n) ==
  LET waiters == FutexWaiters(addr)
  IN  /\ Cardinality(W) = IF n < Cardinality(waiters) THEN n ELSE Cardinality(waiters)
      /\ \A i \in W, j \in waiters \ W :
           \/ tasks[j].prio < tasks[i].prio
           \/ tasks[j].prio = tasks[i].prio /\ j < i

SysFutexWake(addr, n) ==
  /\ UserCall("futex") /\ n > 0
  /\ \E W \in SUBSET FutexWaiters(addr) : IsWakeSet(W, addr, n) /\ MakeRunnable(W)
  /\ UNCHANGED <<ntasks, irqVars, hwVars, xferTarget, lastStatDump, births>>

CurrentTaskSetState(s) == Schedule([tasks EXCEPT ![cur].state = s], mtime)

SysWaitForVsync ==
  /\ UserCall("vsync")
  /\ CurrentTaskSetState("WaitingForVSync")
  /\ UNCHANGED <<ntasks, irqVars, hwVars, xferTarget, lastStatDump, births>>

\* InputDev::xmit refuses while a transfer is ongoing.
SysInputDev ==
  /\ UserCall("input") /\ xferTarget = NoTask
  /\ xferTarget' = cur /\ inputHw' = TRUE
  /\ CurrentTaskSetState("WaitingForInputDev")
  /\ UNCHANGED <<ntasks, irqVars, irqPending, dmaHw, lastStatDump, births>>

\* Dma::start tests in_progress, which nothing ever sets: writing DMA_LEN
\* replaces whatever transfer the engine was running.
SysDoDma ==
  /\ UserCall("dma")
  /\ dmaHw' = cur
  /\ CurrentTaskSetState("WaitingForDma")
  /\ UNCHANGED <<ntasks, irqVars, irqPending, inputHw, xferTarget, lastStatDump, births>>

\* spawn_task: the first dead slot is reused and the call returns; without one
\* the task is pushed, and schedule() called if it outranks the caller.
FirstDead(i) ==
  /\ i < ntasks /\ tasks[i].state = "Dead"
  /\ \A j \in Tasks : j < i => tasks[j].state # "Dead"

\* Mutant: the slot keeps the dead task's ra and sp.
SpawnReuseStale(i, p) ==
  /\ FirstDead(i)
  /\ tasks' = [tasks EXCEPT ![i] = [NewTask(p, births + 1) EXCEPT !.saved = tasks[i].saved]]
  /\ late' = [late EXCEPT ![i] = "spawned"]
  /\ UNCHANGED <<ntasks, cpuVars, mtime>>

SpawnReuse(i, p) ==
  /\ FirstDead(i)
  /\ tasks' = [tasks EXCEPT ![i] = NewTask(p, births + 1)]
  /\ late' = [late EXCEPT ![i] = "spawned"]
  /\ UNCHANGED <<ntasks, cpuVars, mtime>>

SpawnPush(i, p) ==
  LET ts == [tasks EXCEPT ![i] = NewTask(p, births + 1)]
  IN  /\ i = ntasks /\ \A j \in Tasks : ~FirstDead(j)
      /\ ntasks' = ntasks + 1
      /\ IF tasks[cur].prio < p THEN Schedule(ts, mtime)
         ELSE /\ tasks' = ts
              /\ late' = [late EXCEPT ![i] = "pushed"]
              /\ UNCHANGED <<cpuVars, mtime>>

SysSpawnTask(p) ==
  /\ UserCall("spawn")
  /\ births < MaxBirths /\ births' = births + 1
  /\ \E i \in Tasks : SpawnReuse(i, p) \/ SpawnPush(i, p)
  /\ UNCHANGED <<irqVars, hwVars, xferTarget, lastStatDump>>

\* exit_current_task, also where _task_runner ends up when a task returns.
SysExit ==
  /\ UserCall("exit")
  /\ Schedule([tasks EXCEPT ![cur] = [@ EXCEPT !.state = "Dead", !.prio = MIN_PRIO]], mtime)
  /\ UNCHANGED <<ntasks, irqVars, hwVars, xferTarget, lastStatDump, births>>

SysShutdown ==
  /\ UserCall("shutdown")
  /\ kpc' = "off"
  /\ UNCHANGED <<tasks, ntasks, cpuVars, pending, hwVars, xferTarget, lastStatDump,
                 mtime, births, late>>

-----------------------------------------------------------------------------
(* Interrupts: rust_trap and handle_irqs *)

\* The machine timer interrupt.
TimerIrq ==
  /\ kpc = "user" /\ mtime >= mtimecmp
  /\ Schedule(tasks, mtime)
  /\ UNCHANGED <<ntasks, irqVars, hwVars, xferTarget, lastStatDump, births>>

\* handle_irqs reads IRQ_PENDING once.
IrqEnter ==
  /\ kpc = "user" /\ irqPending # {}
  /\ pending' = irqPending /\ kpc' = "vsync"
  /\ UNCHANGED <<tasks, ntasks, cpuVars, hwVars, xferTarget, lastStatDump,
                 mtime, births, late>>

\* wake_up_state, up to the statistics
WakeUpState(s) == MakeRunnable({i \in Tasks : tasks[i].state = s})

IrqVsync ==
  /\ kpc = "vsync"
  /\ IF "VSYNC" \in pending THEN WakeUpState("WaitingForVSync") /\ kpc' = "stats"
     ELSE kpc' = "input" /\ UNCHANGED <<tasks, cpuVars, mtime, late>>
  /\ UNCHANGED <<ntasks, pending, hwVars, xferTarget, lastStatDump, births>>

\* Mutant: the span is closed at the present instant.
IrqStatsNow ==
  LET span == lastTaskChange - lastStatDump
  IN  /\ kpc = "stats" /\ kpc' = "input"
      /\ IF span < StatPeriod THEN UNCHANGED <<tasks, lastStatDump>>
         ELSE /\ tasks' = [i \in Tasks |-> [tasks[i] EXCEPT !.runTicks = 0]]
              /\ lastStatDump' = mtime
      /\ UNCHANGED <<ntasks, cpuVars, pending, hwVars, xferTarget, mtime, births, late>>

\* dump_task_stats, the tail of wake_up_state(WaitingForVSync)
IrqStats ==
  LET span == lastTaskChange - lastStatDump
  IN  /\ kpc = "stats" /\ kpc' = "input"
      /\ IF span < StatPeriod THEN UNCHANGED <<tasks, lastStatDump>>
         ELSE /\ tasks' = [i \in Tasks |-> [tasks[i] EXCEPT !.runTicks = 0]]
              /\ lastStatDump' = lastTaskChange
      /\ UNCHANGED <<ntasks, cpuVars, pending, hwVars, xferTarget, mtime, births, late>>

\* Mutant: the pointer to the buffer stays behind.
IrqInputKeepsBuffer ==
  /\ kpc = "input" /\ kpc' = "dma"
  /\ IF "INPUT" \in pending THEN WakeUpState("WaitingForInputDev")
     ELSE UNCHANGED <<tasks, cpuVars, mtime, late>>
  /\ UNCHANGED <<ntasks, pending, hwVars, xferTarget, lastStatDump, births>>

\* xmit_done copies the reply to the buffer and gives the buffer up.
IrqInput ==
  /\ kpc = "input" /\ kpc' = "dma"
  /\ IF "INPUT" \in pending THEN xferTarget' = NoTask /\ WakeUpState("WaitingForInputDev")
     ELSE UNCHANGED <<tasks, cpuVars, mtime, late, xferTarget>>
  /\ UNCHANGED <<ntasks, pending, hwVars, lastStatDump, births>>

\* Dma::done, then what was read from IRQ_PENDING is acknowledged.
IrqDma ==
  /\ kpc = "dma" /\ kpc' = "ack"
  /\ IF "DMA" \in pending THEN WakeUpState("WaitingForDma")
     ELSE UNCHANGED <<tasks, cpuVars, mtime, late>>
  /\ UNCHANGED <<ntasks, pending, hwVars, xferTarget, lastStatDump, births>>

\* Mutant: everything is acknowledged, as at boot.
IrqAckAll ==
  /\ kpc = "ack" /\ kpc' = "user"
  /\ irqPending' = {} /\ pending' = {}
  /\ UNCHANGED <<tasks, ntasks, cpuVars, dmaHw, inputHw, xferTarget, lastStatDump,
                 mtime, births, late>>

IrqAck ==
  /\ kpc = "ack" /\ kpc' = "user"
  /\ irqPending' = irqPending \ pending
  /\ pending' = {}
  /\ UNCHANGED <<tasks, ntasks, cpuVars, dmaHw, inputHw, xferTarget, lastStatDump,
                 mtime, births, late>>

-----------------------------------------------------------------------------
(* Hardware, which runs whatever the kernel does *)

MtimeTick ==
  /\ kpc # "off" /\ mtime < MaxTime
  /\ mtime' = mtime + 1
  /\ UNCHANGED <<tasks, ntasks, cpuVars, irqVars, hwVars, xferTarget, lastStatDump,
                 births, late>>

Trigger(irq) ==
  /\ kpc # "off"
  /\ irqPending' = irqPending \cup {irq}
  /\ UNCHANGED <<tasks, ntasks, cpuVars, irqVars, xferTarget, lastStatDump, mtime,
                 births, late>>

VsyncHw == "VSYNC" \in Devices /\ Trigger("VSYNC") /\ UNCHANGED <<dmaHw, inputHw>>

DmaDoneHw == dmaHw # NoTask /\ dmaHw' = NoTask /\ Trigger("DMA") /\ UNCHANGED inputHw

InputDoneHw == inputHw /\ inputHw' = FALSE /\ Trigger("INPUT") /\ UNCHANGED dmaHw

Hardware == MtimeTick \/ VsyncHw \/ DmaDoneHw \/ InputDoneHw

Handler == IrqEnter \/ IrqVsync \/ IrqStats \/ IrqInput \/ IrqDma \/ IrqAck

Syscall ==
  \/ \E t \in Ticks : SysSleep(t)
  \/ \E a \in Addrs, t \in Ticks : SysFutexWait(a, t)
  \/ \E a \in Addrs, n \in 1 .. MaxTasks : SysFutexWake(a, n)
  \/ SysWaitForVsync \/ SysInputDev \/ SysDoDma
  \/ \E p \in Prios : SysSpawnTask(p)
  \/ SysExit \/ SysShutdown

\* The emulator has stopped.
Off == kpc = "off" /\ UNCHANGED vars

Next == Syscall \/ TimerIrq \/ Handler \/ Hardware \/ Off

Spec == Init /\ [][Next]_vars

\* Interrupts are enabled outside the kernel and devices finish what they
\* start, so neither the handler nor a device stops short.
Fairness ==
  /\ WF_vars(Handler) /\ WF_vars(VsyncHw) /\ WF_vars(DmaDoneHw) /\ WF_vars(InputDoneHw)

FairSpec == Spec /\ Fairness

-----------------------------------------------------------------------------
(* Properties *)

TypeOK ==
  /\ tasks \in [Tasks -> Task]
  /\ ntasks \in 2 .. MaxTasks
  /\ cur \in Tasks /\ live \in Lives /\ mpp \in {"User", "Machine"}
  /\ lastTaskChange \in Nat /\ lastStatDump \in Nat
  /\ kpc \in {"user", "vsync", "stats", "input", "dma", "ack", "off"}
  /\ pending \subseteq Irqs /\ irqPending \subseteq Irqs
  /\ xferTarget \in Tasks \cup {NoTask} /\ dmaHw \in Tasks \cup {NoTask}
  /\ inputHw \in BOOLEAN
  /\ mtime \in Nat /\ mtimecmp \in Nat
  /\ births \in Lives
  /\ late \in [Tasks -> {"no", "woken", "spawned", "pushed"}]

\* The processor is only ever given to a task that can run: a task that blocked,
\* went to sleep or died is never the one mret returns to, and the idle task can
\* always stand in.
CurrentCanRun ==
  tasks[cur].state = "Running" /\ tasks[IdleTask].state = "Running"

\* mret resumes the current task's own context at its own privilege, however many
\* times one trap switched tasks, and each other live task's slot stores that
\* task's own context, also after the slot belonged to a task that died.
ContextIsOwn ==
  /\ live = tasks[cur].life
  /\ mpp = IF cur = IdleTask THEN "Machine" ELSE "User"
  /\ \A i \in Tasks \ {cur} : tasks[i].state # "Dead" => tasks[i].saved = tasks[i].life

\* No runnable task waits behind one of lower priority, whichever call or
\* interrupt made it runnable, except one spawned into a dead slot, which
\* spawn_task does not submit to schedule().
PriorityRespected ==
  \A i \in Tasks : tasks[i].state = "Running" /\ tasks[i].prio > tasks[cur].prio
                     => late[i] = "spawned"

\* Round robin: while a task that schedule() saw runnable at the current task's
\* priority is waiting, the timer is armed within TASK_SLOT_ROUND_ROBBIN.
SlotArmed ==
  \A i \in Tasks \ {cur} :
    (tasks[i].state = "Running" /\ tasks[i].prio = tasks[cur].prio /\ late[i] = "no")
      => mtimecmp <= mtime + Slot

\* A sleeper that outranks the current task never oversleeps: the timer is armed
\* no later than its deadline.
NoOversleep ==
  \A i \in Tasks : (tasks[i].state = "Sleeping" /\ tasks[i].prio > tasks[cur].prio)
                     => mtimecmp <= tasks[i].until

\* No interrupt is lost between IRQ_PENDING's read and its acknowledgement: a task
\* that waits for a device has that device still at work, its interrupt pending,
\* or the handler about to wake it.
WaitersWillWake ==
  /\ \A i \in Tasks : tasks[i].state = "WaitingForDma" =>
       \/ dmaHw # NoTask
       \/ "DMA" \in irqPending \ (IF kpc = "ack" THEN pending ELSE {})
  /\ \A i \in Tasks : tasks[i].state = "WaitingForInputDev" =>
       \/ inputHw
       \/ "INPUT" \in irqPending \ (IF kpc \in {"dma", "ack"} THEN pending ELSE {})

\* xmit_done writes the reply through the pointer the transfer was started with:
\* that buffer belongs to a task that is blocked on this very transfer, never to
\* one that runs on, died, or was replaced in its slot.
InputBufferPinned ==
  xferTarget # NoTask => tasks[xferTarget].state = "WaitingForInputDev"

\* The loop of dump_task_stats: tot after the first n slots.
Tot[n \in 0 .. MaxTasks] == IF n = 0 THEN 0 ELSE Tot[n - 1] + tasks[n - 1].runTicks

\* dump_task_stats computes `span - tot` on unsigned integers: the time charged to
\* all tasks never exceeds the span the statistics cover.
AccountingFits ==
  Tot[MaxTasks] <= lastTaskChange - lastStatDump

\* Before its deadline a sleeper is only woken as a waiter of the futex that is
\* being woken: a plain sleep runs to its end, the waiters of other addresses
\* sleep on, and no waiter left asleep outranks one that was woken.
EarlyWakesAreFutexWakes ==
  [][LET asleep == {i \in Tasks : tasks[i].state = "Sleeping"}
         early == {i \in asleep : tasks'[i].state # "Sleeping" /\ mtime' < tasks[i].until}
         left == {i \in asleep : tasks'[i].state = "Sleeping"}
     IN  \A i \in early :
           /\ tasks[i].futex # NoFutex
           /\ \A j \in early : tasks[j].futex = tasks[i].futex
           /\ \A j \in left : tasks[j].futex = tasks[i].futex
                                 => tasks[j].prio <= tasks[i].prio]_vars

\* A task that waits for a device or for VSYNC runs again, whatever the other
\* tasks and devices do meanwhile.
DeviceWaitsEnd ==
  \A i \in Tasks : \A s \in {"WaitingForVSync", "WaitingForInputDev", "WaitingForDma"} :
    tasks[i].state = s ~> (tasks[i].state # s \/ kpc = "off")

-----------------------------------------------------------------------------
(* The kernel implements the abstract dispatcher. *)

Status ==
  [i \in Tasks |-> CASE tasks[i].state = "Dead" -> "none"
                     [] tasks[i].state = "Running" -> "ready"
                     [] OTHER -> "blocked"]

Dispatch == INSTANCE Dispatcher WITH
  status <- Status,
  prio <- [i \in Tasks |-> tasks[i].prio],
  running <- cur,
  overlooked <- {i \in Tasks : late[i] = "spawned" /\ tasks[i].prio > tasks[cur].prio}

\* Whatever the system calls and interrupts do, the processor is handed over as
\* the abstract dispatcher allows.
ImplementsDispatcher == Dispatch!Spec

=============================================================================
