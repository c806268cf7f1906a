---------------------------- MODULE KernelProofs ----------------------------
(***************************************************************************)
(* Proofs about Kernel, for every value of its constants.                  *)
(***************************************************************************)
EXTENDS Kernel, TLAPS, WellFoundedInduction

-----------------------------------------------------------------------------
(* The inductive invariant *)

\* The idle task keeps slot 0, the lowest priority and its own identity, and the
\* slots that were never pushed are dead.
SlotsOK ==
  /\ tasks[IdleTask].prio = MIN_PRIO
  /\ \A i \in Tasks : i >= ntasks => tasks[i].state = "Dead"

\* Where handle_irqs has passed a device whose bit it read, nobody waits for it.
HandledNobodyWaits ==
  /\ kpc \in {"user", "off"} => pending = {}
  /\ (kpc \in {"dma", "ack"} /\ "INPUT" \in pending) =>
        \A i \in Tasks : tasks[i].state # "WaitingForInputDev"
  /\ (kpc = "ack" /\ "DMA" \in pending) =>
        \A i \in Tasks : tasks[i].state # "WaitingForDma"

IInv ==
  /\ TypeOK /\ SlotsOK
  /\ CurrentCanRun /\ ContextIsOwn /\ PriorityRespected
  /\ lastTaskChange <= mtime
  /\ HandledNobodyWaits /\ WaitersWillWake /\ InputBufferPinned

-----------------------------------------------------------------------------
(* The scheduler *)

\* What every caller of schedule() has established for the vector it passes.
Schedulable(ts) ==
  /\ ts \in [Tasks -> Task]
  /\ ts[IdleTask].state = "Running" /\ ts[IdleTask].prio = MIN_PRIO
  /\ live = ts[cur].life
  /\ \A i \in Tasks \ {cur} : ts[i].state # "Dead" => ts[i].saved = ts[i].life

LEMMA FieldFacts ==
  /\ {"Dead", "Running", "Sleeping", "WaitingForVSync", "WaitingForInputDev",
       "WaitingForDma"} = States
  /\ 0 \in Instants /\ NoFutex \in FutexIds /\ MIN_PRIO \in AllPrios
  /\ Prios \subseteq AllPrios /\ \A p \in AllPrios : p \in Int /\ p >= MIN_PRIO
BY TimesAssumption, PriosAssumption DEF States, Instants, FutexIds, AllPrios

LEMMA TasksFacts == IdleTask \in Tasks /\ MainTask \in Tasks /\ Tasks \subseteq Nat
                    /\ IdleTask # MainTask
BY TasksAssumption DEF Tasks, IdleTask, MainTask

\* Waking the sleepers only turns "Sleeping" into "Running".
LEMMA WakeUpTasksLemma ==
  ASSUME NEW ts \in [Tasks -> Task], NEW now
  PROVE  /\ WakeUpTasks(ts, now) \in [Tasks -> Task]
         /\ \A i \in Tasks :
              LET w == WakeUpTasks(ts, now)[i]
              IN  /\ w.prio = ts[i].prio /\ w.life = ts[i].life
                  /\ w.saved = ts[i].saved /\ w.runTicks = ts[i].runTicks
                  /\ w.state = ts[i].state \/ (ts[i].state = "Sleeping" /\ w.state = "Running")
<1>1. ASSUME NEW t \in Task
      PROVE  /\ Awake(t) \in Task
             /\ Awake(t).prio = t.prio /\ Awake(t).life = t.life
             /\ Awake(t).saved = t.saved /\ Awake(t).runTicks = t.runTicks
             /\ Awake(t).state = "Running"
  BY FieldFacts DEF Awake, Task
<1> QED BY <1>1 DEF WakeUpTasks

\* The task picked by the scan can run, and none that can outranks it.
LEMMA IsNextLemma ==
  ASSUME NEW ts \in [Tasks -> Task], NEW nxt \in Tasks, IsNext(nxt, ts),
         ts[IdleTask].state = "Running", ts[IdleTask].prio = MIN_PRIO
  PROVE  /\ ts[nxt].state = "Running"
         /\ \A i \in Tasks : ts[i].state = "Running" => ts[i].prio <= ts[nxt].prio
<1>1. \A i \in Tasks : ts[i].prio \in Int /\ ts[i].prio >= MIN_PRIO
  BY FieldFacts DEF Task
<1>2. MIN_PRIO \in Int
  BY PriosAssumption
<1> QED BY <1>1, <1>2 DEF IsNext

LEMMA DeadlinesLemma ==
  ASSUME NEW ts \in [Tasks -> Task], NEW nxt \in Tasks, NEW now \in Nat
  PROVE  Deadlines(nxt, ts, now) \subseteq Nat
<1>1. \A i \in Tasks : ts[i].until \in Nat
  BY TimesAssumption DEF Task, Instants
<1>2. now + HZ \in Nat /\ now + Slot \in Nat
  BY TimesAssumption
<1> QED BY <1>1, <1>2 DEF Deadlines

LEMMA ChargeLemma ==
  ASSUME NEW ts \in [Tasks -> Task], NEW nxt, NEW now \in Nat, cur \in Tasks,
         lastTaskChange \in Nat, lastTaskChange <= now
  PROVE  /\ Charge(nxt, ts, now) \in [Tasks -> Task]
         /\ \A i \in Tasks :
              LET c == Charge(nxt, ts, now)[i]
              IN  /\ c.state = ts[i].state /\ c.prio = ts[i].prio
                  /\ c.life = ts[i].life /\ c.saved = ts[i].saved
<1>1. now - lastTaskChange \in Nat
  OBVIOUS
<1>2. \A t \in Task : /\ t.runTicks \in Nat
                      /\ [t EXCEPT !.runTicks = @ + (now - lastTaskChange)] \in Task
  BY <1>1 DEF Task
<1>3. CASE nxt = cur \/ ts[cur].state = "Dead"
  BY <1>3 DEF Charge
<1>4. CASE ~(nxt = cur \/ ts[cur].state = "Dead")
  BY <1>2, <1>4 DEF Charge, Task
<1> QED BY <1>3, <1>4

\* schedule() gives the processor to a runnable task that no other outranks,
\* with that task's own context, and changes nobody's state but the sleepers'.
LEMMA ScheduleLemma ==
  ASSUME TypeOK, ContextIsOwn, lastTaskChange <= mtime,
         NEW ts, Schedulable(ts), NEW start \in Nat, start >= mtime,
         Schedule(ts, start)
  PROVE  /\ tasks' \in [Tasks -> Task] /\ cur' \in Tasks /\ live' \in Lives
         /\ mpp' \in {"User", "Machine"}
         /\ mtime' \in Nat /\ mtimecmp' \in Nat
         /\ lastTaskChange' \in Nat /\ lastTaskChange' <= mtime'
         /\ late' = [i \in Tasks |-> "no"]
         /\ CurrentCanRun' /\ ContextIsOwn' /\ PriorityRespected'
         /\ \A i \in Tasks :
              /\ tasks'[i].prio = ts[i].prio /\ tasks'[i].life = ts[i].life
              /\ \/ tasks'[i].state = ts[i].state
                 \/ ts[i].state = "Sleeping" /\ tasks'[i].state = "Running"
<1> DEFINE s0 == [ts EXCEPT ![cur].saved = live]
<1>1. PICK wake \in start .. mtime + ReadSkew :
        \E nxt \in {i \in Tasks : IsNext(i, WakeUpTasks(s0, wake))},
           now \in wake .. mtime + ReadSkew :
          LET woken == WakeUpTasks(s0, wake)
              deadlines == Deadlines(nxt, woken, now)
          IN  /\ now <= MaxTime
              /\ tasks' = Charge(nxt, woken, now)
              /\ mtime' = now
              /\ mtimecmp' \in {d \in deadlines : \A e \in deadlines : d <= e}
              /\ cur' = nxt
              /\ IF nxt = cur THEN UNCHANGED <<lastTaskChange, live, mpp>>
                 ELSE /\ lastTaskChange' = now
                      /\ live' = woken[nxt].saved
                      /\ mpp' = IF nxt = IdleTask THEN "Machine" ELSE "User"
              /\ late' = [i \in Tasks |-> "no"]
  BY DEF Schedule
<1> DEFINE w == WakeUpTasks(s0, wake)
<1> HIDE DEF w
<1>2. PICK nxt \in Tasks, now \in wake .. mtime + ReadSkew :
          /\ IsNext(nxt, w)
          /\ tasks' = Charge(nxt, w, now)
          /\ mtime' = now
          /\ mtimecmp' \in Deadlines(nxt, w, now)
          /\ cur' = nxt
          /\ IF nxt = cur THEN UNCHANGED <<lastTaskChange, live, mpp>>
             ELSE /\ lastTaskChange' = now
                  /\ live' = w[nxt].saved
                  /\ mpp' = IF nxt = IdleTask THEN "Machine" ELSE "User"
          /\ late' = [i \in Tasks |-> "no"]
  BY <1>1 DEF w
<1>3. /\ cur \in Tasks /\ live \in Lives /\ mtime \in Nat /\ lastTaskChange \in Nat
      /\ mpp \in {"User", "Machine"} /\ mtime <= now /\ now \in Nat
  BY <1>1, <1>2, TimesAssumption DEF TypeOK
<1>4. /\ s0 \in [Tasks -> Task]
      /\ \A i \in Tasks : /\ s0[i].state = ts[i].state /\ s0[i].prio = ts[i].prio
                          /\ s0[i].life = ts[i].life
                          /\ s0[i].saved = IF i = cur THEN live ELSE ts[i].saved
  BY <1>3 DEF Schedulable, Task
<1>5. /\ w \in [Tasks -> Task]
      /\ \A i \in Tasks :
           /\ w[i].prio = ts[i].prio /\ w[i].life = ts[i].life
           /\ w[i].saved = IF i = cur THEN live ELSE ts[i].saved
           /\ w[i].state = ts[i].state \/ (ts[i].state = "Sleeping" /\ w[i].state = "Running")
  <2> HIDE DEF s0
  <2> QED BY <1>4, WakeUpTasksLemma DEF w
<1> HIDE DEF s0
<1>6. w[IdleTask].state = "Running" /\ w[IdleTask].prio = MIN_PRIO
  BY <1>5, TasksFacts DEF Schedulable
<1>7. /\ w[nxt].state = "Running"
      /\ \A i \in Tasks : w[i].state = "Running" => w[i].prio <= w[nxt].prio
  BY <1>2, <1>5, <1>6, IsNextLemma
<1>8. mtimecmp' \in Nat
  BY <1>2, <1>3, <1>5, DeadlinesLemma
<1>9. /\ tasks' \in [Tasks -> Task]
      /\ \A i \in Tasks : /\ tasks'[i].state = w[i].state /\ tasks'[i].prio = w[i].prio
                          /\ tasks'[i].life = w[i].life /\ tasks'[i].saved = w[i].saved
  BY <1>2, <1>3, <1>5, ChargeLemma
<1>10. w[nxt].saved = w[nxt].life /\ w[nxt].saved \in Lives
  BY <1>2, <1>5, <1>7 DEF Schedulable, Task
<1>11. CurrentCanRun'
  BY <1>2, <1>6, <1>7, <1>9, TasksFacts DEF CurrentCanRun
<1>12. ContextIsOwn'
  <2>1. live' = tasks'[cur'].life
    BY <1>2, <1>3, <1>5, <1>9, <1>10 DEF Schedulable
  <2>2. mpp' = IF cur' = IdleTask THEN "Machine" ELSE "User"
    BY <1>2 DEF ContextIsOwn
  <2>3. ASSUME NEW i \in Tasks \ {cur'}, tasks'[i].state # "Dead"
        PROVE  tasks'[i].saved = tasks'[i].life
    BY <2>3, <1>5, <1>9 DEF Schedulable
  <2> QED BY <2>1, <2>2, <2>3 DEF ContextIsOwn
<1>13. PriorityRespected'
  <2>1. \A i \in Tasks : tasks'[i].prio \in Int
    BY <1>9, FieldFacts DEF Task
  <2> QED BY <2>1, <1>2, <1>7, <1>9 DEF PriorityRespected
<1> QED
  BY <1>2, <1>3, <1>5, <1>8, <1>9, <1>10, <1>11, <1>12, <1>13

\* A blocking or yielding call, the timer interrupt: schedule() over a vector that
\* differs from `tasks` in the current task's state (s) at most.
LEMMA SwitchLemma ==
  ASSUME IInv, NEW ts, NEW start \in Nat, start >= mtime,
         Schedulable(ts), Schedule(ts, start),
         \A i \in Tasks \ {cur} : ts[i] = tasks[i],
         kpc = "user", ntasks' = ntasks, irqVars' = irqVars, irqPending' = irqPending,
         lastStatDump' = lastStatDump, births' = births,
         dmaHw' \in Tasks \cup {NoTask}, dmaHw = NoTask \/ dmaHw' # NoTask,
         inputHw' \in BOOLEAN, inputHw => inputHw',
         xferTarget' = xferTarget \/ (xferTarget' = cur /\ ts[cur].state = "WaitingForInputDev"),
         ts[cur].state = "WaitingForDma" => dmaHw' # NoTask,
         ts[cur].state = "WaitingForInputDev" => inputHw'
  PROVE  IInv'
<1> USE DEF IInv
<1>1. /\ tasks' \in [Tasks -> Task] /\ cur' \in Tasks /\ live' \in Lives
      /\ mpp' \in {"User", "Machine"}
      /\ mtime' \in Nat /\ mtimecmp' \in Nat
      /\ lastTaskChange' \in Nat /\ lastTaskChange' <= mtime'
      /\ late' = [i \in Tasks |-> "no"]
      /\ CurrentCanRun' /\ ContextIsOwn' /\ PriorityRespected'
      /\ \A i \in Tasks :
           /\ tasks'[i].prio = ts[i].prio /\ tasks'[i].life = ts[i].life
           /\ \/ tasks'[i].state = ts[i].state
              \/ ts[i].state = "Sleeping" /\ tasks'[i].state = "Running"
  BY ScheduleLemma
<1>2. cur \in Tasks /\ tasks[cur].state = "Running" /\ cur < ntasks
  <2>1. cur \in Tasks /\ ntasks \in Nat /\ cur \in Nat
    BY TasksFacts DEF TypeOK
  <2> QED BY <2>1 DEF CurrentCanRun, SlotsOK
<1>3. TypeOK'
  BY <1>1, <1>2 DEF TypeOK, irqVars
<1>4. SlotsOK'
  <2>1. tasks'[IdleTask].prio = MIN_PRIO
    BY <1>1, TasksFacts DEF Schedulable
  <2>2. ASSUME NEW i \in Tasks, i >= ntasks PROVE tasks'[i].state = "Dead"
    <3>1. i # cur
      BY <1>2, <2>2, TasksFacts DEF TypeOK
    <3> QED BY <3>1, <2>2, <1>1 DEF SlotsOK
  <2> QED BY <2>1, <2>2 DEF SlotsOK
<1>5. HandledNobodyWaits'
  BY <1>1 DEF HandledNobodyWaits, irqVars
<1>6. WaitersWillWake'
  <2>1. ASSUME NEW i \in Tasks, tasks'[i].state = "WaitingForDma"
        PROVE  dmaHw' # NoTask \/ "DMA" \in irqPending
    BY <1>1, <2>1 DEF WaitersWillWake
  <2>2. ASSUME NEW i \in Tasks, tasks'[i].state = "WaitingForInputDev"
        PROVE  inputHw' \/ "INPUT" \in irqPending
    BY <1>1, <2>2 DEF WaitersWillWake
  <2>3. kpc' = "user"
    BY DEF irqVars
  <2> QED BY <2>1, <2>2, <2>3 DEF WaitersWillWake
<1>7. InputBufferPinned'
  <2>1. CASE xferTarget' = cur /\ ts[cur].state = "WaitingForInputDev"
    BY <2>1, <1>1, <1>2 DEF InputBufferPinned
  <2>2. CASE xferTarget' = xferTarget
    BY <2>2, <1>1, <1>2 DEF InputBufferPinned, TypeOK
  <2> QED BY <2>1, <2>2
<1> QED BY <1>1, <1>3, <1>4, <1>5, <1>6, <1>7

LEMMA TasksSchedulable == IInv => Schedulable(tasks)
BY TasksFacts DEF IInv, TypeOK, SlotsOK, CurrentCanRun, ContextIsOwn, Schedulable

\* The part of IInv that concerns the scheduler alone.
SchedInv ==
  /\ tasks \in [Tasks -> Task] /\ cur \in Tasks /\ live \in Lives
  /\ mpp \in {"User", "Machine"}
  /\ mtime \in Nat /\ mtimecmp \in Nat
  /\ lastTaskChange \in Nat /\ lastTaskChange <= mtime
  /\ late \in [Tasks -> {"no", "woken", "spawned", "pushed"}]
  /\ SlotsOK /\ CurrentCanRun /\ ContextIsOwn /\ PriorityRespected

\* Waking a set of blocked tasks changes nobody else's state but overdue sleepers'.
LEMMA MakeRunnableLemma ==
  ASSUME IInv, NEW S \in SUBSET Tasks, MakeRunnable(S), ntasks' = ntasks,
         \A i \in S : tasks[i].state \notin {"Dead", "Running"}
  PROVE  /\ SchedInv'
         /\ \A i \in S : tasks'[i].state = "Running"
         /\ \A i \in Tasks : \/ tasks'[i].state = tasks[i].state
                             \/ i \in S
                             \/ tasks[i].state = "Sleeping" /\ tasks'[i].state = "Running"
<1> USE DEF IInv
<1> DEFINE ts == [i \in Tasks |-> IF i \in S THEN Awake(tasks[i]) ELSE tasks[i]]
<1>1. /\ tasks \in [Tasks -> Task] /\ cur \in Tasks
      /\ tasks[cur].state = "Running" /\ tasks[IdleTask].state = "Running"
  BY DEF TypeOK, CurrentCanRun
<1>2. ASSUME NEW t \in Task
      PROVE  /\ Awake(t) \in Task
             /\ Awake(t).prio = t.prio /\ Awake(t).life = t.life
             /\ Awake(t).saved = t.saved /\ Awake(t).state = "Running"
  BY FieldFacts DEF Awake, Task
<1>3. /\ ts \in [Tasks -> Task]
      /\ \A i \in Tasks : /\ ts[i].prio = tasks[i].prio /\ ts[i].life = tasks[i].life
                          /\ ts[i].saved = tasks[i].saved
                          /\ ts[i].state = IF i \in S THEN "Running" ELSE tasks[i].state
  BY <1>1, <1>2
<1> HIDE DEF ts
<1>4. Schedulable(ts)
  <2>1. Schedulable(tasks)
    BY TasksSchedulable
  <2>2. \A i \in Tasks : ts[i].state # "Dead" => tasks[i].state # "Dead"
    BY <1>3
  <2> QED BY <1>1, <1>3, <2>1, <2>2, TasksFacts DEF Schedulable
<1>5. CASE \E i \in S : tasks[i].prio > tasks[cur].prio
  <2>1. Schedule(ts, mtime)
    BY <1>5 DEF MakeRunnable, ts
  <2>2. mtime \in Nat
    BY DEF TypeOK
  <2>3. /\ tasks' \in [Tasks -> Task] /\ cur' \in Tasks /\ live' \in Lives
        /\ mpp' \in {"User", "Machine"}
        /\ mtime' \in Nat /\ mtimecmp' \in Nat
        /\ lastTaskChange' \in Nat /\ lastTaskChange' <= mtime'
        /\ late' = [i \in Tasks |-> "no"]
        /\ CurrentCanRun' /\ ContextIsOwn' /\ PriorityRespected'
        /\ \A i \in Tasks :
             /\ tasks'[i].prio = ts[i].prio /\ tasks'[i].life = ts[i].life
             /\ \/ tasks'[i].state = ts[i].state
                \/ ts[i].state = "Sleeping" /\ tasks'[i].state = "Running"
    BY <1>4, <2>1, <2>2, ScheduleLemma
  <2>4. SlotsOK'
    BY <1>3, <2>3, TasksFacts DEF SlotsOK
  <2> QED BY <1>3, <2>3, <2>4 DEF SchedInv
<1>6. CASE ~(\E i \in S : tasks[i].prio > tasks[cur].prio)
  <2>1. /\ tasks' = ts
        /\ late' = [i \in Tasks |-> IF i \in S THEN "woken" ELSE late[i]]
        /\ UNCHANGED <<cur, live, mpp, lastTaskChange, mtimecmp, mtime>>
    BY <1>6 DEF MakeRunnable, ts, cpuVars
  <2>2. late' \in [Tasks -> {"no", "woken", "spawned", "pushed"}]
    BY <2>1 DEF TypeOK
  <2>3. SlotsOK'
    BY <1>3, <2>1, TasksFacts DEF SlotsOK
  <2>4. CurrentCanRun'
    BY <1>1, <1>3, <2>1, TasksFacts DEF CurrentCanRun
  <2>5. ContextIsOwn'
    BY <1>1, <1>3, <1>4, <2>1 DEF ContextIsOwn, Schedulable
  <2>6. PriorityRespected'
    BY <1>1, <1>3, <1>6, <2>1 DEF PriorityRespected
  <2>7. /\ mtime \in Nat /\ mtimecmp \in Nat /\ lastTaskChange \in Nat /\ live \in Lives
        /\ mpp \in {"User", "Machine"}
    BY DEF TypeOK
  <2> QED BY <1>1, <1>3, <2>1, <2>2, <2>3, <2>4, <2>5, <2>6, <2>7 DEF SchedInv
<1> QED BY <1>5, <1>6

-----------------------------------------------------------------------------
(* Every step preserves the invariant *)

LEMMA SleepStep ==
  ASSUME IInv, NEW addr \in FutexIds, NEW ticks \in Ticks, kpc = "user", cur # IdleTask,
         SleepCurrentTask(addr, ticks),
         UNCHANGED <<ntasks, irqVars, hwVars, xferTarget, lastStatDump, births>>
  PROVE  IInv'
<1>1. /\ mtime \in Nat /\ tasks \in [Tasks -> Task] /\ cur \in Tasks
      /\ dmaHw \in Tasks \cup {NoTask} /\ inputHw \in BOOLEAN
      /\ tasks[cur].state = "Running"
  BY DEF IInv, TypeOK, CurrentCanRun
<1>2. Schedulable(tasks)
  BY TasksSchedulable
<1>3. CASE ticks = 0
  BY <1>1, <1>2, <1>3, SwitchLemma DEF SleepCurrentTask, hwVars
<1>4. CASE ticks # 0
  <2>1. PICK now \in mtime .. mtime + ReadSkew :
          Schedule([tasks EXCEPT ![cur] = Asleep(@, addr, SatAdd(now, ticks))], now)
    BY <1>4 DEF SleepCurrentTask
  <2> DEFINE t == Asleep(tasks[cur], addr, SatAdd(now, ticks))
             ts == [tasks EXCEPT ![cur] = t]
  <2>2. now \in Nat /\ now >= mtime /\ SatAdd(now, ticks) \in Instants
    BY <1>1, TimesAssumption DEF SatAdd, Instants
  <2>3. /\ t \in Task /\ t.state = "Sleeping"
        /\ t.prio = tasks[cur].prio /\ t.life = tasks[cur].life
    BY <1>1, <2>2, FieldFacts DEF Task, Asleep
  <2>4. /\ ts \in [Tasks -> Task]
        /\ \A i \in Tasks \ {cur} : ts[i] = tasks[i]
        /\ ts[cur] = t
    BY <1>1, <2>3
  <2> HIDE DEF ts
  <2>5. Schedulable(ts)
    BY <1>1, <1>2, <2>4, <2>3, TasksFacts DEF Schedulable
  <2>6. Schedule(ts, now)
    BY <2>1 DEF ts
  <2> QED BY <1>1, <2>2, <2>4, <2>3, <2>5, <2>6, SwitchLemma DEF hwVars
<1> QED BY <1>3, <1>4

LEMMA CurrentTaskSetStateLemma ==
  ASSUME IInv, NEW s \in States \ {"Dead"}, cur # IdleTask
  PROVE  LET ts == [tasks EXCEPT ![cur].state = s]
         IN  /\ Schedulable(ts) /\ ts[cur].state = s
             /\ \A i \in Tasks \ {cur} : ts[i] = tasks[i]
<1> DEFINE ts == [tasks EXCEPT ![cur].state = s]
<1>1. tasks \in [Tasks -> Task] /\ cur \in Tasks
  BY DEF IInv, TypeOK
<1>2. /\ ts \in [Tasks -> Task]
      /\ \A i \in Tasks \ {cur} : ts[i] = tasks[i]
      /\ ts[cur].state = s /\ ts[cur].life = tasks[cur].life
  BY <1>1 DEF Task
<1> QED BY <1>1, <1>2, TasksSchedulable, TasksFacts DEF Schedulable

LEMMA FutexWakeStep ==
  ASSUME IInv, NEW addr \in Addrs, NEW n, SysFutexWake(addr, n)
  PROVE  IInv'
<1> USE DEF IInv
<1>1. PICK W \in SUBSET FutexWaiters(addr) : MakeRunnable(W)
  BY DEF SysFutexWake
<1>2. /\ kpc = "user" /\ ntasks' = ntasks
      /\ UNCHANGED <<kpc, pending, irqPending, dmaHw, inputHw, xferTarget, lastStatDump, births>>
  BY DEF SysFutexWake, UserCall, irqVars, hwVars
<1>3. /\ W \in SUBSET Tasks /\ \A i \in W : tasks[i].state = "Sleeping"
  BY <1>1 DEF FutexWaiters
<1>4. /\ SchedInv'
      /\ \A i \in Tasks : \/ tasks'[i].state = tasks[i].state
                          \/ tasks[i].state = "Sleeping" /\ tasks'[i].state = "Running"
  BY <1>1, <1>2, <1>3, MakeRunnableLemma
<1>5. TypeOK'
  BY <1>2, <1>4 DEF TypeOK, SchedInv
<1>6. HandledNobodyWaits' /\ WaitersWillWake' /\ InputBufferPinned'
  BY <1>2, <1>4 DEF TypeOK, HandledNobodyWaits, WaitersWillWake, InputBufferPinned
<1> QED BY <1>4, <1>5, <1>6 DEF SchedInv

LEMMA BlockStep ==
  ASSUME IInv, SysWaitForVsync \/ SysInputDev \/ SysDoDma
  PROVE  IInv'
<1>1. /\ mtime \in Nat /\ cur \in Tasks /\ dmaHw \in Tasks \cup {NoTask} /\ inputHw \in BOOLEAN
  BY DEF IInv, TypeOK
<1>2. ASSUME NEW s \in {"WaitingForVSync", "WaitingForInputDev", "WaitingForDma"},
             CurrentTaskSetState(s), cur # IdleTask
      PROVE  LET ts == [tasks EXCEPT ![cur].state = s]
             IN  /\ Schedule(ts, mtime) /\ Schedulable(ts) /\ ts[cur].state = s
                 /\ \A i \in Tasks \ {cur} : ts[i] = tasks[i]
  BY <1>2, FieldFacts, CurrentTaskSetStateLemma DEF CurrentTaskSetState
<1>3. CASE SysWaitForVsync
  <2> DEFINE ts == [tasks EXCEPT ![cur].state = "WaitingForVSync"]
  <2>1. /\ Schedule(ts, mtime) /\ Schedulable(ts) /\ ts[cur].state = "WaitingForVSync"
        /\ \A i \in Tasks \ {cur} : ts[i] = tasks[i]
    BY <1>2, <1>3 DEF SysWaitForVsync, UserCall
  <2> HIDE DEF ts
  <2> QED BY <1>1, <1>3, <2>1, SwitchLemma DEF SysWaitForVsync, UserCall, hwVars
<1>4. CASE SysInputDev
  <2> DEFINE ts == [tasks EXCEPT ![cur].state = "WaitingForInputDev"]
  <2>1. /\ Schedule(ts, mtime) /\ Schedulable(ts) /\ ts[cur].state = "WaitingForInputDev"
        /\ \A i \in Tasks \ {cur} : ts[i] = tasks[i]
    BY <1>2, <1>4 DEF SysInputDev, UserCall
  <2> HIDE DEF ts
  <2> QED BY <1>1, <1>4, <2>1, SwitchLemma DEF SysInputDev, UserCall
<1>5. CASE SysDoDma
  <2> DEFINE ts == [tasks EXCEPT ![cur].state = "WaitingForDma"]
  <2>1. /\ Schedule(ts, mtime) /\ Schedulable(ts) /\ ts[cur].state = "WaitingForDma"
        /\ \A i \in Tasks \ {cur} : ts[i] = tasks[i]
    BY <1>2, <1>5 DEF SysDoDma, UserCall
  <2> HIDE DEF ts
  <2>2. dmaHw' \in Tasks /\ dmaHw' # NoTask
    BY <1>1, <1>5, NamesAssumption DEF SysDoDma
  <2> QED BY <1>1, <1>5, <2>1, <2>2, SwitchLemma DEF SysDoDma, UserCall
<1> QED BY <1>3, <1>4, <1>5

LEMMA ExitStep ==
  ASSUME IInv, SysExit
  PROVE  IInv'
<1> DEFINE t == [tasks[cur] EXCEPT !.state = "Dead", !.prio = MIN_PRIO]
           ts == [tasks EXCEPT ![cur] = t]
<1>1. /\ mtime \in Nat /\ tasks \in [Tasks -> Task] /\ cur \in Tasks
      /\ dmaHw \in Tasks \cup {NoTask} /\ inputHw \in BOOLEAN
  BY DEF IInv, TypeOK
<1>2. t \in Task /\ t.state = "Dead" /\ t.life = tasks[cur].life
  BY <1>1, FieldFacts DEF Task
<1> HIDE DEF t
<1>3. /\ ts \in [Tasks -> Task] /\ ts[cur] = t
      /\ \A i \in Tasks \ {cur} : ts[i] = tasks[i]
  BY <1>1, <1>2
<1>4. Schedule(ts, mtime) /\ cur # IdleTask /\ kpc = "user"
  BY DEF SysExit, UserCall, ts, t
<1> HIDE DEF ts
<1>5. Schedulable(ts)
  BY <1>1, <1>2, <1>3, <1>4, TasksSchedulable, TasksFacts DEF Schedulable
<1> QED BY <1>1, <1>2, <1>3, <1>4, <1>5, SwitchLemma DEF SysExit, hwVars

LEMMA NewTaskLemma ==
  ASSUME NEW p \in AllPrios, NEW id \in Lives
  PROVE  /\ NewTask(p, id) \in Task
         /\ NewTask(p, id).state = "Running" /\ NewTask(p, id).prio = p
         /\ NewTask(p, id).life = id /\ NewTask(p, id).saved = id
BY FieldFacts DEF NewTask, Task

LEMMA SpawnStep ==
  ASSUME IInv, NEW p \in Prios, SysSpawnTask(p)
  PROVE  IInv'
<1> USE DEF IInv
<1> DEFINE new == NewTask(p, births + 1)
<1>1. PICK i \in Tasks : SpawnReuse(i, p) \/ SpawnPush(i, p)
  BY DEF SysSpawnTask
<1>2. /\ tasks \in [Tasks -> Task] /\ cur \in Tasks /\ mtime \in Nat
      /\ tasks[cur].state = "Running" /\ tasks[IdleTask].state = "Running"
      /\ ntasks \in 2 .. MaxTasks /\ late \in [Tasks -> {"no", "woken", "spawned", "pushed"}]
  BY DEF TypeOK, CurrentCanRun
<1>3. births + 1 \in Lives /\ births' \in Lives /\ p \in AllPrios /\ p >= MIN_PRIO
  BY NamesAssumption, FieldFacts DEF SysSpawnTask, TypeOK, Lives
<1>4. /\ kpc = "user" /\ cur # IdleTask
      /\ UNCHANGED <<kpc, pending, irqPending, dmaHw, inputHw, xferTarget, lastStatDump>>
  BY DEF SysSpawnTask, UserCall, irqVars, hwVars
<1>5. /\ new \in Task /\ new.state = "Running" /\ new.prio = p
      /\ new.life = births + 1 /\ new.saved = births + 1
  BY <1>3, NewTaskLemma
<1> HIDE DEF new
<1>6. tasks[i].state = "Dead" /\ i # IdleTask /\ i # cur
  <2>1. CASE SpawnReuse(i, p)
    BY <1>2, <2>1 DEF SpawnReuse, FirstDead
  <2>2. CASE SpawnPush(i, p)
    BY <1>2, <2>2 DEF SpawnPush, SlotsOK
  <2> QED BY <1>1, <2>1, <2>2
<1> DEFINE ts == [tasks EXCEPT ![i] = new]
<1>7. /\ ts \in [Tasks -> Task] /\ ts[i] = new
      /\ \A j \in Tasks \ {i} : ts[j] = tasks[j]
  BY <1>2, <1>5
<1> HIDE DEF ts
<1>8. Schedulable(ts)
  BY <1>2, <1>5, <1>6, <1>7, TasksSchedulable, TasksFacts DEF Schedulable
<1>9. i < ntasks' /\ ntasks' \in 2 .. MaxTasks /\ ntasks' >= ntasks
  BY <1>1, <1>2, TasksAssumption DEF SpawnReuse, SpawnPush, FirstDead, Tasks
<1>10. SchedInv' /\ \A j \in Tasks : \/ tasks'[j].state = ts[j].state
                                     \/ ts[j].state = "Sleeping" /\ tasks'[j].state = "Running"
  <2>1. CASE SpawnPush(i, p) /\ tasks[cur].prio < p
    <3>1. Schedule(ts, mtime)
      BY <2>1 DEF SpawnPush, ts, new
    <3>2. /\ tasks' \in [Tasks -> Task] /\ cur' \in Tasks /\ live' \in Lives
          /\ mpp' \in {"User", "Machine"}
          /\ mtime' \in Nat /\ mtimecmp' \in Nat
          /\ lastTaskChange' \in Nat /\ lastTaskChange' <= mtime'
          /\ late' = [j \in Tasks |-> "no"]
          /\ CurrentCanRun' /\ ContextIsOwn' /\ PriorityRespected'
          /\ \A j \in Tasks :
               /\ tasks'[j].prio = ts[j].prio /\ tasks'[j].life = ts[j].life
               /\ \/ tasks'[j].state = ts[j].state
                  \/ ts[j].state = "Sleeping" /\ tasks'[j].state = "Running"
      BY <1>2, <1>8, <3>1, ScheduleLemma
    <3>3. SlotsOK'
      BY <1>2, <1>7, <1>8, <1>9, <3>2, TasksFacts DEF SlotsOK, Schedulable
    <3> QED BY <3>2, <3>3 DEF SchedInv
  <2>2. CASE ~(SpawnPush(i, p) /\ tasks[cur].prio < p)
    <3>1. /\ tasks' = ts
          /\ late' = [late EXCEPT ![i] = late'[i]] /\ late'[i] \in {"spawned", "pushed"}
          /\ late'[i] = "spawned" \/ ~(tasks[cur].prio < p)
          /\ UNCHANGED <<cur, live, mpp, lastTaskChange, mtimecmp, mtime>>
      BY <1>1, <1>2, <2>2 DEF SpawnReuse, SpawnPush, cpuVars, ts, new
    <3>2. SlotsOK'
      BY <1>2, <1>7, <1>8, <1>9, <3>1, TasksFacts DEF SlotsOK, Schedulable
    <3>3. CurrentCanRun'
      BY <1>2, <1>6, <1>7, <3>1, TasksFacts DEF CurrentCanRun
    <3>4. ContextIsOwn'
      BY <1>2, <1>5, <1>6, <1>7, <3>1 DEF ContextIsOwn
    <3>5. PriorityRespected'
      <4>1. ASSUME NEW j \in Tasks, tasks'[j].state = "Running",
                   tasks'[j].prio > tasks'[cur'].prio
            PROVE  late'[j] = "spawned"
        <5>1. CASE j = i
          <6>1. tasks[cur].prio \in Int /\ p \in Int
            BY <1>2, <1>3, FieldFacts DEF Task
          <6> QED BY <1>2, <1>5, <1>6, <1>7, <3>1, <4>1, <5>1, <6>1
        <5>2. CASE j # i
          BY <1>2, <1>6, <1>7, <3>1, <4>1, <5>2 DEF PriorityRespected
        <5> QED BY <5>1, <5>2
      <4> QED BY <4>1 DEF PriorityRespected
    <3>6. late' \in [Tasks -> {"no", "woken", "spawned", "pushed"}]
      BY <1>2, <3>1
    <3>7. /\ mtimecmp \in Nat /\ lastTaskChange \in Nat /\ live \in Lives
          /\ mpp \in {"User", "Machine"}
      BY DEF TypeOK
    <3> QED BY <1>2, <1>7, <3>1, <3>2, <3>3, <3>4, <3>5, <3>6, <3>7 DEF SchedInv
  <2> QED BY <2>1, <2>2
<1>11. TypeOK'
  BY <1>3, <1>4, <1>9, <1>10 DEF TypeOK, SchedInv
<1>12. \A j \in Tasks : tasks'[j].state \in {"WaitingForDma", "WaitingForInputDev"}
                          => tasks[j].state = tasks'[j].state
  BY <1>5, <1>6, <1>7, <1>10
<1>13. HandledNobodyWaits' /\ WaitersWillWake'
  BY <1>4, <1>12 DEF HandledNobodyWaits, WaitersWillWake
<1>14. InputBufferPinned'
  BY <1>4, <1>6, <1>7, <1>10 DEF InputBufferPinned, TypeOK
<1> QED BY <1>10, <1>11, <1>13, <1>14 DEF SchedInv

\* The steps of handle_irqs that wake the waiters of one device (state s).
LEMMA WakeUpStateLemma ==
  ASSUME IInv, NEW s \in {"WaitingForVSync", "WaitingForInputDev", "WaitingForDma"},
         WakeUpState(s), ntasks' = ntasks
  PROVE  /\ SchedInv'
         /\ \A i \in Tasks :
              /\ tasks'[i].state # s
              /\ \/ tasks'[i].state = tasks[i].state
                 \/ tasks[i].state \in {s, "Sleeping"} /\ tasks'[i].state = "Running"
<1> DEFINE S == {i \in Tasks : tasks[i].state = s}
<1>1. S \in SUBSET Tasks /\ MakeRunnable(S) /\ \A i \in S : tasks[i].state \notin {"Dead", "Running"}
  BY DEF WakeUpState
<1>2. /\ SchedInv'
      /\ \A i \in S : tasks'[i].state = "Running"
      /\ \A i \in Tasks : \/ tasks'[i].state = tasks[i].state
                          \/ i \in S
                          \/ tasks[i].state = "Sleeping" /\ tasks'[i].state = "Running"
  BY <1>1, MakeRunnableLemma
<1> QED BY <1>2

\* What stays true of the scheduler when none of its variables changes.
LEMMA SchedStutter ==
  ASSUME IInv, UNCHANGED <<tasks, ntasks, cpuVars, late>>, mtime' \in Nat, mtime' >= mtime
  PROVE  SchedInv'
<1> QED
  BY DEF IInv, TypeOK, SchedInv, SlotsOK, CurrentCanRun, ContextIsOwn, PriorityRespected, cpuVars

LEMMA HandlerStep ==
  ASSUME IInv, Handler
  PROVE  IInv'
<1> USE DEF IInv
<1>1. CASE IrqEnter
  <2>1. SchedInv'
    BY <1>1, SchedStutter DEF IrqEnter, TypeOK
  <2>2. TypeOK'
    BY <1>1, <2>1 DEF IrqEnter, TypeOK, SchedInv, hwVars
  <2>3. HandledNobodyWaits' /\ WaitersWillWake' /\ InputBufferPinned'
    BY <1>1 DEF IrqEnter, hwVars, HandledNobodyWaits, WaitersWillWake, InputBufferPinned
  <2> QED BY <2>1, <2>2, <2>3 DEF SchedInv
<1>2. CASE IrqVsync
  <2>1. /\ SchedInv'
        /\ \A i \in Tasks : \/ tasks'[i].state = tasks[i].state
                            \/ /\ tasks[i].state \in {"WaitingForVSync", "Sleeping"}
                               /\ tasks'[i].state = "Running"
    <3>1. CASE "VSYNC" \in pending
      BY <1>2, <3>1, WakeUpStateLemma DEF IrqVsync
    <3>2. CASE "VSYNC" \notin pending
      BY <1>2, <3>2, SchedStutter DEF IrqVsync, TypeOK
    <3> QED BY <3>1, <3>2
  <2>2. /\ kpc = "vsync" /\ kpc' \in {"stats", "input"}
        /\ UNCHANGED <<ntasks, pending, irqPending, dmaHw, inputHw, xferTarget, lastStatDump, births>>
    BY <1>2 DEF IrqVsync, hwVars
  <2>3. TypeOK'
    BY <2>1, <2>2 DEF TypeOK, SchedInv
  <2>4. HandledNobodyWaits' /\ WaitersWillWake' /\ InputBufferPinned'
    BY <2>1, <2>2 DEF HandledNobodyWaits, WaitersWillWake, InputBufferPinned, TypeOK
  <2> QED BY <2>1, <2>3, <2>4 DEF SchedInv
<1>3. CASE IrqStats
  <2>1. /\ kpc = "stats" /\ kpc' = "input"
        /\ UNCHANGED <<ntasks, cpuVars, pending, hwVars, xferTarget, mtime, births, late>>
        /\ lastStatDump' \in Nat
    BY <1>3 DEF IrqStats, TypeOK
  <2>2. /\ tasks' \in [Tasks -> Task]
        /\ \A i \in Tasks : /\ tasks'[i].state = tasks[i].state /\ tasks'[i].prio = tasks[i].prio
                            /\ tasks'[i].life = tasks[i].life /\ tasks'[i].saved = tasks[i].saved
    BY <1>3 DEF IrqStats, TypeOK, Task
  <2>3. TypeOK'
    BY <2>1, <2>2 DEF TypeOK, cpuVars, hwVars
  <2>4. SlotsOK' /\ CurrentCanRun' /\ ContextIsOwn' /\ PriorityRespected'
    BY <2>1, <2>2, TasksFacts
    DEF cpuVars, TypeOK, SlotsOK, CurrentCanRun, ContextIsOwn, PriorityRespected
  <2>5. HandledNobodyWaits' /\ WaitersWillWake' /\ InputBufferPinned'
    BY <2>1, <2>2 DEF hwVars, HandledNobodyWaits, WaitersWillWake, InputBufferPinned, TypeOK
  <2>6. (lastTaskChange <= mtime)'
    BY <2>1 DEF cpuVars
  <2> QED BY <2>3, <2>4, <2>5, <2>6
<1>4. CASE IrqInput
  <2>1. /\ SchedInv'
        /\ \A i \in Tasks :
             /\ "INPUT" \in pending => tasks'[i].state # "WaitingForInputDev"
             /\ \/ tasks'[i].state = tasks[i].state
                \/ /\ tasks[i].state \in {"WaitingForInputDev", "Sleeping"}
                   /\ tasks'[i].state = "Running"
    <3>1. CASE "INPUT" \in pending
      BY <1>4, <3>1, WakeUpStateLemma DEF IrqInput
    <3>2. CASE "INPUT" \notin pending
      BY <1>4, <3>2, SchedStutter DEF IrqInput, TypeOK
    <3> QED BY <3>1, <3>2
  <2>2. /\ kpc = "input" /\ kpc' = "dma"
        /\ UNCHANGED <<ntasks, pending, irqPending, dmaHw, inputHw, lastStatDump, births>>
        /\ xferTarget' = IF "INPUT" \in pending THEN NoTask ELSE xferTarget
    BY <1>4 DEF IrqInput, hwVars
  <2>3. TypeOK'
    BY <2>1, <2>2 DEF TypeOK, SchedInv
  <2>4. HandledNobodyWaits'
    BY <2>1, <2>2 DEF HandledNobodyWaits
  <2>5. WaitersWillWake'
    BY <2>1, <2>2 DEF WaitersWillWake
  <2>6. InputBufferPinned'
    <3>1. CASE "INPUT" \in pending
      BY <2>2, <3>1 DEF InputBufferPinned
    <3>2. CASE "INPUT" \notin pending
      BY <1>4, <2>2, <3>2 DEF IrqInput, InputBufferPinned, TypeOK
    <3> QED BY <3>1, <3>2
  <2> QED BY <2>1, <2>3, <2>4, <2>5, <2>6 DEF SchedInv
<1>5. CASE IrqDma
  <2>1. /\ SchedInv'
        /\ \A i \in Tasks :
             /\ "DMA" \in pending => tasks'[i].state # "WaitingForDma"
             /\ \/ tasks'[i].state = tasks[i].state
                \/ /\ tasks[i].state \in {"WaitingForDma", "Sleeping"}
                   /\ tasks'[i].state = "Running"
    <3>1. CASE "DMA" \in pending
      BY <1>5, <3>1, WakeUpStateLemma DEF IrqDma
    <3>2. CASE "DMA" \notin pending
      BY <1>5, <3>2, SchedStutter DEF IrqDma, TypeOK
    <3> QED BY <3>1, <3>2
  <2>2. /\ kpc = "dma" /\ kpc' = "ack"
        /\ UNCHANGED <<ntasks, pending, irqPending, dmaHw, inputHw, xferTarget, lastStatDump, births>>
    BY <1>5 DEF IrqDma, hwVars
  <2>3. TypeOK'
    BY <2>1, <2>2 DEF TypeOK, SchedInv
  <2>4. HandledNobodyWaits' /\ WaitersWillWake' /\ InputBufferPinned'
    BY <2>1, <2>2 DEF HandledNobodyWaits, WaitersWillWake, InputBufferPinned, TypeOK
  <2> QED BY <2>1, <2>3, <2>4 DEF SchedInv
<1>6. CASE IrqAck
  <2>1. SchedInv'
    BY <1>6, SchedStutter DEF IrqAck, TypeOK
  <2>2. TypeOK'
    BY <1>6, <2>1 DEF IrqAck, TypeOK, SchedInv
  <2>3. HandledNobodyWaits' /\ WaitersWillWake' /\ InputBufferPinned'
    BY <1>6 DEF IrqAck, HandledNobodyWaits, WaitersWillWake, InputBufferPinned
  <2> QED BY <2>1, <2>2, <2>3 DEF SchedInv
<1> QED BY <1>1, <1>2, <1>3, <1>4, <1>5, <1>6 DEF Handler

LEMMA HardwareStep ==
  ASSUME IInv, Hardware
  PROVE  IInv'
<1> USE DEF IInv
<1>1. /\ UNCHANGED <<tasks, ntasks, cpuVars, kpc, pending, xferTarget, lastStatDump, births, late>>
      /\ mtime' \in Nat /\ mtime' >= mtime
  BY DEF Hardware, MtimeTick, VsyncHw, DmaDoneHw, InputDoneHw, Trigger, irqVars, TypeOK
<1>2. SchedInv'
  BY <1>1, SchedStutter
<1>3. /\ irqPending' \subseteq Irqs /\ irqPending \subseteq irqPending'
      /\ dmaHw' \in Tasks \cup {NoTask} /\ inputHw' \in BOOLEAN
      /\ dmaHw # NoTask => dmaHw' # NoTask \/ "DMA" \in irqPending'
      /\ inputHw => inputHw' \/ "INPUT" \in irqPending'
  BY DEF Hardware, MtimeTick, VsyncHw, DmaDoneHw, InputDoneHw, Trigger, hwVars, TypeOK, Irqs
<1>4. TypeOK'
  BY <1>1, <1>2, <1>3 DEF TypeOK, SchedInv
<1>5. HandledNobodyWaits' /\ WaitersWillWake' /\ InputBufferPinned'
  BY <1>1, <1>3 DEF HandledNobodyWaits, WaitersWillWake, InputBufferPinned
<1> QED BY <1>2, <1>4, <1>5 DEF SchedInv

LEMMA TimerStep ==
  ASSUME IInv, TimerIrq
  PROVE  IInv'
<1>1. /\ mtime \in Nat /\ dmaHw \in Tasks \cup {NoTask} /\ inputHw \in BOOLEAN
      /\ tasks[cur].state = "Running"
  BY DEF IInv, TypeOK, CurrentCanRun
<1> QED BY <1>1, TasksSchedulable, SwitchLemma DEF TimerIrq, hwVars

LEMMA ShutdownStep ==
  ASSUME IInv, SysShutdown
  PROVE  IInv'
<1> USE DEF IInv
<1>1. SchedInv'
  BY SchedStutter DEF SysShutdown, TypeOK
<1>2. TypeOK'
  BY <1>1 DEF SysShutdown, TypeOK, SchedInv, hwVars
<1>3. HandledNobodyWaits' /\ WaitersWillWake' /\ InputBufferPinned'
  BY DEF SysShutdown, UserCall, hwVars, HandledNobodyWaits, WaitersWillWake, InputBufferPinned
<1> QED BY <1>1, <1>2, <1>3 DEF SchedInv

LEMMA StutterStep ==
  ASSUME IInv, UNCHANGED vars
  PROVE  IInv'
<1> USE DEF IInv
<1>1. SchedInv'
  BY SchedStutter DEF vars, TypeOK
<1>2. TypeOK'
  BY DEF vars, TypeOK, cpuVars, irqVars, hwVars
<1>3. HandledNobodyWaits' /\ WaitersWillWake' /\ InputBufferPinned'
  BY DEF vars, irqVars, hwVars, HandledNobodyWaits, WaitersWillWake, InputBufferPinned
<1> QED BY <1>1, <1>2, <1>3 DEF SchedInv

LEMMA InitIInv == Init => IInv
<1> SUFFICES ASSUME Init PROVE IInv
  OBVIOUS
<1>1. /\ 0 \in Lives /\ 1 \in Lives /\ 0 \in AllPrios /\ MIN_PRIO \in AllPrios
      /\ 0 > MIN_PRIO /\ MIN_PRIO \in Int
  BY NamesAssumption, PriosAssumption DEF Lives, AllPrios
<1> DEFINE dead == [NewTask(MIN_PRIO, 0) EXCEPT !.state = "Dead"]
<1>2. dead \in Task /\ dead.state = "Dead" /\ dead.prio = MIN_PRIO
  <2>1. NewTask(MIN_PRIO, 0) \in Task /\ NewTask(MIN_PRIO, 0).prio = MIN_PRIO
    BY <1>1, NewTaskLemma
  <2> QED BY <2>1, FieldFacts DEF Task
<1>3. /\ NewTask(MIN_PRIO, 0) \in Task /\ NewTask(0, 1) \in Task
      /\ NewTask(MIN_PRIO, 0).state = "Running" /\ NewTask(MIN_PRIO, 0).prio = MIN_PRIO
      /\ NewTask(MIN_PRIO, 0).saved = 0 /\ NewTask(MIN_PRIO, 0).life = 0
      /\ NewTask(0, 1).state = "Running" /\ NewTask(0, 1).prio = 0
      /\ NewTask(0, 1).saved = 1 /\ NewTask(0, 1).life = 1
  BY <1>1, NewTaskLemma
<1> HIDE DEF dead
<1>4. /\ tasks = [i \in Tasks |-> CASE i = IdleTask -> NewTask(MIN_PRIO, 0)
                                    [] i = MainTask -> NewTask(0, 1)
                                    [] OTHER -> dead]
  BY DEF Init, dead
<1>5. /\ tasks \in [Tasks -> Task]
      /\ tasks[IdleTask] = NewTask(MIN_PRIO, 0) /\ tasks[MainTask] = NewTask(0, 1)
      /\ \A i \in Tasks \ {IdleTask, MainTask} : tasks[i] = dead
  BY <1>2, <1>3, <1>4, TasksFacts
<1>6. TypeOK
  <2>1. /\ ntasks = 2 /\ cur = MainTask /\ live = 1 /\ mpp = "User"
        /\ lastTaskChange = 0 /\ lastStatDump = 0 /\ mtime = 0 /\ mtimecmp = HZ
        /\ kpc = "user" /\ pending = {} /\ xferTarget = NoTask
        /\ irqPending = {} /\ dmaHw = NoTask /\ inputHw = FALSE /\ births = 1
        /\ late = [i \in Tasks |-> "no"]
    BY DEF Init
  <2>2. ntasks \in 2 .. MaxTasks
    BY <2>1, TasksAssumption
  <2>3. cur \in Tasks /\ late \in [Tasks -> {"no", "woken", "spawned", "pushed"}]
    BY <2>1, TasksFacts
  <2>4. mtime \in Nat /\ mtimecmp \in Nat /\ lastTaskChange \in Nat /\ lastStatDump \in Nat
    BY <2>1, TimesAssumption
  <2> QED BY <1>1, <1>5, <2>1, <2>2, <2>3, <2>4 DEF TypeOK
<1>7. SlotsOK
  BY <1>2, <1>3, <1>5, TasksFacts DEF Init, SlotsOK, IdleTask, MainTask
<1>8. CurrentCanRun /\ ContextIsOwn
  BY <1>2, <1>3, <1>5, TasksFacts DEF Init, CurrentCanRun, ContextIsOwn
<1>9. PriorityRespected
  BY <1>1, <1>2, <1>3, <1>5, TasksFacts DEF Init, PriorityRespected
<1>10. HandledNobodyWaits /\ InputBufferPinned
  BY DEF Init, HandledNobodyWaits, InputBufferPinned
<1>11. WaitersWillWake
  BY <1>2, <1>3, <1>5 DEF WaitersWillWake
<1>12. lastTaskChange <= mtime
  BY DEF Init
<1> QED BY <1>6, <1>7, <1>8, <1>9, <1>10, <1>11, <1>12 DEF IInv

LEMMA NextIInv == IInv /\ [Next]_vars => IInv'
<1> SUFFICES ASSUME IInv, [Next]_vars PROVE IInv'
  OBVIOUS
<1>1. ASSUME NEW t \in Ticks, SysSleep(t) PROVE IInv'
  BY <1>1, SleepStep, FieldFacts DEF SysSleep, UserCall
<1>2. ASSUME NEW a \in Addrs, NEW t \in Ticks, SysFutexWait(a, t) PROVE IInv'
  BY <1>2, SleepStep DEF SysFutexWait, UserCall, FutexIds
<1>3. CASE Syscall
  BY <1>1, <1>2, <1>3, FutexWakeStep, BlockStep, SpawnStep, ExitStep, ShutdownStep DEF Syscall
<1>4. CASE TimerIrq
  BY <1>4, TimerStep
<1>5. CASE Handler
  BY <1>5, HandlerStep
<1>6. CASE Hardware
  BY <1>6, HardwareStep
<1>7. CASE Off \/ UNCHANGED vars
  BY <1>7, StutterStep DEF Off
<1> QED BY <1>3, <1>4, <1>5, <1>6, <1>7 DEF Next

LEMMA AlwaysIInv == Spec => []IInv
<1> QED BY InitIInv, NextIInv, PTL DEF Spec

-----------------------------------------------------------------------------
(* The timer schedule() arms, and the sleepers it wakes *)

\* schedule() wakes a sleeper only when its deadline has passed, gives the
\* processor to a task that no runnable one outranks, and arms the timer for the
\* slot of every rival and the deadline of every sleeper above the new task.
LEMMA ScheduleTimingLemma ==
  ASSUME TypeOK, NEW ts, Schedulable(ts), lastTaskChange <= mtime,
         NEW start \in Nat, start >= mtime, Schedule(ts, start)
  PROVE  /\ mtime' >= mtime
         /\ SlotArmed' /\ NoOversleep'
         /\ \A i \in Tasks :
              /\ tasks'[i].prio \in Int
              /\ tasks'[i].state = "Running" => tasks'[i].prio <= tasks'[cur'].prio
              /\ (ts[i].state = "Sleeping" /\ tasks'[i].state # "Sleeping")
                    => mtime' >= ts[i].until
<1> DEFINE s0 == [ts EXCEPT ![cur].saved = live]
<1>1. PICK wake \in start .. mtime + ReadSkew :
        \E nxt \in {i \in Tasks : IsNext(i, WakeUpTasks(s0, wake))},
           now \in wake .. mtime + ReadSkew :
          LET woken == WakeUpTasks(s0, wake)
              deadlines == Deadlines(nxt, woken, now)
          IN  /\ tasks' = Charge(nxt, woken, now)
              /\ mtime' = now
              /\ mtimecmp' \in {d \in deadlines : \A e \in deadlines : d <= e}
              /\ cur' = nxt
  BY DEF Schedule
<1> DEFINE w == WakeUpTasks(s0, wake)
<1> HIDE DEF w
<1>2. PICK nxt \in Tasks, now \in wake .. mtime + ReadSkew :
          /\ IsNext(nxt, w)
          /\ tasks' = Charge(nxt, w, now)
          /\ mtime' = now /\ cur' = nxt
          /\ \A e \in Deadlines(nxt, w, now) : mtimecmp' <= e
  BY <1>1 DEF w
<1>3. /\ cur \in Tasks /\ live \in Lives /\ mtime \in Nat /\ lastTaskChange \in Nat
      /\ wake \in Nat /\ now \in Nat /\ mtime <= wake /\ wake <= now
  BY <1>1, <1>2, TimesAssumption DEF TypeOK
<1>4. /\ s0 \in [Tasks -> Task]
      /\ \A i \in Tasks : /\ s0[i].state = ts[i].state /\ s0[i].prio = ts[i].prio
                          /\ s0[i].until = ts[i].until
  BY <1>3 DEF Schedulable, Task
<1> HIDE DEF s0
<1>5. /\ w \in [Tasks -> Task]
      /\ \A i \in Tasks :
           /\ w[i].prio = ts[i].prio
           /\ w[i].state = ts[i].state \/ (ts[i].state = "Sleeping" /\ w[i].state = "Running")
  BY <1>4, WakeUpTasksLemma DEF w
<1>6. ASSUME NEW i \in Tasks, ts[i].state = "Sleeping", w[i].state # "Sleeping"
      PROVE  wake >= ts[i].until
  BY <1>4, <1>6 DEF w, WakeUpTasks
<1>7. /\ tasks' \in [Tasks -> Task]
      /\ \A i \in Tasks : /\ tasks'[i].state = w[i].state /\ tasks'[i].prio = w[i].prio
                          /\ tasks'[i].until = w[i].until
  <2>1. now - lastTaskChange \in Nat /\ lastTaskChange <= now
    BY <1>3
  <2>2. \A i \in Tasks : tasks'[i].until = w[i].until
    BY <1>2, <1>3, <1>5 DEF Charge, Task
  <2> QED BY <1>2, <1>3, <1>5, <2>1, <2>2, ChargeLemma
<1>8. /\ w[nxt].state = "Running"
      /\ \A i \in Tasks : w[i].state = "Running" => w[i].prio <= w[nxt].prio
  BY <1>5, <1>2, IsNextLemma, TasksFacts DEF Schedulable
<1>9. \A i \in Tasks : w[i].prio \in Int
  BY <1>5, FieldFacts DEF Task
<1>10. SlotArmed'
  <2> SUFFICES ASSUME NEW i \in Tasks \ {nxt}, w[i].state = "Running", w[i].prio = w[nxt].prio
               PROVE  mtimecmp' <= now + Slot
    BY <1>2, <1>7 DEF SlotArmed
  <2>1. now + Slot \in Deadlines(nxt, w, now)
    BY <1>9 DEF Deadlines
  <2> QED BY <1>2, <2>1
<1>11. NoOversleep'
  <2> SUFFICES ASSUME NEW i \in Tasks, w[i].state = "Sleeping", w[i].prio > w[nxt].prio
               PROVE  mtimecmp' <= w[i].until
    BY <1>2, <1>7 DEF NoOversleep
  <2>1. i # nxt
    BY <1>8
  <2>2. w[i].until \in Deadlines(nxt, w, now)
    BY <1>9, <2>1 DEF Deadlines
  <2> QED BY <1>2, <2>2
<1>12. \A i \in Tasks : ts[i].until \in Int
  BY TimesAssumption DEF Schedulable, Task, Instants
<1> QED BY <1>2, <1>3, <1>6, <1>7, <1>8, <1>9, <1>10, <1>11, <1>12

-----------------------------------------------------------------------------
(* The four things a step can do to the scheduler *)

\* The current task yields, blocks or dies: schedule() over its new record.
GivesUp(ts, start) ==
  /\ start \in Nat /\ start >= mtime /\ Schedulable(ts) /\ Schedule(ts, start)
  /\ \A i \in Tasks \ {cur} : ts[i] = tasks[i]
  /\ ts[cur].state # "Running" => cur # IdleTask
  /\ ts[cur].prio = IF ts[cur].state = "Dead" THEN MIN_PRIO ELSE tasks[cur].prio
  /\ ts[cur].runTicks = tasks[cur].runTicks /\ lastStatDump' = lastStatDump

\* Blocked tasks are woken: the waiters of one device, or a futex's.
Wakes(S) ==
  /\ S \subseteq Tasks /\ MakeRunnable(S)
  /\ \A i \in S : tasks[i].state \notin {"Dead", "Running"}
  /\ \/ \A i \in S : tasks[i].state # "Sleeping"
     \/ \E addr \in Addrs, n \in Nat : S \subseteq FutexWaiters(addr) /\ IsWakeSet(S, addr, n)
  /\ lastStatDump' = lastStatDump

Spawns(i, p) ==
  /\ births + 1 \in Lives /\ cur # IdleTask
  /\ SpawnReuse(i, p) \/ SpawnPush(i, p)
  /\ lastStatDump' = lastStatDump

\* Nothing the scheduler decides by changes, but the time; the statistics may be
\* dumped.
Quiet ==
  /\ UNCHANGED <<cur, mtimecmp, late, lastTaskChange>>
  /\ mtime' \in Nat /\ mtime' >= mtime
  /\ tasks' \in [Tasks -> Task]
  /\ \A i \in Tasks : /\ tasks'[i].state = tasks[i].state /\ tasks'[i].prio = tasks[i].prio
                      /\ tasks'[i].until = tasks[i].until
  /\ \/ /\ \A i \in Tasks : tasks'[i].runTicks = tasks[i].runTicks
        /\ lastStatDump' = lastStatDump
     \/ /\ \A i \in Tasks : tasks'[i].runTicks = 0
        /\ lastStatDump' = lastTaskChange

\* Every step of the kernel and of the hardware is one of the four.
LEMMA StepShapes ==
  ASSUME IInv, [Next]_vars
  PROVE  \/ \E ts, start : GivesUp(ts, start)
         \/ \E S : Wakes(S)
         \/ \E i \in Tasks, p \in Prios : Spawns(i, p)
         \/ Quiet
<1>1. /\ mtime \in Nat /\ tasks \in [Tasks -> Task] /\ cur \in Tasks
      /\ tasks[cur].state = "Running" /\ births \in Lives
  BY DEF IInv, TypeOK, CurrentCanRun
<1>2. Schedulable(tasks)
  BY TasksSchedulable
<1>3. ASSUME Schedule(tasks, mtime), lastStatDump' = lastStatDump
      PROVE  GivesUp(tasks, mtime)
  BY <1>1, <1>2, <1>3 DEF GivesUp
<1>4. ASSUME NEW addr \in FutexIds, NEW ticks \in Ticks, cur # IdleTask,
             SleepCurrentTask(addr, ticks), lastStatDump' = lastStatDump
      PROVE  \E ts, start : GivesUp(ts, start)
  <2>1. CASE ticks = 0
    BY <1>3, <1>4, <2>1 DEF SleepCurrentTask
  <2>2. CASE ticks # 0
    <3>1. PICK now \in mtime .. mtime + ReadSkew :
            Schedule([tasks EXCEPT ![cur] = Asleep(@, addr, SatAdd(now, ticks))], now)
      BY <1>4, <2>2 DEF SleepCurrentTask
    <3> DEFINE t == Asleep(tasks[cur], addr, SatAdd(now, ticks))
               ts == [tasks EXCEPT ![cur] = t]
    <3>2. now \in Nat /\ now >= mtime /\ SatAdd(now, ticks) \in Instants
      BY <1>1, TimesAssumption DEF SatAdd, Instants
    <3>3. /\ t \in Task /\ t.state = "Sleeping"
          /\ t.prio = tasks[cur].prio /\ t.life = tasks[cur].life
          /\ t.runTicks = tasks[cur].runTicks
      BY <1>1, <3>2, FieldFacts DEF Task, Asleep
    <3>4. /\ ts \in [Tasks -> Task]
          /\ \A i \in Tasks \ {cur} : ts[i] = tasks[i]
          /\ ts[cur] = t
      BY <1>1, <3>3
    <3> HIDE DEF ts
    <3>5. Schedulable(ts)
      BY <1>1, <1>2, <1>4, <3>4, <3>3, TasksFacts DEF Schedulable
    <3>6. Schedule(ts, now)
      BY <3>1 DEF ts
    <3> HIDE DEF t
    <3>7. GivesUp(ts, now)
      BY <1>1, <1>4, <3>2, <3>4, <3>3, <3>5, <3>6 DEF GivesUp
    <3> QED BY <3>7
  <2> QED BY <2>1, <2>2
<1>5. ASSUME NEW s \in States \ {"Dead"}, CurrentTaskSetState(s), cur # IdleTask,
             lastStatDump' = lastStatDump
      PROVE  \E ts, start : GivesUp(ts, start)
  <2> DEFINE ts == [tasks EXCEPT ![cur].state = s]
  <2>1. /\ Schedulable(ts) /\ ts[cur].state = s
        /\ \A i \in Tasks \ {cur} : ts[i] = tasks[i]
    BY <1>5, CurrentTaskSetStateLemma
  <2>2. Schedule(ts, mtime) /\ ts[cur].prio = tasks[cur].prio /\ ts[cur].runTicks = tasks[cur].runTicks
    BY <1>1, <1>5 DEF CurrentTaskSetState, Task
  <2> HIDE DEF ts
  <2>3. GivesUp(ts, mtime)
    BY <1>1, <1>5, <2>1, <2>2 DEF GivesUp
  <2> QED BY <2>3
<1>6. ASSUME NEW s \in {"WaitingForVSync", "WaitingForInputDev", "WaitingForDma"}, WakeUpState(s),
             lastStatDump' = lastStatDump
      PROVE  \E S : Wakes(S)
  <2> DEFINE S == {i \in Tasks : tasks[i].state = s}
  <2>1. Wakes(S)
    BY <1>6 DEF WakeUpState, Wakes
  <2> QED BY <2>1
<1>7. ASSUME UNCHANGED <<tasks, cur, mtimecmp, late, lastTaskChange, lastStatDump>>,
              mtime' \in Nat, mtime' >= mtime
      PROVE  Quiet
  BY <1>1, <1>7 DEF Quiet
<1>8. CASE Syscall
  <2>1. ASSUME NEW t \in Ticks, SysSleep(t) PROVE \E ts, start : GivesUp(ts, start)
    BY <2>1, <1>4, FieldFacts DEF SysSleep, UserCall
  <2>2. ASSUME NEW a \in Addrs, NEW t \in Ticks, SysFutexWait(a, t)
        PROVE \E ts, start : GivesUp(ts, start)
    BY <2>2, <1>4 DEF SysFutexWait, UserCall, FutexIds
  <2>3. ASSUME NEW a \in Addrs, NEW n \in 1 .. MaxTasks, SysFutexWake(a, n)
        PROVE \E S : Wakes(S)
    <3>1. PICK W \in SUBSET FutexWaiters(a) : IsWakeSet(W, a, n) /\ MakeRunnable(W)
      BY <2>3 DEF SysFutexWake
    <3>2. W \subseteq Tasks /\ \A i \in W : tasks[i].state = "Sleeping"
      BY DEF FutexWaiters
    <3>3. n \in Nat
      BY TasksAssumption
    <3>4. Wakes(W)
      BY <2>3, <3>1, <3>2, <3>3 DEF Wakes, SysFutexWake
    <3> QED BY <3>4
  <2>4. CASE SysWaitForVsync \/ SysInputDev \/ SysDoDma
    <3>1. {"WaitingForVSync", "WaitingForInputDev", "WaitingForDma"} \subseteq States \ {"Dead"}
      BY FieldFacts
    <3> QED BY <2>4, <3>1, <1>5 DEF SysWaitForVsync, SysInputDev, SysDoDma, UserCall
  <2>5. ASSUME NEW p \in Prios, SysSpawnTask(p)
        PROVE  \E i \in Tasks, q \in Prios : Spawns(i, q)
    BY <1>1, <2>5, NamesAssumption DEF SysSpawnTask, UserCall, Spawns, Lives
  <2>6. CASE SysExit
    <3> DEFINE t == [tasks[cur] EXCEPT !.state = "Dead", !.prio = MIN_PRIO]
               ts == [tasks EXCEPT ![cur] = t]
    <3>1. t \in Task /\ t.state = "Dead" /\ t.life = tasks[cur].life /\ t.prio = MIN_PRIO
          /\ t.runTicks = tasks[cur].runTicks
      BY <1>1, FieldFacts DEF Task
    <3> HIDE DEF t
    <3>2. /\ ts \in [Tasks -> Task] /\ ts[cur] = t
          /\ \A i \in Tasks \ {cur} : ts[i] = tasks[i]
      BY <1>1, <3>1
    <3>3. Schedule(ts, mtime) /\ cur # IdleTask /\ lastStatDump' = lastStatDump
      BY <2>6 DEF SysExit, UserCall, ts, t
    <3> HIDE DEF ts
    <3>4. Schedulable(ts)
      BY <1>1, <1>2, <3>1, <3>2, <3>3, TasksFacts DEF Schedulable
    <3>5. GivesUp(ts, mtime)
      BY <1>1, <3>1, <3>2, <3>3, <3>4 DEF GivesUp
    <3> QED BY <3>5
  <2>7. CASE SysShutdown
    BY <1>1, <1>7, <2>7 DEF SysShutdown, cpuVars
  <2> QED BY <1>8, <2>1, <2>2, <2>3, <2>4, <2>5, <2>6, <2>7 DEF Syscall
<1>9. CASE TimerIrq
  BY <1>3, <1>9 DEF TimerIrq
<1>10. CASE Handler
  <2>1. CASE IrqStats
    <3>1. /\ UNCHANGED <<cur, mtimecmp, late, mtime, lastTaskChange>>
          /\ \/ tasks' = tasks /\ lastStatDump' = lastStatDump
             \/ /\ tasks' = [i \in Tasks |-> [tasks[i] EXCEPT !.runTicks = 0]]
                /\ lastStatDump' = lastTaskChange
      BY <2>1 DEF IrqStats, cpuVars
    <3>2. /\ tasks' \in [Tasks -> Task]
          /\ \A i \in Tasks : /\ tasks'[i].state = tasks[i].state
                              /\ tasks'[i].prio = tasks[i].prio
                              /\ tasks'[i].until = tasks[i].until
          /\ \/ /\ \A i \in Tasks : tasks'[i].runTicks = tasks[i].runTicks
                /\ lastStatDump' = lastStatDump
             \/ /\ \A i \in Tasks : tasks'[i].runTicks = 0
                /\ lastStatDump' = lastTaskChange
      BY <1>1, <3>1 DEF Task
    <3> QED BY <1>1, <3>1, <3>2 DEF Quiet
  <2>2. CASE IrqEnter \/ IrqAck
    BY <1>1, <1>7, <2>2 DEF IrqEnter, IrqAck, cpuVars
  <2>3. CASE IrqVsync \/ IrqInput \/ IrqDma
    BY <1>1, <1>6, <1>7, <2>3 DEF IrqVsync, IrqInput, IrqDma, cpuVars
  <2> QED BY <1>10, <2>1, <2>2, <2>3 DEF Handler
<1>11. CASE Hardware
  BY <1>1, <1>7, <1>11 DEF Hardware, MtimeTick, VsyncHw, DmaDoneHw, InputDoneHw, Trigger, cpuVars
<1>12. CASE Off \/ UNCHANGED vars
  BY <1>1, <1>7, <1>12 DEF Off, vars, cpuVars
<1> QED BY <1>8, <1>9, <1>10, <1>11, <1>12 DEF Next

-----------------------------------------------------------------------------
(* The vectors the callers of schedule() pass, and the timer it arms *)

\* The vector in which a new task has been put into slot i.
Filled(i, p) == [tasks EXCEPT ![i] = NewTask(p, births + 1)]

\* A task has been put into slot i of the vector and the caller runs on.
KeepsRunning(ts, i, p) ==
  /\ tasks' = ts
  /\ cur' = cur /\ mtimecmp' = mtimecmp /\ mtime' = mtime /\ lastTaskChange' = lastTaskChange
  /\ \/ late' = [late EXCEPT ![i] = "spawned"]
     \/ late' = [late EXCEPT ![i] = "pushed"] /\ ~(tasks[cur].prio < p)

\* The vector in which the tasks of S have been made runnable.
LEMMA WokenVector ==
  ASSUME IInv, NEW S \in SUBSET Tasks, \A i \in S : tasks[i].state \notin {"Dead", "Running"},
         NEW ts, ts = [i \in Tasks |-> IF i \in S THEN Awake(tasks[i]) ELSE tasks[i]]
  PROVE  /\ Schedulable(ts)
         /\ \A i \in S : ts[i].state = "Running" /\ ts[i].prio = tasks[i].prio
         /\ \A i \in Tasks \ S : ts[i] = tasks[i]
         /\ \A i \in Tasks : ts[i].runTicks = tasks[i].runTicks
<1>1. /\ tasks \in [Tasks -> Task] /\ cur \in Tasks
      /\ tasks[cur].state = "Running" /\ tasks[IdleTask].state = "Running"
  BY DEF IInv, TypeOK, CurrentCanRun
<1>2. ASSUME NEW t \in Task
      PROVE  /\ Awake(t) \in Task
             /\ Awake(t).prio = t.prio /\ Awake(t).life = t.life
             /\ Awake(t).saved = t.saved /\ Awake(t).state = "Running"
             /\ Awake(t).runTicks = t.runTicks
  BY FieldFacts DEF Awake, Task
<1>3. /\ ts \in [Tasks -> Task]
      /\ \A i \in Tasks : /\ ts[i].prio = tasks[i].prio /\ ts[i].life = tasks[i].life
                          /\ ts[i].saved = tasks[i].saved /\ ts[i].runTicks = tasks[i].runTicks
                          /\ ts[i].state = IF i \in S THEN "Running" ELSE tasks[i].state
  BY <1>1, <1>2
<1>4. \A i \in Tasks \ S : ts[i] = tasks[i]
  OBVIOUS
<1>5. Schedulable(tasks)
  BY TasksSchedulable
<1>6. \A i \in Tasks : ts[i].state # "Dead" => tasks[i].state # "Dead"
  BY <1>3
<1>7. Schedulable(ts)
  BY <1>1, <1>3, <1>5, <1>6, TasksFacts DEF Schedulable
<1> QED BY <1>3, <1>4, <1>7

\* What spawn_task does to the vector and to the caller.
LEMMA SpawnVector ==
  ASSUME IInv, NEW i \in Tasks, NEW p \in Prios, Spawns(i, p),
         NEW ts, ts = Filled(i, p)
  PROVE  /\ Schedulable(ts)
         /\ i # cur /\ i # IdleTask /\ tasks[i].state = "Dead"
         /\ ts[i].state = "Running" /\ ts[i].prio = p /\ ts[i].runTicks = 0
         /\ \A j \in Tasks \ {i} : ts[j] = tasks[j]
         /\ \/ Schedule(ts, mtime)
            \/ KeepsRunning(ts, i, p)
<1> DEFINE new == NewTask(p, births + 1)
<1>0. ts = [tasks EXCEPT ![i] = new]
  BY DEF Filled
<1>1. /\ tasks \in [Tasks -> Task] /\ cur \in Tasks
      /\ tasks[cur].state = "Running" /\ tasks[IdleTask].state = "Running"
  BY DEF IInv, TypeOK, CurrentCanRun
<1>2. /\ new \in Task /\ new.state = "Running" /\ new.prio = p
      /\ new.life = births + 1 /\ new.saved = births + 1 /\ new.runTicks = 0
  BY NewTaskLemma, FieldFacts DEF Spawns, NewTask
<1> HIDE DEF new
<1>3. tasks[i].state = "Dead" /\ i # IdleTask /\ i # cur
  <2>1. CASE SpawnReuse(i, p)
    BY <1>1, <2>1 DEF SpawnReuse, FirstDead
  <2>2. CASE SpawnPush(i, p)
    BY <1>1, <2>2 DEF SpawnPush, IInv, SlotsOK, TypeOK
  <2> QED BY <2>1, <2>2 DEF Spawns
<1>4. /\ ts \in [Tasks -> Task] /\ ts[i] = new
      /\ \A j \in Tasks \ {i} : ts[j] = tasks[j]
  BY <1>0, <1>1, <1>2
<1>5. \/ Schedule(ts, mtime)
      \/ KeepsRunning(ts, i, p)
  BY <1>0 DEF Spawns, SpawnReuse, SpawnPush, cpuVars, KeepsRunning, new
<1>6. Schedulable(ts)
  BY <1>1, <1>2, <1>3, <1>4, TasksSchedulable, TasksFacts DEF Schedulable
<1> QED BY <1>2, <1>3, <1>4, <1>5, <1>6

\* The timer stays armed for the rivals and the sleepers schedule() saw.
TimerInv == IInv /\ SlotArmed /\ NoOversleep

LEMMA InitTimerInv == Init => TimerInv
<1> SUFFICES ASSUME Init PROVE SlotArmed /\ NoOversleep
  BY InitIInv DEF TimerInv
<1>1. \A i \in Tasks : tasks[i].state = "Sleeping" => FALSE
  BY DEF Init, NewTask
<1>2. ASSUME NEW i \in Tasks \ {cur}, tasks[i].state = "Running", tasks[i].prio = tasks[cur].prio
      PROVE  FALSE
  <2>1. IInv
    BY InitIInv
  <2>2. /\ tasks[MainTask] = NewTask(0, 1)
        /\ \A j \in Tasks \ {MainTask} : tasks[j].prio = MIN_PRIO
    BY TasksFacts DEF Init, NewTask
  <2>3. cur = MainTask
    BY DEF Init
  <2> QED BY <1>2, <2>2, <2>3, PriosAssumption, TasksFacts DEF NewTask
<1> QED BY <1>1, <1>2 DEF SlotArmed, NoOversleep

LEMMA NextTimerInv == TimerInv /\ [Next]_vars => TimerInv'
<1> SUFFICES ASSUME TimerInv, [Next]_vars PROVE SlotArmed' /\ NoOversleep'
  BY NextIInv DEF TimerInv
<1>1. /\ IInv /\ TypeOK /\ SlotArmed /\ NoOversleep /\ lastTaskChange <= mtime
      /\ mtime \in Nat /\ tasks \in [Tasks -> Task] /\ cur \in Tasks /\ mtimecmp \in Nat
      /\ late \in [Tasks -> {"no", "woken", "spawned", "pushed"}]
      /\ tasks[cur].state = "Running"
  BY DEF TimerInv, IInv, TypeOK, CurrentCanRun
<1>2. ASSUME NEW ts, NEW start, GivesUp(ts, start) PROVE SlotArmed' /\ NoOversleep'
  BY <1>1, <1>2, ScheduleTimingLemma DEF GivesUp
<1>3. ASSUME NEW S, Wakes(S) PROVE SlotArmed' /\ NoOversleep'
  <2> DEFINE ts == [i \in Tasks |-> IF i \in S THEN Awake(tasks[i]) ELSE tasks[i]]
  <2>1. /\ Schedulable(ts)
        /\ \A i \in S : ts[i].state = "Running" /\ ts[i].prio = tasks[i].prio
        /\ \A i \in Tasks \ S : ts[i] = tasks[i]
    BY <1>1, <1>3, WokenVector DEF Wakes
  <2>2. CASE Schedule(ts, mtime)
    <3> HIDE DEF ts
    <3> QED BY <1>1, <2>1, <2>2, ScheduleTimingLemma
  <2>3. CASE /\ tasks' = ts
             /\ late' = [i \in Tasks |-> IF i \in S THEN "woken" ELSE late[i]]
             /\ cur' = cur /\ mtimecmp' = mtimecmp /\ mtime' = mtime
    <3> HIDE DEF ts
    <3>1. cur \notin S
      BY <1>1, <1>3 DEF Wakes
    <3> QED BY <1>1, <2>1, <2>3, <3>1 DEF SlotArmed, NoOversleep
  <2> QED BY <1>3, <2>2, <2>3 DEF Wakes, MakeRunnable, cpuVars
<1>4. ASSUME NEW i \in Tasks, NEW p \in Prios, Spawns(i, p) PROVE SlotArmed' /\ NoOversleep'
  <2>0. PICK ts : ts = Filled(i, p)
    OBVIOUS
  <2>1. /\ Schedulable(ts)
        /\ i # cur /\ ts[i].state = "Running"
        /\ \A j \in Tasks \ {i} : ts[j] = tasks[j]
        /\ \/ Schedule(ts, mtime)
           \/ KeepsRunning(ts, i, p)
    BY <1>1, <1>4, <2>0, SpawnVector
  <2>2. CASE Schedule(ts, mtime)
    BY <1>1, <2>1, <2>2, ScheduleTimingLemma
  <2>3. CASE KeepsRunning(ts, i, p)
    BY <1>1, <2>1, <2>3 DEF SlotArmed, NoOversleep, KeepsRunning
  <2> QED BY <2>1, <2>2, <2>3
<1>5. CASE Quiet
  <2>1. Slot \in Nat
    BY TimesAssumption
  <2>2. /\ cur' = cur /\ mtimecmp' = mtimecmp /\ late' = late
        /\ mtime' \in Nat /\ mtime' >= mtime
        /\ \A i \in Tasks : /\ tasks'[i].state = tasks[i].state
                            /\ tasks'[i].prio = tasks[i].prio
                            /\ tasks'[i].until = tasks[i].until
    BY <1>5 DEF Quiet
  <2>3. SlotArmed'
    <3> SUFFICES ASSUME NEW i \in Tasks \ {cur}, tasks[i].state = "Running",
                        tasks[i].prio = tasks[cur].prio, late[i] = "no"
                 PROVE  mtimecmp' <= mtime' + Slot
      BY <1>1, <2>2 DEF SlotArmed
    <3>1. mtimecmp <= mtime + Slot
      BY <1>1 DEF SlotArmed
    <3>2. PICK c \in Nat, t \in Nat, u \in Nat :
            c = mtimecmp /\ c = mtimecmp' /\ t = mtime /\ u = mtime' /\ u >= t
      BY <1>1, <2>2
    <3>3. c <= t + Slot
      BY <3>1, <3>2, Zenon
    <3>4. c <= u + Slot
      <4>1. u >= t
        BY <3>2
      <4> QED BY <2>1, <3>3, <4>1
    <3> QED BY <3>2, <3>4, Zenon
  <2>4. NoOversleep'
    BY <1>1, <2>2 DEF NoOversleep
  <2> QED BY <2>3, <2>4
<1> QED BY <1>1, <1>2, <1>3, <1>4, <1>5, StepShapes

LEMMA AlwaysTimerInv == Spec => []TimerInv
BY InitTimerInv, NextTimerInv, PTL DEF Spec

\* A step that wakes a sleeper early is a futex_wake, and wakes the highest waiters.
LEMMA EarlyWakesStep ==
  ASSUME IInv, [Next]_vars
  PROVE  LET asleep == {i \in Tasks : tasks[i].state = "Sleeping"}
             early == {i \in asleep : tasks'[i].state # "Sleeping" /\ mtime' < tasks[i].until}
             left == {i \in asleep : tasks'[i].state = "Sleeping"}
         IN  \A i \in early :
               /\ tasks[i].futex # NoFutex
               /\ \A j \in early : tasks[j].futex = tasks[i].futex
               /\ \A j \in left : tasks[j].futex = tasks[i].futex
                                     => tasks[j].prio <= tasks[i].prio
<1> DEFINE asleep == {i \in Tasks : tasks[i].state = "Sleeping"}
           early == {i \in asleep : tasks'[i].state # "Sleeping" /\ mtime' < tasks[i].until}
           left == {i \in asleep : tasks'[i].state = "Sleeping"}
<1>1. /\ TypeOK /\ lastTaskChange <= mtime
      /\ mtime \in Nat /\ tasks \in [Tasks -> Task] /\ cur \in Tasks
      /\ tasks[cur].state = "Running" /\ \A i \in Tasks : tasks[i].until \in Nat /\ tasks[i].prio \in Int
  BY TimesAssumption, FieldFacts DEF IInv, TypeOK, CurrentCanRun, Task, Instants
<1>2. ASSUME NEW ts, NEW start, GivesUp(ts, start) PROVE early = {}
  <2>1. \A i \in Tasks : (ts[i].state = "Sleeping" /\ tasks'[i].state # "Sleeping")
                            => mtime' >= ts[i].until
    BY <1>1, <1>2, ScheduleTimingLemma DEF GivesUp
  <2>2. mtime' \in Nat
    BY <1>1, <1>2, IInv, ScheduleLemma DEF GivesUp, IInv
  <2> QED BY <1>1, <1>2, <2>1, <2>2 DEF GivesUp
<1>3. ASSUME NEW S, Wakes(S) PROVE early \subseteq S /\ left \cap S = {}
  <2> DEFINE ts == [i \in Tasks |-> IF i \in S THEN Awake(tasks[i]) ELSE tasks[i]]
  <2>1. /\ Schedulable(ts)
        /\ \A i \in S : ts[i].state = "Running" /\ ts[i].prio = tasks[i].prio
        /\ \A i \in Tasks \ S : ts[i] = tasks[i]
    BY <1>1, <1>3, WokenVector DEF Wakes
  <2>2. CASE Schedule(ts, mtime)
    <3> HIDE DEF ts
    <3>1. \A i \in Tasks : (ts[i].state = "Sleeping" /\ tasks'[i].state # "Sleeping")
                            => mtime' >= ts[i].until
      BY <1>1, <2>1, <2>2, ScheduleTimingLemma
    <3>2. /\ mtime' \in Nat
          /\ \A i \in Tasks : \/ tasks'[i].state = ts[i].state
                              \/ ts[i].state = "Sleeping" /\ tasks'[i].state = "Running"
      BY <1>1, <2>1, <2>2, ScheduleLemma DEF IInv
    <3> QED BY <1>1, <1>3, <2>1, <3>1, <3>2 DEF Wakes
  <2>3. CASE tasks' = ts
    <3> HIDE DEF ts
    <3> QED BY <1>1, <1>3, <2>1, <2>3 DEF Wakes
  <2> QED BY <1>3, <2>2, <2>3 DEF Wakes, MakeRunnable
<1>4. ASSUME NEW i \in Tasks, NEW p \in Prios, Spawns(i, p) PROVE early = {}
  <2>0. PICK ts : ts = Filled(i, p)
    OBVIOUS
  <2>1. /\ Schedulable(ts)
        /\ i # cur /\ tasks[i].state = "Dead" /\ ts[i].state = "Running"
        /\ \A j \in Tasks \ {i} : ts[j] = tasks[j]
        /\ Schedule(ts, mtime) \/ KeepsRunning(ts, i, p)
    BY <1>1, <1>4, <2>0, SpawnVector
  <2>2. CASE Schedule(ts, mtime)
    <3>1. \A j \in Tasks : (ts[j].state = "Sleeping" /\ tasks'[j].state # "Sleeping")
                            => mtime' >= ts[j].until
      BY <1>1, <2>1, <2>2, ScheduleTimingLemma
    <3>2. mtime' \in Nat
      BY <1>1, <2>1, <2>2, ScheduleLemma DEF IInv
    <3> QED BY <1>1, <2>1, <3>1, <3>2
  <2>3. CASE KeepsRunning(ts, i, p)
    BY <1>1, <2>1, <2>3 DEF KeepsRunning
  <2> QED BY <2>1, <2>2, <2>3
<1>5. ASSUME Quiet PROVE early = {}
  BY <1>1, <1>5 DEF Quiet
<1>6. ASSUME NEW S, Wakes(S), NEW i \in early
      PROVE  /\ tasks[i].futex # NoFutex
             /\ \A j \in early : tasks[j].futex = tasks[i].futex
             /\ \A j \in left : tasks[j].futex = tasks[i].futex
                                   => tasks[j].prio <= tasks[i].prio
  <2>1. early \subseteq S /\ left \cap S = {} /\ i \in S
    BY <1>3, <1>6
  <2>2. PICK addr \in Addrs, n \in Nat : S \subseteq FutexWaiters(addr) /\ IsWakeSet(S, addr, n)
    BY <1>6, <2>1 DEF Wakes
  <2>3. \A j \in S : tasks[j].futex = addr
    BY <2>2 DEF FutexWaiters
  <2>4. ASSUME NEW j \in left, tasks[j].futex = addr
        PROVE  tasks[j].prio <= tasks[i].prio
    <3>1. j \in FutexWaiters(addr) \ S
      BY <2>1, <2>4 DEF FutexWaiters
    <3>2. tasks[j].prio < tasks[i].prio \/ tasks[j].prio = tasks[i].prio
      BY <2>1, <2>2, <3>1 DEF IsWakeSet
    <3> QED BY <1>1, <3>2
  <2> QED BY <2>1, <2>3, <2>4, NamesAssumption
<1> HIDE DEF asleep, early, left
<1>7. \A i \in early :
        /\ tasks[i].futex # NoFutex
        /\ \A j \in early : tasks[j].futex = tasks[i].futex
        /\ \A j \in left : tasks[j].futex = tasks[i].futex => tasks[j].prio <= tasks[i].prio
  BY <1>2, <1>4, <1>5, <1>6, StepShapes
<1> QED BY <1>7 DEF asleep, early, left

-----------------------------------------------------------------------------
(* What schedule() does, seen from the abstract dispatcher *)

\* A dead slot has the lowest priority: a task loses its own when it dies.
DeadHasNoPrio == \A i \in Tasks : tasks[i].state = "Dead" => tasks[i].prio = MIN_PRIO

RefineInv == IInv /\ DeadHasNoPrio

LEMMA InitRefineInv == Init => RefineInv
<1> SUFFICES ASSUME Init PROVE DeadHasNoPrio
  BY InitIInv DEF RefineInv
<1> QED BY TasksFacts DEF Init, NewTask, DeadHasNoPrio

\* What schedule() does to the vector it is given, in the abstract's terms.
LEMMA ScheduleAbstract ==
  ASSUME IInv, NEW ts, Schedulable(ts), NEW start \in Nat, start >= mtime, Schedule(ts, start)
  PROVE  /\ cur' \in Tasks /\ tasks' \in [Tasks -> Task]
         /\ tasks'[cur'].state = "Running"
         /\ \A i \in Tasks :
              /\ tasks'[i].prio = ts[i].prio
              /\ tasks'[i].state = "Running" => tasks'[i].prio <= tasks'[cur'].prio
              /\ late'[i] = "no"
              /\ \/ tasks'[i].state = ts[i].state
                 \/ ts[i].state = "Sleeping" /\ tasks'[i].state = "Running"
<1>1. TypeOK /\ ContextIsOwn /\ lastTaskChange <= mtime
  BY DEF IInv
<1>2. /\ cur' \in Tasks /\ tasks' \in [Tasks -> Task] /\ CurrentCanRun'
      /\ late' = [i \in Tasks |-> "no"]
      /\ \A i \in Tasks :
           /\ tasks'[i].prio = ts[i].prio
           /\ \/ tasks'[i].state = ts[i].state
              \/ ts[i].state = "Sleeping" /\ tasks'[i].state = "Running"
  BY <1>1, ScheduleLemma
<1>3. \A i \in Tasks : tasks'[i].state = "Running" => tasks'[i].prio <= tasks'[cur'].prio
  BY <1>1, ScheduleTimingLemma
<1> QED BY <1>2, <1>3 DEF CurrentCanRun

LEMMA NextRefineInv == RefineInv /\ [Next]_vars => RefineInv'
<1> SUFFICES ASSUME RefineInv, [Next]_vars PROVE DeadHasNoPrio'
  BY NextIInv DEF RefineInv
<1>1. /\ IInv /\ DeadHasNoPrio /\ mtime \in Nat /\ tasks \in [Tasks -> Task] /\ cur \in Tasks
      /\ tasks[cur].state = "Running"
  BY DEF RefineInv, IInv, TypeOK, CurrentCanRun
<1>2. ASSUME NEW ts, NEW start, GivesUp(ts, start) PROVE DeadHasNoPrio'
  <2>1. \A i \in Tasks : /\ tasks'[i].prio = ts[i].prio
                         /\ \/ tasks'[i].state = ts[i].state
                            \/ ts[i].state = "Sleeping" /\ tasks'[i].state = "Running"
    BY <1>1, <1>2, ScheduleAbstract DEF GivesUp
  <2> QED BY <1>1, <1>2, <2>1 DEF GivesUp, DeadHasNoPrio
<1>3. ASSUME NEW S, Wakes(S) PROVE DeadHasNoPrio'
  <2>1. PICK ts : ts = [i \in Tasks |-> IF i \in S THEN Awake(tasks[i]) ELSE tasks[i]]
    OBVIOUS
  <2>2. /\ Schedulable(ts)
        /\ \A i \in S : ts[i].state = "Running"
        /\ \A i \in Tasks \ S : ts[i] = tasks[i]
    BY <1>1, <1>3, <2>1, WokenVector DEF Wakes
  <2>3. CASE Schedule(ts, mtime)
    <3>1. \A i \in Tasks : /\ tasks'[i].prio = ts[i].prio
                           /\ \/ tasks'[i].state = ts[i].state
                              \/ ts[i].state = "Sleeping" /\ tasks'[i].state = "Running"
      BY <1>1, <2>2, <2>3, ScheduleAbstract
    <3> QED BY <1>1, <2>2, <3>1 DEF DeadHasNoPrio
  <2>4. CASE tasks' = ts
    BY <1>1, <2>2, <2>4 DEF DeadHasNoPrio
  <2> QED BY <1>3, <2>1, <2>3, <2>4 DEF Wakes, MakeRunnable
<1>4. ASSUME NEW i \in Tasks, NEW p \in Prios, Spawns(i, p) PROVE DeadHasNoPrio'
  <2>1. PICK ts : ts = Filled(i, p)
    OBVIOUS
  <2>2. /\ Schedulable(ts) /\ ts[i].state = "Running"
        /\ \A j \in Tasks \ {i} : ts[j] = tasks[j]
        /\ Schedule(ts, mtime) \/ KeepsRunning(ts, i, p)
    BY <1>1, <1>4, <2>1, SpawnVector
  <2>3. CASE Schedule(ts, mtime)
    <3>1. \A j \in Tasks : /\ tasks'[j].prio = ts[j].prio
                           /\ \/ tasks'[j].state = ts[j].state
                              \/ ts[j].state = "Sleeping" /\ tasks'[j].state = "Running"
      BY <1>1, <2>2, <2>3, ScheduleAbstract
    <3> QED BY <1>1, <2>2, <3>1 DEF DeadHasNoPrio
  <2>4. CASE KeepsRunning(ts, i, p)
    BY <1>1, <2>2, <2>4 DEF DeadHasNoPrio, KeepsRunning
  <2> QED BY <2>2, <2>3, <2>4
<1>5. CASE Quiet
  BY <1>1, <1>5 DEF Quiet, DeadHasNoPrio
<1> QED BY <1>1, <1>2, <1>3, <1>4, <1>5, StepShapes

-----------------------------------------------------------------------------
(* The refinement of Dispatcher *)

\* The abstract variables.
prioOf == [i \in Tasks |-> tasks[i].prio]
overlooked == {i \in Tasks : late[i] = "spawned" /\ tasks[i].prio > tasks[cur].prio}

LEMMA StatusFacts ==
  /\ Status = [i \in Tasks |-> Status[i]]
  /\ \A i \in Tasks :
       /\ (Status[i] = "none") = (tasks[i].state = "Dead")
       /\ (Status[i] = "ready") = (tasks[i].state = "Running")
       /\ (Status[i] = "blocked") = (tasks[i].state \notin {"Dead", "Running"})
       /\ Status[i] \in {"none", "ready", "blocked"}
BY DEF Status

LEMMA InitRefines == Init => Dispatch!Init
<1> SUFFICES ASSUME Init PROVE Dispatch!Init
  OBVIOUS
<1>1. /\ tasks[IdleTask].state = "Running" /\ tasks[MainTask].state = "Running"
      /\ \A i \in Tasks \ {IdleTask, MainTask} : tasks[i].state = "Dead"
      /\ tasks[MainTask].prio = 0 /\ \A i \in Tasks \ {MainTask} : tasks[i].prio = MIN_PRIO
  BY TasksFacts DEF Init, NewTask
<1>2. cur = MainTask /\ late = [i \in Tasks |-> "no"]
  BY DEF Init
<1>3. Status = [i \in Tasks |-> IF i \in {IdleTask, MainTask} THEN "ready" ELSE "none"]
  BY <1>1, TasksFacts DEF Status
<1>4. prioOf = [i \in Tasks |-> IF i = MainTask THEN 0 ELSE MIN_PRIO]
  BY <1>1 DEF prioOf
<1>5. overlooked = {}
  BY <1>2 DEF overlooked
<1> QED BY <1>2, <1>3, <1>4, <1>5, TasksFacts, PriosAssumption DEF Dispatch!Init, prioOf, overlooked

\* Giving up the processor and a wake-up that preempts are Dispatch steps, a wake-up
\* that does not preempt is a Wake step and a spawn a Create step.
LEMMA NextRefines == RefineInv /\ [Next]_vars => [Dispatch!Next]_Dispatch!vars
<1> SUFFICES ASSUME RefineInv, [Next]_vars PROVE [Dispatch!Next]_Dispatch!vars
  OBVIOUS
<1>1. /\ IInv /\ DeadHasNoPrio /\ mtime \in Nat /\ tasks \in [Tasks -> Task] /\ cur \in Tasks
      /\ tasks[cur].state = "Running" /\ \A i \in Tasks : tasks[i].prio \in Int
      /\ late \in [Tasks -> {"no", "woken", "spawned", "pushed"}]
  BY FieldFacts DEF RefineInv, IInv, TypeOK, CurrentCanRun, Task
<1>2. ASSUME NEW ts, NEW start, GivesUp(ts, start) PROVE Dispatch!Next
  <2> DEFINE left == IF ts[cur].state = "Running" THEN "ready"
                     ELSE IF ts[cur].state = "Dead" THEN "none" ELSE "blocked"
             S == {i \in Tasks : ts[i].state = "Sleeping" /\ tasks'[i].state = "Running"}
  <2>1. /\ cur' \in Tasks /\ tasks' \in [Tasks -> Task]
        /\ tasks'[cur'].state = "Running"
        /\ \A i \in Tasks :
             /\ tasks'[i].prio = ts[i].prio
             /\ tasks'[i].state = "Running" => tasks'[i].prio <= tasks'[cur'].prio
             /\ late'[i] = "no"
             /\ \/ tasks'[i].state = ts[i].state
                \/ ts[i].state = "Sleeping" /\ tasks'[i].state = "Running"
    BY <1>1, <1>2, ScheduleAbstract DEF GivesUp
  <2>2. /\ \A i \in Tasks \ {cur} : ts[i] = tasks[i]
        /\ ts[cur].state # "Running" => cur # IdleTask
        /\ ts[cur].prio = IF ts[cur].state = "Dead" THEN MIN_PRIO ELSE tasks[cur].prio
    BY <1>2 DEF GivesUp
  <2>3. S \subseteq Dispatch!Blocked \cup {cur}
    BY <2>2, StatusFacts DEF Dispatch!Blocked
  <2>4. Status' = Dispatch!Woken([Status EXCEPT ![cur] = left], S)
    <3>1. ASSUME NEW i \in Tasks
          PROVE  Status'[i] = IF i \in S THEN "ready" ELSE IF i = cur THEN left ELSE Status[i]
      BY <1>1, <2>1, <2>2 DEF Status
    <3> QED BY <1>1, <3>1, StatusFacts DEF Dispatch!Woken, Status
  <2>5. prioOf' = IF left = "none" THEN [prioOf EXCEPT ![cur] = MIN_PRIO] ELSE prioOf
    BY <1>1, <2>1, <2>2 DEF prioOf
  <2>6. overlooked' = {}
    BY <2>1 DEF overlooked
  <2>7. Dispatch!Highest(cur', Status', prioOf')
    BY <2>1, StatusFacts DEF Dispatch!Highest, prioOf, Status
  <2>8. left = "none" => cur \notin S
    OBVIOUS
  <2>9. left \in {"ready", "blocked", "none"} /\ (cur # IdleTask \/ left = "ready")
    BY <2>2
  <2> HIDE DEF left, S
  <2>10. PICK l \in {"ready", "blocked", "none"}, T \in SUBSET Tasks : l = left /\ T = S
    BY <2>9 DEF S
  <2>11. Dispatch!Dispatch(l, T)
    BY <2>1, <2>3, <2>4, <2>5, <2>6, <2>7, <2>8, <2>9, <2>10
    DEF Dispatch!Dispatch, prioOf, overlooked
  <2> QED BY <2>11 DEF Dispatch!Next
<1>3. ASSUME NEW S, Wakes(S) PROVE [Dispatch!Next]_Dispatch!vars
  <2>1. PICK ts : ts = [i \in Tasks |-> IF i \in S THEN Awake(tasks[i]) ELSE tasks[i]]
    OBVIOUS
  <2>2. /\ Schedulable(ts) /\ S \subseteq Tasks
        /\ \A i \in S : ts[i].state = "Running" /\ ts[i].prio = tasks[i].prio
        /\ \A i \in S : tasks[i].state \notin {"Dead", "Running"}
        /\ \A i \in Tasks \ S : ts[i] = tasks[i]
    BY <1>1, <1>3, <2>1, WokenVector DEF Wakes
  <2>3. CASE Schedule(ts, mtime)
    <3>1. PICK T \in SUBSET Tasks :
            T = S \cup {i \in Tasks : ts[i].state = "Sleeping" /\ tasks'[i].state = "Running"}
      BY <2>2
    <3>2. /\ cur' \in Tasks /\ tasks' \in [Tasks -> Task]
          /\ tasks'[cur'].state = "Running"
          /\ \A i \in Tasks :
               /\ tasks'[i].prio = ts[i].prio
               /\ tasks'[i].state = "Running" => tasks'[i].prio <= tasks'[cur'].prio
               /\ late'[i] = "no"
               /\ \/ tasks'[i].state = ts[i].state
                  \/ ts[i].state = "Sleeping" /\ tasks'[i].state = "Running"
      BY <1>1, <2>2, <2>3, ScheduleAbstract
    <3>3. T \subseteq Dispatch!Blocked \cup {cur}
      BY <2>2, <3>1, StatusFacts DEF Dispatch!Blocked
    <3>4. Status' = Dispatch!Woken([Status EXCEPT ![cur] = "ready"], T)
      <4>1. ASSUME NEW i \in Tasks
            PROVE  Status'[i] = IF i \in T \cup {cur} THEN "ready" ELSE Status[i]
        BY <1>1, <2>2, <3>1, <3>2 DEF Status
      <4> QED BY <1>1, <4>1, StatusFacts DEF Dispatch!Woken, Status
    <3>5. prioOf' = prioOf
      BY <2>2, <3>2 DEF prioOf
    <3>6. overlooked' = {}
      BY <3>2 DEF overlooked
    <3>7. Dispatch!Highest(cur', Status', prioOf')
      BY <3>2, StatusFacts DEF Dispatch!Highest, prioOf, Status
    <3>8. Dispatch!Dispatch("ready", T)
      BY <3>2, <3>3, <3>4, <3>5, <3>6, <3>7 DEF Dispatch!Dispatch, prioOf, overlooked
    <3> QED BY <3>8 DEF Dispatch!Next
  <2>4. CASE /\ ~(\E i \in S : tasks[i].prio > tasks[cur].prio)
             /\ tasks' = ts /\ cur' = cur
             /\ late' = [i \in Tasks |-> IF i \in S THEN "woken" ELSE late[i]]
    <3>1. S \subseteq Dispatch!Blocked /\ \A i \in S : prioOf[i] <= prioOf[cur]
      BY <1>1, <2>2, <2>4, StatusFacts DEF Dispatch!Blocked, prioOf
    <3>2. Status' = Dispatch!Woken(Status, S)
      <4>1. ASSUME NEW i \in Tasks
            PROVE  Status'[i] = IF i \in S THEN "ready" ELSE Status[i]
        BY <2>2, <2>4 DEF Status
      <4> QED BY <4>1, StatusFacts DEF Dispatch!Woken, Status
    <3>3. prioOf' = prioOf
      BY <2>2, <2>4 DEF prioOf
    <3>4. overlooked' = overlooked
      BY <1>1, <2>2, <2>4 DEF overlooked
    <3>5. Dispatch!Wake(S)
      BY <2>4, <3>1, <3>2, <3>3, <3>4 DEF Dispatch!Wake, prioOf, overlooked
    <3> QED BY <2>2, <3>5 DEF Dispatch!Next
  <2> QED BY <1>3, <2>1, <2>3, <2>4 DEF Wakes, MakeRunnable, cpuVars
<1>4. ASSUME NEW i \in Tasks, NEW p \in Prios, Spawns(i, p) PROVE Dispatch!Next
  <2>1. PICK ts : ts = Filled(i, p)
    OBVIOUS
  <2>2. /\ Schedulable(ts) /\ i # cur /\ tasks[i].state = "Dead"
        /\ ts[i].state = "Running" /\ ts[i].prio = p
        /\ \A j \in Tasks \ {i} : ts[j] = tasks[j]
        /\ Schedule(ts, mtime) \/ KeepsRunning(ts, i, p)
    BY <1>1, <1>4, <2>1, SpawnVector
  <2>3. cur # IdleTask /\ Status[i] = "none" /\ p \in Int /\ p > MIN_PRIO
        /\ tasks[i].prio = MIN_PRIO /\ tasks[cur].prio >= MIN_PRIO
    BY <1>1, <1>4, <2>2, StatusFacts, PriosAssumption, FieldFacts DEF Spawns, DeadHasNoPrio, Task
  <2>4. CASE Schedule(ts, mtime)
    <3>1. PICK T \in SUBSET Tasks :
            T = {j \in Tasks : ts[j].state = "Sleeping" /\ tasks'[j].state = "Running"}
      OBVIOUS
    <3>2. /\ cur' \in Tasks /\ tasks' \in [Tasks -> Task]
          /\ tasks'[cur'].state = "Running"
          /\ \A j \in Tasks :
               /\ tasks'[j].prio = ts[j].prio
               /\ tasks'[j].state = "Running" => tasks'[j].prio <= tasks'[cur'].prio
               /\ late'[j] = "no"
               /\ \/ tasks'[j].state = ts[j].state
                  \/ ts[j].state = "Sleeping" /\ tasks'[j].state = "Running"
      BY <1>1, <2>2, <2>4, ScheduleAbstract
    <3>3. T \in SUBSET Dispatch!Blocked
      BY <2>2, <3>1, StatusFacts DEF Dispatch!Blocked
    <3>4. Status' = Dispatch!Woken([Status EXCEPT ![i] = "ready"], T)
      <4>1. ASSUME NEW j \in Tasks
            PROVE  Status'[j] = IF j \in T \cup {i} THEN "ready" ELSE Status[j]
        BY <1>1, <2>2, <3>1, <3>2 DEF Status
      <4> QED BY <1>1, <4>1, StatusFacts DEF Dispatch!Woken, Status
    <3>5. prioOf' = [prioOf EXCEPT ![i] = p]
      BY <2>2, <3>2 DEF prioOf
    <3>6. overlooked' = {}
      BY <3>2 DEF overlooked
    <3>7. Dispatch!Highest(cur', Status', prioOf')
      BY <3>2, StatusFacts DEF Dispatch!Highest, prioOf, Status
    <3>8. Dispatch!Create(i, p)
      BY <2>3, <3>2, <3>3, <3>4, <3>5, <3>6, <3>7 DEF Dispatch!Create, prioOf, overlooked
    <3> QED BY <3>8 DEF Dispatch!Next
  <2>5. CASE KeepsRunning(ts, i, p)
    <3>1. tasks' = ts /\ cur' = cur
      BY <2>5 DEF KeepsRunning
    <3>2. \E T \in SUBSET Dispatch!Blocked :
            T = {} /\ Status' = Dispatch!Woken([Status EXCEPT ![i] = "ready"], T)
      <4>1. ASSUME NEW j \in Tasks
            PROVE  Status'[j] = IF j = i THEN "ready" ELSE Status[j]
        BY <1>1, <2>2, <3>1 DEF Status
      <4>2. Status' = Dispatch!Woken([Status EXCEPT ![i] = "ready"], {})
        BY <1>1, <4>1, StatusFacts DEF Dispatch!Woken, Status
      <4> QED BY <4>2
    <3>3. prioOf' = [prioOf EXCEPT ![i] = p]
      BY <2>2, <3>1 DEF prioOf
    <3>4. overlooked' = overlooked \cup {x \in {i} : p > prioOf[cur]}
      <4>1. \A j \in Tasks \ {i} : j \in overlooked' <=> j \in overlooked
        BY <1>1, <2>2, <2>5, <3>1 DEF overlooked, KeepsRunning
      <4>2. i \in overlooked' <=> p > prioOf[cur]
        BY <1>1, <2>2, <2>3, <2>5, <3>1 DEF overlooked, KeepsRunning, prioOf
      <4>3. i \notin overlooked
        BY <1>1, <2>3 DEF overlooked
      <4>4. overlooked \subseteq Tasks /\ overlooked' \subseteq Tasks
        BY DEF overlooked
      <4> HIDE DEF overlooked
      <4> QED BY <4>1, <4>2, <4>3, <4>4
    <3>5. Dispatch!Create(i, p)
      BY <2>3, <3>1, <3>2, <3>3, <3>4 DEF Dispatch!Create, prioOf, overlooked
    <3> QED BY <3>5 DEF Dispatch!Next
  <2> QED BY <2>2, <2>4, <2>5
<1>5. CASE Quiet
  <2>1. /\ cur' = cur /\ late' = late
        /\ \A i \in Tasks : /\ tasks'[i].state = tasks[i].state /\ tasks'[i].prio = tasks[i].prio
    BY <1>5 DEF Quiet
  <2>2. Status' = Status
    BY <2>1 DEF Status
  <2>3. prioOf' = prioOf
    BY <2>1 DEF prioOf
  <2>4. overlooked' = overlooked
    <3>1. \A i \in Tasks : i \in overlooked' <=> i \in overlooked
      BY <2>1, <1>1 DEF overlooked
    <3>2. overlooked \subseteq Tasks /\ overlooked' \subseteq Tasks
      BY DEF overlooked
    <3> HIDE DEF overlooked
    <3> QED BY <3>1, <3>2
  <2> QED BY <2>1, <2>2, <2>3, <2>4 DEF Dispatch!vars, prioOf, overlooked
<1> QED BY <1>1, <1>2, <1>3, <1>4, <1>5, StepShapes

-----------------------------------------------------------------------------
(* The time charged to the tasks *)

\* The running total of the loop of dump_task_stats over the vector ts, and the
\* span it may not exceed.
Accounted(ts, span) ==
  \E acc \in [0 .. MaxTasks -> Int] :
    /\ acc[0] = 0
    /\ \A i \in Tasks : acc[i + 1] = acc[i] + ts[i].runTicks
    /\ acc[MaxTasks] <= span

AccountInv == IInv /\ Accounted(tasks, lastTaskChange - lastStatDump)

\* Every non-empty set of natural numbers has a least element.
LEMMA LeastNat ==
  ASSUME NEW T \in SUBSET Nat, T # {}
  PROVE  \E x \in T : \A y \in T : x <= y
<1>1. PICK x \in T : \A y \in T : ~(<<y, x>> \in OpToRel(<, Nat))
  BY NatLessThanWellFounded, WFMin
<1>2. \A y \in T : ~(y < x)
  BY <1>1 DEF OpToRel
<1> QED BY <1>2

\* The total the code computes is the running total's last value.
LEMMA TotLemma ==
  ASSUME NEW acc \in [0 .. MaxTasks -> Int], acc[0] = 0,
         \A i \in Tasks : acc[i + 1] = acc[i] + tasks[i].runTicks
  PROVE  Tot[MaxTasks] = acc[MaxTasks]
<1> DEFINE Loop(f) ==
             [n \in 0 .. MaxTasks |-> IF n = 0 THEN 0 ELSE f[n - 1] + tasks[n - 1].runTicks]
<1>1. acc = Loop(acc)
  <2>1. \A n \in 0 .. MaxTasks : n # 0 => n - 1 \in Tasks /\ (n - 1) + 1 = n
    BY TasksAssumption DEF Tasks
  <2> QED BY <2>1
<1>2. Tot = Loop(Tot)
  BY <1>1 DEF Tot
<1> DEFINE T == {n \in 0 .. MaxTasks : Tot[n] # acc[n]}
<1> SUFFICES ASSUME T # {} PROVE FALSE
  BY TasksAssumption
<1>3. T \in SUBSET Nat
  BY TasksAssumption
<1>4. PICK x \in T : \A y \in T : x <= y
  BY <1>3, LeastNat
<1>5. x # 0 /\ x \in 0 .. MaxTasks
  BY <1>2, TasksAssumption
<1>6. x - 1 \in 0 .. MaxTasks /\ x - 1 \in Tasks /\ x - 1 \notin T
  BY <1>4, <1>5, TasksAssumption DEF Tasks
<1>7. Tot[x] = Tot[x - 1] + tasks[x - 1].runTicks
  BY <1>2, <1>5
<1>8. acc[x] = acc[x - 1] + tasks[x - 1].runTicks
  BY <1>5, <1>6, TasksAssumption
<1> QED BY <1>6, <1>7, <1>8

\* One task's time changes by d, and the total with it.
LEMMA OneCharged ==
  ASSUME NEW ts, NEW us, NEW span \in Int, NEW k \in Tasks, NEW d \in Int,
         Accounted(ts, span),
         \A i \in Tasks : us[i].runTicks = ts[i].runTicks + (IF i = k THEN d ELSE 0),
         \A i \in Tasks : ts[i].runTicks \in Int
  PROVE  Accounted(us, span + d)
<1>1. PICK acc \in [0 .. MaxTasks -> Int] :
        /\ acc[0] = 0
        /\ \A i \in Tasks : acc[i + 1] = acc[i] + ts[i].runTicks
        /\ acc[MaxTasks] <= span
  BY DEF Accounted
<1> DEFINE new == [n \in 0 .. MaxTasks |-> acc[n] + (IF n > k THEN d ELSE 0)]
<1>2. new \in [0 .. MaxTasks -> Int] /\ new[0] = 0 /\ new[MaxTasks] <= span + d
  BY <1>1, TasksAssumption DEF Tasks
<1>3. ASSUME NEW i \in Tasks
      PROVE  new[i + 1] = new[i] + us[i].runTicks
  <2>1. /\ i \in 0 .. MaxTasks /\ i + 1 \in 0 .. MaxTasks /\ i \in Int /\ k \in Int
        /\ acc[i] \in Int /\ acc[i + 1] = acc[i] + ts[i].runTicks
    BY <1>1, TasksAssumption DEF Tasks
  <2>2. ts[i].runTicks \in Int /\ us[i].runTicks = ts[i].runTicks + (IF i = k THEN d ELSE 0)
    OBVIOUS
  <2>3. /\ new[i] = acc[i] + (IF i > k THEN d ELSE 0)
        /\ new[i + 1] = acc[i + 1] + (IF i + 1 > k THEN d ELSE 0)
    BY <2>1
  <2> HIDE DEF new
  <2> QED BY <2>1, <2>2, <2>3
<1> HIDE DEF new
<1> QED BY <1>2, <1>3 DEF Accounted

LEMMA MoreSpan ==
  ASSUME NEW ts, NEW span \in Int, NEW more \in Int, more >= span, Accounted(ts, span)
  PROVE  Accounted(ts, more)
<1>1. PICK acc \in [0 .. MaxTasks -> Int] :
        /\ acc[0] = 0
        /\ \A i \in Tasks : acc[i + 1] = acc[i] + ts[i].runTicks
        /\ acc[MaxTasks] <= span
  BY DEF Accounted
<1>2. acc[MaxTasks] <= more
  BY <1>1, TasksAssumption
<1> QED BY <1>1, <1>2 DEF Accounted

\* Nothing charged, nothing to account for.
LEMMA NothingCharged ==
  ASSUME NEW ts, \A i \in Tasks : ts[i].runTicks = 0
  PROVE  Accounted(ts, 0)
<1> DEFINE acc == [n \in 0 .. MaxTasks |-> 0]
<1>1. acc \in [0 .. MaxTasks -> Int] /\ acc[0] = 0 /\ acc[MaxTasks] <= 0
  BY TasksAssumption
<1>2. \A i \in Tasks : acc[i + 1] = acc[i] + ts[i].runTicks
  BY TasksAssumption DEF Tasks
<1> HIDE DEF acc
<1> QED BY <1>1, <1>2 DEF Accounted

\* schedule() charges the task it switches out with no more than the time since
\* the last switch.
LEMMA ScheduleCharges ==
  ASSUME IInv, NEW ts, Schedulable(ts), NEW start \in Nat, start >= mtime, Schedule(ts, start)
  PROVE  \E d \in Int :
           /\ d <= lastTaskChange' - lastTaskChange
           /\ \A i \in Tasks : tasks'[i].runTicks = ts[i].runTicks + (IF i = cur THEN d ELSE 0)
<1> DEFINE s0 == [ts EXCEPT ![cur].saved = live]
<1>1. PICK wake \in start .. mtime + ReadSkew :
        \E nxt \in {i \in Tasks : IsNext(i, WakeUpTasks(s0, wake))},
           now \in wake .. mtime + ReadSkew :
             /\ tasks' = Charge(nxt, WakeUpTasks(s0, wake), now)
             /\ IF nxt = cur THEN UNCHANGED <<lastTaskChange, live, mpp>>
                ELSE lastTaskChange' = now
  BY DEF Schedule
<1> DEFINE w == WakeUpTasks(s0, wake)
<1> HIDE DEF w
<1>2. PICK nxt \in Tasks, now \in wake .. mtime + ReadSkew :
          /\ tasks' = Charge(nxt, w, now)
          /\ lastTaskChange' = IF nxt = cur THEN lastTaskChange ELSE now
  BY <1>1 DEF w
<1>3. /\ cur \in Tasks /\ live \in Lives /\ mtime \in Nat /\ lastTaskChange \in Nat
      /\ wake \in Nat /\ now \in Nat /\ lastTaskChange <= now
  BY <1>1, <1>2, TimesAssumption DEF IInv, TypeOK
<1>4. /\ s0 \in [Tasks -> Task]
      /\ \A i \in Tasks : s0[i].runTicks = ts[i].runTicks
  BY <1>3 DEF Schedulable, Task
<1> HIDE DEF s0
<1>5. /\ w \in [Tasks -> Task]
      /\ \A i \in Tasks : w[i].runTicks = ts[i].runTicks /\ ts[i].runTicks \in Nat
  BY <1>4, WakeUpTasksLemma DEF w, Schedulable, Task
<1>6. CASE nxt = cur \/ w[cur].state = "Dead"
  <2>1. tasks' = w /\ lastTaskChange' - lastTaskChange >= 0
    BY <1>2, <1>3, <1>6 DEF Charge
  <2>2. \A i \in Tasks : tasks'[i].runTicks = ts[i].runTicks + (IF i = cur THEN 0 ELSE 0)
    BY <1>5, <2>1
  <2> QED BY <2>1, <2>2
<1>7. CASE ~(nxt = cur \/ w[cur].state = "Dead")
  <2> DEFINE d == now - lastTaskChange
  <2>1. d \in Int /\ d <= lastTaskChange' - lastTaskChange
    BY <1>2, <1>3, <1>7
  <2>2. \A i \in Tasks : tasks'[i].runTicks = w[i].runTicks + (IF i = cur THEN d ELSE 0)
    BY <1>2, <1>3, <1>5, <1>7 DEF Charge, Task
  <2> HIDE DEF d
  <2> QED BY <1>5, <2>1, <2>2
<1> QED BY <1>6, <1>7

LEMMA ScheduleAccounts ==
  ASSUME IInv, NEW ts, Schedulable(ts), NEW start \in Nat, start >= mtime, Schedule(ts, start),
         lastStatDump' = lastStatDump, Accounted(ts, lastTaskChange - lastStatDump)
  PROVE  Accounted(tasks, lastTaskChange - lastStatDump)'
<1>1. PICK d \in Int :
        /\ d <= lastTaskChange' - lastTaskChange
        /\ \A i \in Tasks : tasks'[i].runTicks = ts[i].runTicks + (IF i = cur THEN d ELSE 0)
  BY ScheduleCharges
<1>2. /\ lastTaskChange \in Nat /\ lastStatDump \in Nat /\ cur \in Tasks
      /\ lastTaskChange' \in Nat /\ \A i \in Tasks : ts[i].runTicks \in Int
  BY ScheduleLemma DEF IInv, TypeOK, Schedulable, Task
<1> DEFINE span == lastTaskChange - lastStatDump
<1>3. span \in Int /\ span + d \in Int
  BY <1>2
<1> HIDE DEF span
<1>4. Accounted(tasks', span + d)
  BY <1>1, <1>2, <1>3, OneCharged DEF span
<1>5. span + d <= lastTaskChange' - lastStatDump' /\ lastTaskChange' - lastStatDump' \in Int
  BY <1>1, <1>2 DEF span
<1>6. Accounted(tasks', lastTaskChange' - lastStatDump')
  BY <1>3, <1>4, <1>5, MoreSpan
<1> QED BY <1>6 DEF Accounted

\* Only the time charged matters.
LEMMA SameTicks ==
  ASSUME NEW ts, NEW us, NEW span \in Int, Accounted(ts, span),
         \A i \in Tasks : us[i].runTicks = ts[i].runTicks
  PROVE  Accounted(us, span)
BY DEF Accounted

LEMMA InitAccountInv == Init => AccountInv
<1> SUFFICES ASSUME Init PROVE Accounted(tasks, lastTaskChange - lastStatDump)
  BY InitIInv DEF AccountInv
<1>1. \A i \in Tasks : tasks[i].runTicks = 0
  BY TasksFacts DEF Init, NewTask
<1>2. lastTaskChange - lastStatDump = 0
  BY DEF Init
<1> QED BY <1>1, <1>2, NothingCharged

LEMMA NextAccountInv == AccountInv /\ [Next]_vars => AccountInv'
<1> DEFINE span == lastTaskChange - lastStatDump
<1> SUFFICES ASSUME AccountInv, [Next]_vars PROVE Accounted(tasks, span)'
  BY NextIInv DEF AccountInv
<1>1. /\ IInv /\ Accounted(tasks, span)
      /\ mtime \in Nat /\ tasks \in [Tasks -> Task] /\ cur \in Tasks
      /\ span \in Int /\ \A i \in Tasks : tasks[i].runTicks \in Nat
  BY DEF AccountInv, IInv, TypeOK, Task
<1>2. ASSUME NEW ts, NEW start, GivesUp(ts, start) PROVE Accounted(tasks, span)'
  <2>1. Accounted(ts, span)
    <3>1. \A i \in Tasks : ts[i].runTicks = tasks[i].runTicks
      BY <1>1, <1>2 DEF GivesUp
    <3> HIDE DEF span
    <3> QED BY <1>1, <3>1, SameTicks
  <2> QED BY <1>1, <1>2, <2>1, ScheduleAccounts DEF GivesUp
<1>3. ASSUME NEW S, Wakes(S) PROVE Accounted(tasks, span)'
  <2>1. PICK ts : ts = [i \in Tasks |-> IF i \in S THEN Awake(tasks[i]) ELSE tasks[i]]
    OBVIOUS
  <2>2. Schedulable(ts) /\ \A i \in Tasks : ts[i].runTicks = tasks[i].runTicks
    BY <1>1, <1>3, <2>1, WokenVector DEF Wakes
  <2>3. Accounted(ts, span)
    <3> HIDE DEF span
    <3> QED BY <1>1, <2>2, SameTicks
  <2>4. lastStatDump' = lastStatDump
    BY <1>3 DEF Wakes
  <2>5. CASE Schedule(ts, mtime)
    BY <1>1, <2>2, <2>3, <2>4, <2>5, ScheduleAccounts
  <2>6. CASE tasks' = ts /\ lastTaskChange' = lastTaskChange
    BY <2>3, <2>4, <2>6 DEF Accounted
  <2> QED BY <1>3, <2>1, <2>5, <2>6 DEF Wakes, MakeRunnable, cpuVars
<1>4. ASSUME NEW i \in Tasks, NEW p \in Prios, Spawns(i, p) PROVE Accounted(tasks, span)'
  <2>1. PICK ts : ts = Filled(i, p)
    OBVIOUS
  <2>2. /\ Schedulable(ts) /\ ts[i].runTicks = 0
        /\ \A j \in Tasks \ {i} : ts[j] = tasks[j]
        /\ Schedule(ts, mtime) \/ KeepsRunning(ts, i, p)
    BY <1>1, <1>4, <2>1, SpawnVector
  <2>3. Accounted(ts, span)
    <3>1. PICK d \in Int : d = 0 - tasks[i].runTicks /\ d <= 0
      BY <1>1
    <3>2. \A j \in Tasks : ts[j].runTicks = tasks[j].runTicks + (IF j = i THEN d ELSE 0)
      BY <1>1, <2>2, <3>1
    <3>3. span + d \in Int /\ span + d <= span
      BY <1>1, <3>1
    <3> HIDE DEF span
    <3>4. Accounted(ts, span + d)
      BY <1>1, <3>2, OneCharged
    <3> QED BY <1>1, <3>3, <3>4, MoreSpan
  <2>4. lastStatDump' = lastStatDump
    BY <1>4 DEF Spawns
  <2>5. CASE Schedule(ts, mtime)
    BY <1>1, <2>2, <2>3, <2>4, <2>5, ScheduleAccounts
  <2>6. CASE KeepsRunning(ts, i, p)
    BY <2>3, <2>4, <2>6 DEF Accounted, KeepsRunning
  <2> QED BY <2>2, <2>5, <2>6
<1>5. CASE Quiet
  <2>1. CASE /\ \A i \in Tasks : tasks'[i].runTicks = tasks[i].runTicks
             /\ lastStatDump' = lastStatDump
    <3>1. Accounted(tasks', span)
      <4> HIDE DEF span
      <4> QED BY <1>1, <2>1, SameTicks
    <3>2. lastTaskChange' - lastStatDump' = span
      BY <1>5, <2>1 DEF Quiet
    <3>3. Accounted(tasks', lastTaskChange' - lastStatDump')
      BY <3>1, <3>2
    <3> QED BY <3>3 DEF Accounted
  <2>2. CASE /\ \A i \in Tasks : tasks'[i].runTicks = 0
             /\ lastStatDump' = lastTaskChange
    <3>1. Accounted(tasks', 0)
      BY <2>2, NothingCharged
    <3>2. lastTaskChange' - lastStatDump' = 0
      BY <1>1, <1>5, <2>2 DEF Quiet, IInv, TypeOK
    <3>3. Accounted(tasks', lastTaskChange' - lastStatDump')
      BY <3>1, <3>2
    <3> QED BY <3>3 DEF Accounted
  <2> QED BY <1>5, <2>1, <2>2 DEF Quiet
<1> QED BY <1>1, <1>2, <1>3, <1>4, <1>5, StepShapes

-----------------------------------------------------------------------------
(* The theorems *)

\* Every variable keeps its type, whatever the tasks call and the devices do.
THEOREM TypeCorrect == Spec => []TypeOK
<1>1. IInv => TypeOK
  BY DEF IInv
<1> QED BY <1>1, AlwaysIInv, PTL

\* schedule() only ever leaves a runnable task current.
THEOREM NeverRunsBlocked == Spec => []CurrentCanRun
<1>1. IInv => CurrentCanRun
  BY DEF IInv
<1> QED BY <1>1, AlwaysIInv, PTL

\* mepc/mscratch and the slots never mix up the contexts of two tasks, also across
\* several switches in one trap and the reuse of a dead task's slot.
THEOREM ContextsNeverMix == Spec => []ContextIsOwn
<1>1. IInv => ContextIsOwn
  BY DEF IInv
<1> QED BY <1>1, AlwaysIInv, PTL

\* Only a task spawned into a dead slot can wait behind a lower priority.
THEOREM StrictPriority == Spec => []PriorityRespected
<1>1. IInv => PriorityRespected
  BY DEF IInv
<1> QED BY <1>1, AlwaysIInv, PTL

\* The acknowledgement of handle_irqs never discards an interrupt that a task is
\* still waiting for.
THEOREM NoLostInterrupt == Spec => []WaitersWillWake
<1>1. IInv => WaitersWillWake
  BY DEF IInv
<1> QED BY <1>1, AlwaysIInv, PTL

\* The input driver never holds the buffer of a task that is not blocked on it.
THEOREM BufferStaysPinned == Spec => []InputBufferPinned
<1>1. IInv => InputBufferPinned
  BY DEF IInv
<1> QED BY <1>1, AlwaysIInv, PTL

\* Whenever schedule() left a task of the current priority waiting, the timer is
\* armed within one slot of the present.
THEOREM RoundRobinArmed == Spec => []SlotArmed
<1>1. TimerInv => SlotArmed
  BY DEF TimerInv
<1> QED BY <1>1, AlwaysTimerInv, PTL

\* No sleeper above the current priority has a deadline before the next interrupt of
\* the timer.
THEOREM SleepersArmed == Spec => []NoOversleep
<1>1. TimerInv => NoOversleep
  BY DEF TimerInv
<1> QED BY <1>1, AlwaysTimerInv, PTL

\* Nothing but a futex_wake on its own address ends a sleep early, and then the
\* highest waiters first.
THEOREM SleepsRunToTheirEnd == Spec => EarlyWakesAreFutexWakes
BY AlwaysIInv, EarlyWakesStep, PTL DEF Spec, EarlyWakesAreFutexWakes

\* The whole kernel, interrupt handler and drivers included, hands the processor
\* over as Dispatcher allows.
THEOREM KernelDispatches == Spec => ImplementsDispatcher
BY InitRefineInv, NextRefineInv, InitRefines, NextRefines, PTL
DEF Spec, ImplementsDispatcher, Dispatch!Spec

\* The subtraction `span - tot` of dump_task_stats never underflows.
THEOREM StatisticsFit == Spec => []AccountingFits
<1>1. AccountInv => AccountingFits
  <2> SUFFICES ASSUME AccountInv PROVE AccountingFits
    OBVIOUS
  <2>1. PICK acc \in [0 .. MaxTasks -> Int] :
          /\ acc[0] = 0
          /\ \A i \in Tasks : acc[i + 1] = acc[i] + tasks[i].runTicks
          /\ acc[MaxTasks] <= lastTaskChange - lastStatDump
    BY DEF AccountInv, Accounted
  <2>2. Tot[MaxTasks] = acc[MaxTasks]
    BY <2>1, TotLemma
  <2> QED BY <2>1, <2>2 DEF AccountingFits
<1> QED BY <1>1, InitAccountInv, NextAccountInv, PTL DEF Spec
=============================================================================
