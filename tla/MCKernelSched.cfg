\* Time: sleeping, futexes with timeouts, yielding, spawning, exiting, and the
\* statistics dumped at each frame.
CONSTANTS
  MIN_PRIO <- MCMinPrio
  Prios <- MCPrios
  NoTask <- MCNoTask
  NoFutex = NoFutex
  MaxTasks = 4
  Ticks = {0, 1, 9}
  U64Max = 9
  Addrs = {a1}
  Calls = {"sleep", "futex", "spawn", "exit", "vsync"}
  Devices = {"VSYNC"}
  HZ = 2
  Slot = 1
  StatPeriod = 1
  ReadSkew = 1
  MaxTime = 2
  MaxBirths = 3
SPECIFICATION Spec
INVARIANTS
  ContextIsOwn
  PriorityRespected
  SlotArmed
  NoOversleep
  AccountingFits
PROPERTIES
  EarlyWakesAreFutexWakes
  ImplementsDispatcher
\* MTIME stops at MaxTime, after which the model may have no step left.
CHECK_DEADLOCK FALSE
