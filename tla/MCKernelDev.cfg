\* Devices: every blocking call, the interrupt handler in steps, fair devices
\* running between them.
CONSTANTS
  MIN_PRIO <- MCMinPrio
  Prios <- MCPrios
  NoTask <- MCNoTask
  NoFutex = NoFutex
  MaxTasks = 3
  Ticks = {1}
  U64Max = 9
  Addrs = {a1}
  Calls = {"vsync", "input", "dma", "sleep", "spawn", "exit", "shutdown"}
  Devices = {"VSYNC", "INPUT", "DMA"}
  HZ = 3
  Slot = 1
  StatPeriod = 9
  ReadSkew = 0
  MaxTime = 1
  MaxBirths = 3
SPECIFICATION FairSpec
INVARIANTS
  WaitersWillWake
  InputBufferPinned
PROPERTIES
  DeviceWaitsEnd
