\* Programs that reach every device, alone and together.
CONSTANTS
  CpuFreq = 20  ClkDiv = 2  Word = 2
  FifoSize = 2
  DmaStart = 2  DmaPoll = 3  RomCost = 2
  InputFifo = 2  ByteTime = 4
  AudioDiv = 3
  Ticks = {1, 3}
  Programs <- MCPrograms
  Buffers <- MCBuffers
  Commands <- MCCommands
  Matrices = {0, 1}
  MaxMatrices = 1  MaxTriangles = 3
  TriangleCycles = 2  MultiplyCycles = 4  EndCycles = 3
  Bytes = {"b"}
  BlockSize = 3  BlockLen = 8  Ahead = 11  Queue = 16
SPECIFICATION Spec
INVARIANTS
  TimeConserved TimerExact NoInterruptMissed NeverFarAhead DmaDelivers
  ModelsAreDrawn VoicePlaysSound EnvelopeMoves
PROPERTIES EventsAdvance
\* The programs end.
CHECK_DEADLOCK FALSE
