\* A DMA of cheap commands: the sizes and delays keep their true proportions.
CONSTANTS
  CpuFreq = 1000  ClkDiv = 2  Word = 2
  FifoSize = 2
  DmaStart = 2  DmaPoll = 8  RomCost = 2
  InputFifo = 2  ByteTime = 4
  AudioDiv = 32
  Ticks = {1}
  Programs <- MCStallPrograms
  Buffers <- MCCheapBuffers
  Commands <- MCCommands
  Matrices = {0, 1}
  MaxMatrices = 1  MaxTriangles = 3
  TriangleCycles = 2  MultiplyCycles = 4  EndCycles = 3
  Bytes = {"b"}
  BlockSize = 3  BlockLen = 8  Ahead = 11  Queue = 16
SPECIFICATION Spec
INVARIANTS StallHasDuration
CHECK_DEADLOCK FALSE
