CONSTANTS
  StartAddr = 5
  Length = 21
  ALIGN = 2
  HEADER_SIZE = 2
  W = 64
  Requests <- MCRequests
SPECIFICATION Spec
INVARIANTS ListTilesHeap Coalesced FailsOnlyWhenFull
PROPERTIES ImplementsMemory
