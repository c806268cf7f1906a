\* Small programs on small pages, every compressed instruction, and any accesses at all.
CONSTANTS
  RamBase = 0  RamPages = 2  RomBase = 8  RomPages = 5
  PageLen = 8  CacheMax = 2  HeadStart = 1  MaxBias = 1
  MaxFetches = 3  MaxScore = 49
  Halfword <- MCHalfword
  Erased = 65535
  XLen = 16
  Programs <- MCPrograms
SPECIFICATION CpuSpec
INVARIANTS LutIsExact ScoreFits CompressedIsExpansion ProgramComputes
PROPERTIES FetchFollowsMemory
\* The programs end.
CHECK_DEADLOCK FALSE
