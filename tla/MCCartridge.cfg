\* Units of 8 bytes in the file system; a header of four operations.
CONSTANTS
  FsHeader = 2  HdrSize = 4
  RamLen = 12  KernelRam = 4  RomBase = 16  RomLen = 46
  ScriptLen = 4  HeapAlign = 2  StackCost = 1
  BootEntry = 16  FsAlign = 4
  Paths <- MCPaths
  Inputs <- MCInputs
SPECIFICATION Spec
INVARIANTS TreeIsRead ProgramReady
\* The tool may fail, and the program ends.
CHECK_DEADLOCK FALSE
