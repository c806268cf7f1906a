\* Two programs and the idle task.
CONSTANTS
  Tasks = {0, 1, 2}
  StackMax = 1
  CodeMax = 1
  CellWords = 2
  Programs <- MCPrograms
SPECIFICATION Spec
INVARIANTS RegistersKept ScIsAtomic
