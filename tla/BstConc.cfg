CONSTANTS
  Thread = {t1, t2, t3}
  Key = {1, 2, 3}
  Value = {a, b}
  NULL = NULL
  INT_MIN = 1
  INT_MAX = 4
  Node <- MCNode
  root <- MCRoot
  MaxCalls = 1
  InitKeys = {1, 2, 3}
  MaxNode = 6
SPECIFICATION MCSpec
SYMMETRY Symmetry
ACTION_CONSTRAINT LowestFirst
INVARIANTS TypeOK LockDiscipline NoUseAfterFree ChildStable NoLostSubtree InductiveHere
PROPERTIES WriteUnderLock
