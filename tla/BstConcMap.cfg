CONSTANTS
  Thread = {t1, t2}
  Key = {1, 2, 3}
  Value = {a, b}
  NULL = NULL
  INT_MIN = 1
  INT_MAX = 4
  Node <- MCNode
  root <- MCRoot
  MaxCalls = 2
  InitKeys = {2, 3}
  MaxNode = 4
SPECIFICATION MCFairSpec
ACTION_CONSTRAINT LowestFirst
PROPERTIES Linearizable EveryCallReturns
