CONSTANTS
  FANOUT = 2
  MaxKey = 6
  MaxNode = 14
  Record = {a}
  Cursor = {c}
  Ops <- AllOps
  NULL = NULL
  END = END
  Key <- MCKey
  Node <- MCNode
SPECIFICATION Spec
PROPERTY PreviousIsPredecessor
