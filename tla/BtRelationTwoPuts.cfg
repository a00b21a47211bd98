CONSTANTS
  FANOUT = 2
  MaxKey = 5
  MaxNode = 14
  Record = {a}
  Cursor = {c, d}
  Ops <- TwoPutOps
  NULL = NULL
  END = END
  Key <- MCKey
  Node <- MCNode
SPECIFICATION Spec
INVARIANT KeysUnique
