CONSTANTS
  L = 2
  Char = {0, 1}
  Value = {a, b}
  NULL = NULL
  rootNode = 0
  MaxNode = 2
  KVNode <- MCNode
  Key <- PairKeys
SPECIFICATION Spec
PROPERTY OthersKept
