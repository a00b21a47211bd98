CONSTANTS
  L = 2
  Char = {0, 1}
  Value = {a, b}
  NULL = NULL
  Overrun = Overrun
  rootNode = 0
  MaxNode = 2
  KVNode <- MCNode
  Key <- TrieKeys
SPECIFICATION TFairSpec
INVARIANTS TypeOK NoAssertFails TrieShape IInv PortIsMap FirstIsLeast
PROPERTIES ImplementsMap CountsNewKeys EveryCallReturns
