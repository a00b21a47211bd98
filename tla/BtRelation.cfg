CONSTANTS
  FANOUT = 2
  MaxKey = 5
  MaxNode = 11
  Record = {a, b}
  Cursor = {c}
  Ops <- AllOps
  NULL = NULL
  END = END
  Key <- MCKey
  Node <- MCNode
SPECIFICATION MCSpec
SYMMETRY Symmetry
INVARIANTS TypeOK WellFormed CursorOnPath DeletedAll
PROPERTIES PutThenPrevious SortedMapButDepartures
