CONSTANTS
  FANOUT = 2
  MIDDLE <- MCMiddle
  MaxKey = 6
  MaxNode = 14
  Record = {a, b}
  NULL = NULL
  END = END
  Handle = cursor
  Key <- MCKey
  Node <- MCNode
SPECIFICATION MCSpec
INVARIANTS WellFormed CursorComplete
PROPERTY SortedMapButDepartures
