CONSTANTS
  NULL = NULL
  OuterAttrs <- MCOuterAttrs
  InnerAttrs <- MCInnerAttrs
  OuterJoinAttrs <- MCJoinAttrs
  InnerJoinAttrs <- MCJoinAttrs
  OuterKey = 0
  InnerKey = 2
  OuterData <- MCOuterData
  InnerData <- MCInnerData
  Join = {j1, j2}
  Rounds = 2
SPECIFICATION MCSpec
INVARIANTS IndexGroups JoinMatches NoRowTwice JoinOfDistinct
PROPERTIES CursorKeepsItsPair
\* Every scan comes to its end, and the client then stops.
CHECK_DEADLOCK FALSE
