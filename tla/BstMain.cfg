CONSTANTS
  Main = Main
  Worker = Worker
  Thread = {Main, Worker}
  Key = {1, 3, 4}
  three = three
  one = one
  four = four
  ONE = ONE
  ONE_FROM_THREAD = ONE_FROM_THREAD
  Value = {three, one, four, ONE, ONE_FROM_THREAD}
  NULL = NULL
  INT_MIN = 1
  INT_MAX = 4
  Node <- MCNode
  root <- MCRoot
  MaxNode = 7
  MaxCalls = 4
SPECIFICATION MSpec
ACTION_CONSTRAINT LowestFirst
INVARIANTS MTypeOK FreeAlone JoinedContents AllFreed
PROPERTIES MainEnds
