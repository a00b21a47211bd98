\* Two mappings of nine words, or one large block in place of either.
CONSTANTS
  WORD = 2
  ALIGN = 2
  BINS = 2
  BIGBLOCK = 18
  Addr <- MCAddr
  Base <- MCBase
  Request <- MCRequest
  Word <- MCWord
SPECIFICATION MCSpec
INVARIANTS IInv NothingLost
PROPERTIES ImplementsAllocator
