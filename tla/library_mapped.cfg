SPECIFICATION FairSpec
CONSTANTS
  BUFFERSIZE = 2
  Capacity = 5
  MaxDepth = 1
  Unreliable = TRUE
INVARIANT WholeMessage
