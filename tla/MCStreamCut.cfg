SPECIFICATION Spec
CONSTANTS
  RxMax = 12
  BlockQueueLen = 2
  InputQueueLen = 2
  NOutputs = 1
  MaxTold = 1
  MaxCuts = 1
  MaxEnds = 0
INVARIANTS
  UpdatesCompleteAnyway
CHECK_DEADLOCK FALSE
