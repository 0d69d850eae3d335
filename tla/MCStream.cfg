SPECIFICATION Spec
CONSTANTS
  RxMax = 14
  BlockQueueLen = 2
  InputQueueLen = 1
  NOutputs = 2
  MaxTold = 4
  MaxCuts = 2
  MaxEnds = 1
INVARIANTS
  TypeOK
  NoInvention
  UpdatesComplete
PROPERTIES
  InOrder
CHECK_DEADLOCK FALSE
