SPECIFICATION FairSpec
CONSTANTS
  NPanels = 2
  MaxCode = 6
  INPUT_DEBOUNCE_LOOP_COUNT = 3
  CounterMod = 5
  InputQueueLen = 1
  MaxFailures = 2
  MaxTouches = 1
INVARIANTS
  TypeOK
  CountsMatchSamples
PROPERTIES
  DetectsPresses
  PressesEnd
