SPECIFICATION FairSpec
CONSTANTS
  Pulse = 2
  Attempts = 3
  MaxCalls = 3
  MaxMisses = 2
  MaxSwitches = 2
INVARIANTS
  TypeOK
  CoilOffAtRest
  
PROPERTIES
  RelaySettles
CHECK_DEADLOCK FALSE
