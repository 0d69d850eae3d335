SPECIFICATION Spec
CONSTANTS
  Pulse = 2
  Attempts = 3
  MaxCalls = 3
  MaxMisses = 0
  MaxSwitches = 0
INVARIANTS
  RelayFollowsAnyway
CHECK_DEADLOCK FALSE
