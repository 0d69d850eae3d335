SPECIFICATION Spec
CONSTANTS
  MaxSockets = 2
  OutputQueueLen = 1
  MaxCommands = 1
  MaxFlaps = 2
  MaxFaults = 0
PROPERTIES
  ReconnectsAnyway
CHECK_DEADLOCK FALSE
