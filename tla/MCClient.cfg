SPECIFICATION Spec
CONSTANTS
  MaxSockets = 3
  OutputQueueLen = 2
  MaxCommands = 3
  MaxFlaps = 3
  MaxFaults = 2
INVARIANTS
  TypeOK
  ClientRunsIffOnline
PROPERTIES
  CommandsInOrder
  Reconnects
  LossShown
  RecoveryShown
  CommandsLeave
CHECK_DEADLOCK FALSE
