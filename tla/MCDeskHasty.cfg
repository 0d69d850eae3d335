SPECIFICATION DeskSpec
CONSTANTS
  NPanels = 2
  NButtons = 2
  NDests = 3
  InputQueueLen = 6
  OutputQueueLen = 2
  Inputs = {1, 2, 3, 4, 5}
  OtherDests = {}
  MaxPresses = 3
  MaxExternal = 0
  MaxFaults = 0
  LineLoss = FALSE
  Restarts = FALSE
  settings <- DeskSettings
  PostedMessages <- ButtonPresses
  InitialRoutes <- InStep
INVARIANTS
  LastPressStandsHasty
CHECK_DEADLOCK FALSE
