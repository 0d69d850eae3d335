SPECIFICATION FairDeskSpec
CONSTANTS
  NPanels = 2
  NButtons = 2
  NDests = 3
  InputQueueLen = 2
  OutputQueueLen = 2
  Inputs = {1, 2, 3, 4, 5}
  OtherDests = {}
  MaxPresses = 2
  MaxExternal = 0
  MaxFaults = 1
  LineLoss = TRUE
  Restarts = TRUE
  settings <- DeskSettings
  PostedMessages <- ButtonPresses
  InitialRoutes <- InStep
INVARIANTS
  LastPressStands
PROPERTIES
  Settles
CHECK_DEADLOCK FALSE
