SPECIFICATION DeskSpec
CONSTANTS
  NPanels = 2
  NButtons = 2
  NDests = 3
  InputQueueLen = 2
  OutputQueueLen = 2
  Inputs = {1, 2, 3, 4, 5}
  OtherDests = {0}
  MaxPresses = 2
  MaxExternal = 1
  MaxFaults = 1
  LineLoss = TRUE
  Restarts = TRUE
  settings <- DeskSettings
  PostedMessages <- DeskPresses
  InitialRoutes <- InStep
INVARIANTS
  TypeOK
  UsbFollowsScreens
  LedAgreesWithCache
  DeskTypeOK
  LedsShowRoutes
  UsbShowsListedRoutes
  SwitchedDestsFollow
CHECK_DEADLOCK FALSE
