SPECIFICATION MCSpec
CONSTANTS
  NPanels = 4
  NButtons = 6
  NDests = 40
  Files <- MCFiles
  BOOT_WAIT = 20
  PSU_ON_WAIT_TICKS = 30
  REFRESH_LOOP_TICKS = 10
  portTICK_PERIOD_MS = 10
  INPUT_DEBOUNCE_LOOP_COUNT = 3
  MaxTouches = 2
INVARIANTS
  TypeOK
  SettingsMatchFile
  OthersKeepFallback
  CreatedBeforeUse
  TestModeIfHeld
  TestModeOnlyIfPressed
CHECK_DEADLOCK FALSE
