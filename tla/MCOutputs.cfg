SPECIFICATION FairSpec
CONSTANTS
  Writers = {"input_logic_task", "tcp_client_loop"}
  Doomed = {"tcp_client_loop"}
  Fields = {"led_panel_1", "ethernet_fail_led"}
  Values = {0, 1}
  NRegs = 3
  RegsOf <- DeskRegsOf
  WriteFailures = TRUE
  MaxWrites = 3
  MaxDips = 1
INVARIANTS
  TypeOK
  OneHolder
  RefreshProgress
  MirrorsAtRest
PROPERTIES
  OutputsFollow
  WritersServed
