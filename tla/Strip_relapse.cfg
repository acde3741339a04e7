\* An overloaded master port, CONFIRM_COUNT as in the code.
SPECIFICATION AllOnSpec
CONSTANTS
  N = 2
  Clients = {udp}
  Udp = udp
  MsTypes <- MasterOnly
  Reboots <- NoReboots
  BootImages <- AllOff
  BootRelays <- AnyRelays
  Load <- OneEach
  Limit = 1
  ConfirmCount = 3
  Warmup = 0
  Cap = 1
  Budgets <- CommandBudget
  Requests <- OneOfEach
  MaxAge = 2
  MaxAsks = 0
PROPERTIES OverloadRelieved
