\* A delayed request accepted while the last one is being sent.
SPECIFICATION TwoSpec
CONSTANTS
  N = 2
  Clients = {udp}
  Udp = udp
  MsTypes <- NoMasters
  Reboots <- NoReboots
  BootImages <- AllOff
  BootRelays <- NoRelays
  Load <- OneEach
  Limit = 1
  ConfirmCount = 1
  Warmup = 0
  Cap = 1
  Budgets <- NoBudget
  Requests <- OneOfEach
  MaxAge = 2
  MaxAsks = 2
PROPERTIES RequestIsApplied
