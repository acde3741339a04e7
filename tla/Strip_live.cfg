\* With no more input: belief and relays agree, no overload lasts, no edge of
\* the master is missed, holds end and requests are carried out.
SPECIFICATION LiveSpec
CONSTANTS
  N = 2
  Clients = {udp}
  Udp = udp
  MsTypes <- BothMsTypes
  Reboots <- BothReboots
  BootImages <- AllOff
  BootRelays <- AnyRelays
  Load <- OneEach
  Limit = 1
  ConfirmCount = 2
  Warmup = 0
  Cap = 1
  Budgets <- FairBudgets
  Requests <- OneOfEach
  MaxAge = 2
  MaxAsks = 2
PROPERTIES Converges OverloadRelieved MasterTracked HoldIsRestored QuietRequestIsApplied
