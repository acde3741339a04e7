\* Every actor that switches ports, in five scenes.
SPECIFICATION SafeSpec
CONSTANTS
  N = 2
  Clients = {udp, http}
  Udp = udp
  MsTypes <- BothMsTypes
  Reboots <- BothReboots
  BootImages <- AllImages
  BootRelays <- AnyRelays
  Load <- OneEach
  Limit = 1
  ConfirmCount = 1
  Warmup = 0
  Cap = 1
  Budgets <- SafeBudgets
  Requests <- OneOfEach
  MaxAge = 2
  MaxAsks = 1
INVARIANTS TypeOK OrderStands OrderKnown OrdersWereSent RelatedType
