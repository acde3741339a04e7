SPECIFICATION FairSpec
CONSTANTS
  Delay = 2
  CountMod = 4
  K = 2
  BlockSum <- MCBlockSum
  SumOf <- MCSumOf
  SumMod = 4
  Networks = {n1, n2}
  Budgets <- MCBudgets
INVARIANTS TypeOK NotEarly UdpHandsOverWhole ResetLeadsToSmartLink AcceptedPends MixedOnlyIfOverwritten
PROPERTIES AcceptedRuns UpdateInstalls AcceptedIsJoined NewMacIsSet
