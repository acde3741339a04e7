\* A port is switched once.
SPECIFICATION FairSpec
CONSTANTS
  Ports = {p1, p2}
  KeyPort = p1
  Data = {v1}
  Zero = zero
  Default = default
  Erased = erased
  Mixed = mixed
  SaveAfter = 1
  Budgets <- OneSwitch
PROPERTIES SavingEnds
