\* Roles are set, then a factory reset.
SPECIFICATION Spec
CONSTANTS
  Ports = {p1, p2}
  KeyPort = p1
  Data = {v1}
  Zero = zero
  Default = default
  Erased = erased
  Mixed = mixed
  SaveAfter = 1
  Budgets <- SetAndReset
PROPERTIES ResetForgets
