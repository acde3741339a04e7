\* A port is renamed, then the power fails.
SPECIFICATION Spec
CONSTANTS
  Ports = {p1, p2}
  KeyPort = p1
  Data = {v1}
  Zero = zero
  Default = default
  Erased = erased
  Mixed = mixed
  SaveAfter = 1
  Budgets <- SetAndName
PROPERTIES NameIsKept
