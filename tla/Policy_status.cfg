SPECIFICATION Spec
CONSTANTS
  a1 = a1
  p1 = p1
  p2 = p2
  s1 = s1
  s2 = s2
  None = None
  Authorizations = {a1}
  Plugins = {p1}
  Sources = {}
  Snapshots <- Expiring
  PeriodLength = 1
  Window = 1
  BlockTime = 1
  Capacity = 2
  CapabilitySets = {{"traffic", "control"}}
  PageSize = 1
  MaxPages = 2
  StoreMayFail = FALSE
  MaxTime = 1
  MaxBytes = 0
  MaxEvents = 0
  MaxFaults = 0
INVARIANT StatusAfterApply
