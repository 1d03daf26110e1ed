SPECIFICATION Spec
CONSTANTS
  a1 = a1
  p1 = p1
  p2 = p2
  s1 = s1
  s2 = s2
  None = None
  Authorizations = {a1}
  Plugins = {p1}
  Sources = {s1, s2}
  Snapshots <- OneAddress
  PeriodLength = 2
  Window = 1
  BlockTime = 1
  Capacity = 2
  CapabilitySets = {{"traffic", "control"}, {"traffic", "control", "activity", "blocking"}}
  PageSize = 1
  MaxPages = 2
  StoreMayFail = FALSE
  MaxTime = 1
  MaxBytes = 0
  MaxEvents = 2
  MaxFaults = 1
SYMMETRY Addresses
INVARIANTS NoEventSkipped SoftLimit AppliedIsTrue
