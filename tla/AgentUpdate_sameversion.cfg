SPECIFICATION Spec
CONSTANTS
  b0 = b0
  b1 = b1
  b2 = b2
  None = None
  Binaries = {b0, b1, b2}
  VersionOf <- SameVersion
  Installed = b0
  Healthy = {b0, b1}
  Commands = {1, 2}
  Target <- Forward
  Retained = 1
  SyncMayFail = FALSE
  MaxFaults = 1
INVARIANTS ConfirmedAfterHeartbeat
