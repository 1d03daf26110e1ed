SPECIFICATION FairSpec
CONSTANTS
  b0 = b0
  b1 = b1
  b2 = b2
  None = None
  Binaries = {b0, b1, b2}
  VersionOf <- Versions
  Installed = b0
  Healthy = {b0, b1}
  Commands = {1, 2, 3}
  Target <- Back
  Retained = 0
  SyncMayFail = FALSE
  MaxFaults = 1
INVARIANTS ConfirmedAfterHeartbeat UnprovenIsPending TargetsInstalled StatesMatchCurrent
PROPERTIES NoRollbackOfConfirmed PendingResolves EveryUpdateAnswered
