SPECIFICATION FairSpec
CONSTANTS
  Commands = {1}
  Digests = {d1}
  Retention = 1
  SyncMayFail = FALSE
  None = None
  ReadDeadline = 0
  RedeliveryWindow = 0
  PowerMayFail = TRUE
  MaxTime = 1
  MaxFaults = 2
  d1 = d1
  ExpiresAt <- ExpiryNever
PROPERTIES
  EveryCommandAnswered
  EveryResultAcknowledged
  ImplementsContract
