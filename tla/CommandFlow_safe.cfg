SPECIFICATION Spec
CONSTANTS
  Commands = {1}
  Digests = {d1, d2}
  Retention = 2
  SyncMayFail = TRUE
  None = None
  ReadDeadline = 0
  RedeliveryWindow = 1
  PowerMayFail = FALSE
  MaxTime = 3
  MaxFaults = 2
  d1 = d1
  d2 = d2
  ExpiresAt <- ExpiryLast
INVARIANTS
  OneResult
  AcknowledgedReachedCenter
  NoDuplicateExecution
  StoreCallsMatch
  MemoryNeverAhead
  ResultStaysOnDisk
