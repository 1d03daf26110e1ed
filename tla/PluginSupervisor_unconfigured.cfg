SPECIFICATION Spec
CONSTANTS
  r1 = r1
  r2 = r2
  r3 = r3
  None = None
  Releases = {r1, r2, r3}
  Requests <- Upgrades
  MaxProcesses = 3
  MaxRetries = 1
  StopMayFail = FALSE
  MaxFaults = 2
INVARIANT ServedIsConfigured
