SPECIFICATION FairSpec
CONSTANTS
  r1 = r1
  r2 = r2
  r3 = r3
  None = None
  Releases = {r1, r2, r3}
  Requests <- Upgrades
  MaxProcesses = 3
  MaxRetries = 1
  StopMayFail = TRUE
  MaxFaults = 3
INVARIANTS
  OneProcess
  NoneSurvivesClose
  ReleasesRetained
  ServedIsReported
  SupervisedUnlessStopFailed
PROPERTIES
  Recovers
  ImplementsPluginContract
