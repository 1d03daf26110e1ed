SPECIFICATION FairSpec
CONSTANTS
  Size = 4
  None = None
  MaxFaults = 4
INVARIANTS ReturnedIsArtifact ReturnedIsDurable
PROPERTIES Completes
