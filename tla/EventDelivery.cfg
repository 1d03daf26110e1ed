SPECIFICATION FairSpec
CONSTANTS
  p1 = p1
  p2 = p2
  Payloads = {p1, p2}
  Size <- MixedSizes
  MaxBytes = 6
  MaxEvents = 3
  BatchBytes = 3
  BatchEvents = 2
  MaxSequence = 4
  None = None
  MaxFaults = 2
INVARIANTS NoEventLost OneEventPerSequence Accounting AcknowledgeAccepts
PROPERTIES QueueDrains ImplementsChannel
