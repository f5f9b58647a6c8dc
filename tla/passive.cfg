SPECIFICATION FairSpec
CONSTANTS
  Clients = {x, y, z}
  MaxSessions = 3
  MaxCalls = 3
  None = None
INVARIANTS
  
  QueuedIsCounted
  RemovedIsFinished
PROPERTY WaitersServed
