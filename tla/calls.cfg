SPECIFICATION FairSpec
CONSTANTS
  Clients = {c1, c2}
  MaxSessions = 2
  MaxCalls = 2
  None = None
INVARIANTS
  SynchronousCallsWait
  ExceptionsReachTheirClient
  CleanBetweenSessions
  DirtyCallsIgnored
  SignalIsExpected
  FreedIsFinished
PROPERTY EverybodyFinishes
