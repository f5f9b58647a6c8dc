SPECIFICATION FairSpec
CONSTANTS
  m = m
  a = a
  b = b
  c = c
  None = None
  Regions <- TwoClients
  Main = m
  Blocks <- ContendedBlocks
  MaxSessions = 4
  MaxCalls = 1
  CallKinds = {"async"}
  TimedWait = FALSE
INVARIANTS
  TypeOK
  SingletonsInOrder
PROPERTIES
  GrantsExclusiveAccess
  SubmittedIsServed
  ProcessEnds
