SPECIFICATION Spec
CONSTANTS
  m = m
  a = a
  b = b
  c = c
  None = None
  Regions <- TwoClients
  Main = m
  Blocks <- TwoClientsBlocks
  MaxSessions = 4
  MaxCalls = 1
  CallKinds = {"async", "sync"}
  TimedWait = TRUE
INVARIANT NoDanglingRead
