SPECIFICATION Spec
CONSTANTS
  Regions = {m, a, b}
  Main = m
  MaxSessions = 4
  MaxFrames = 4
  MaxOpens = 1
  MaxCalls = 1
  None = None
CHECK_DEADLOCK FALSE
INVARIANTS
  OneChainPerRegion
  CallbacksRecognized
  OpenIsLocked
  NoSelfWait
PROPERTY CallsReturnLocks
