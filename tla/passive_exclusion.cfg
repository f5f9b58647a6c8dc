SPECIFICATION Spec
CONSTANTS
  Clients = {x, y, z}
  MaxSessions = 4
  MaxCalls = 4
  None = None
INVARIANT RegionIsExclusive
