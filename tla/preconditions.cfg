SPECIFICATION FairSpec
CONSTANTS
  r1 = r1
  r2 = r2
  fill = fill
  drain = drain
  both = both
  owner = owner
  None = None
  Regions <- MCRegions
  Clients <- MCClients
  Args <- MCArgs
  Outer <- MCOuter
  Wanted <- MCWanted
  Rounds <- MCRounds
INVARIANTS
  BodyMeetsPrecondition
  NoFreedPrecondition
  NoIdleWakeups
  WaitsForOthers
PROPERTY EverybodyFinishes
