SPECIFICATION FairSpec
CONSTANTS
  Waiters = {w}
  Timed = TRUE
  MaxWaits = 2
  MaxBroadcasts = 2
CHECK_DEADLOCK FALSE
PROPERTY BroadcastUnblocks
