SPECIFICATION Spec
CONSTANTS
  m = m
  a = a
  b = b
  c = c
  None = None
  Regions <- ThreeCallees
  Main = m
  Blocks <- ThreeCalleesBlocks
  MaxSessions = 4
  MaxCalls = 1
  CallKinds = {"async", "sync"}
  TimedWait = TRUE
INVARIANTS
  OnlyFirstRuns
  AtomicAccess
  RingIsQueued
  FirstSessionRemains
  ExitIsFinal
  SleepsOnlyOverMultisessions
