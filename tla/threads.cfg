CONSTANTS
  Threads = {m, t, u, v}
  Main = m
  None = None
SPECIFICATION FairSpec
INVARIANTS
  DanglingOnlyWhenOutlived
  LastOneFrees
PROPERTIES
  JoinsWait
  JoinsReturn
