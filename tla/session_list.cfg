SPECIFICATION Spec
CONSTANTS
  Sessions = {s1, s2, s3, s4, s5}
  None = None
CHECK_DEADLOCK FALSE
INVARIANTS
  TypeOK
  ForwardLinks
  BackwardLinks
  KeptAlive
