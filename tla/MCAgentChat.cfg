CONSTANTS
  r1 = r1
  r2 = r2
  s1 = s1
  s2 = s2
  None = None
  Runs <- TwoRuns
  Sessions <- TwoSessions
  SessionOf <- OneEach
  MaxTurns = 2
  MaxCalls = 1
SPECIFICATION FairSpec
INVARIANTS
  TypeOK
  AtMostOneLateStep
  StopIsReported
  LoneRunIsStoppable
PROPERTY CancelledEnds
