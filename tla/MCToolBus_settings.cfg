CONSTANTS
  c1 = c1
  c2 = c2
  Calls <- TwoCalls
  Requests <- MixedRequests
  Configs <- SomeConfigs
  StrictClock = TRUE
SPECIFICATION Spec
SYMMETRY CallSymmetry
INVARIANTS
  TypeOK
  ConfirmedBeforeRunning
  HighRiskNeedsRelaxedGuard
  FirstAnswerWins
  PendingExact
