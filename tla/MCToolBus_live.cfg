CONSTANTS
  c1 = c1
  c2 = c2
  Calls <- TwoCalls
  Requests <- TwoKinds
  Configs <- NoConfigs
  StrictClock = TRUE
SPECIFICATION FairSpec
CHECK_DEADLOCK FALSE
PROPERTIES
  CancelledReturns
  AnswerReturns
  ImplementsGate
