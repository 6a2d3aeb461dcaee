CONSTANTS
  c1 = c1
  c2 = c2
  Calls <- TwoCalls
  Requests <- ConfirmRequests
  Configs <- NoConfigs
  StrictClock = FALSE
SPECIFICATION Spec
CHECK_DEADLOCK FALSE
INVARIANT ConfirmedBeforeRunning
