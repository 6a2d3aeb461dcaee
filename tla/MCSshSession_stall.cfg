CONSTANTS
  u1 = u1
  u2 = u2
  w1 = w1
  None = None
  Connector = Connector
  Users <- TwoUsers
  Writers <- OneWriter
  MayStall = TRUE
SPECIFICATION FairSpec
CHECK_DEADLOCK FALSE
PROPERTY DisconnectReturns
