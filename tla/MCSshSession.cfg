CONSTANTS
  u1 = u1
  u2 = u2
  w1 = w1
  None = None
  Connector = Connector
  Users <- TwoUsers
  Writers <- OneWriter
  MayStall = FALSE
SPECIFICATION FairSpec
CHECK_DEADLOCK FALSE
INVARIANTS
  TypeOK
  NoOrphanClient
  NothingLeftOpen
PROPERTIES
  LossIsNoticed
  EndIsTold
  DisconnectReturns
