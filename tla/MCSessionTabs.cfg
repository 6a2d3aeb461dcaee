SPECIFICATION Spec
CONSTANTS
  s1 = s1
  d1 = d1
  None = None
  SshIds <- MCSshIds
  DbIds <- MCDbIds
  Tools <- MCTools
INVARIANTS TypeOK ActiveIsOpen AgentFollows TabsMatchBackend
PROPERTY ClosedTabsGo
CHECK_DEADLOCK FALSE
