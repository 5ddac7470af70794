SPECIFICATION Spec
CONSTANTS
  s1 = s1  s2 = s2
  Sessions <- TwoSessions
  Requests <- MeetingRequests
  Ports <- MCPorts
  ForeignPorts = {}
  NodeStartPort = 9944
  AdapterStartPort = 8545
  MaxPortAttempts = 2
  MaxAttempts = 1
  MaxDeaths = 1
  Unset = Unset
  Nobody = Nobody
  Foreign = Foreign
CHECK_DEADLOCK FALSE
INVARIANTS StopLeavesNothing
PROPERTIES LostContainerIsNoticed
