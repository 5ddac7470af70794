SPECIFICATION FairSpec
CONSTANTS
  s1 = s1  s2 = s2
  Sessions <- OneSession
  Requests <- AllRequests
  Ports <- MCPorts
  ForeignPorts <- MCForeignPorts
  NodeStartPort = 9944
  AdapterStartPort = 8545
  MaxPortAttempts = 2
  MaxAttempts = 2
  MaxDeaths = 1
  Unset = Unset
  Nobody = Nobody
  Foreign = Foreign
CHECK_DEADLOCK FALSE
INVARIANTS TypeOK WorksOnlyWhenUp TestServicesHaveOwnPorts AdapterPointsAtNode TestsReachOwnAdapter StopLeavesNothing
PROPERTIES EverySessionSettles
