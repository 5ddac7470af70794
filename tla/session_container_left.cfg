SPECIFICATION Spec
CONSTANTS
  s1 = s1  s2 = s2
  Sessions <- OneSession
  Requests <- DefaultTest
  Ports <- MCPorts
  ForeignPorts = {}
  NodeStartPort = 9944
  AdapterStartPort = 8545
  MaxPortAttempts = 2
  MaxAttempts = 1
  MaxDeaths = 0
  Unset = Unset
  Nobody = Nobody
  Foreign = Foreign
CHECK_DEADLOCK FALSE
INVARIANT ContainersEndWithProcess
