SPECIFICATION FairSpec
CONSTANTS
  c1 = c1  c2 = c2  c3 = c3
  Calls <- ThreeCalls
  Kinds <- AllKinds
  User = User
  Parent = Parent
  Simulator = Simulator
CHECK_DEADLOCK FALSE
INVARIANTS TypeOK ServedWhileRunning ServersStop MarkMeansRunning
PROPERTIES EveryCallSettles
