SPECIFICATION FairSpec
CONSTANTS
  n1 = n1
  n2 = n2
  r1 = r1
  r2 = r2
  r3 = r3
  Node = {n1, n2}
  Run = {r1, r2}
  NodeOf <- MCPairNodeOf
  Class <- MCPairClass
  NoRun = NoRun
  MaxFaults = 2
PROPERTIES
  RunEnds
  FleetLockIsFreed
\* Every invocation ends and none is made again.
CHECK_DEADLOCK FALSE
