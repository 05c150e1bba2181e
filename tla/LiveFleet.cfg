SPECIFICATION Spec
CONSTANTS
  n1 = n1
  n2 = n2
  r1 = r1
  r2 = r2
  r3 = r3
  Node = {n1, n2}
  Run = {r1, r2, r3}
  NodeOf <- MCFleetNodeOf
  Class <- MCFleetClass
  NoRun = NoRun
  MaxFaults = 2
INVARIANTS
  LocalExclusion
  SupervisedHolderIsNameable
  FleetExclusion
  NoLockOutlivesItsRun
PROPERTIES
  RefusedRunStartsNothing
  GateSpec
\* Every invocation ends and none is made again.
CHECK_DEADLOCK FALSE
