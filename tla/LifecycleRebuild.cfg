SPECIFICATION Spec
CONSTANTS
  h1 = h1
  h2 = h2
  h3 = h3
  old = old
  new = new
  Host = {h1, h2, h3}
  Self = h3
  Present = {h1, h2, h3}
  RebuildPolicy = {h1, h2}
  Destructive = {h1}
  DockerEnabled = {h2, h3}
  Desired <- MCDesired
  Rank <- MCRank
  Release = {old, new}
  Commands <- MCEvery
  MaxRuns = 1
  MaxFaults = 1
  NoHost = NoHost
  NoRelease = NoRelease
  NoPlan = NoPlan
  NoObservation = NoObservation
  NoCommand = NoCommand
INVARIANTS
  BarrierHolds
  DestructionAuthorised
  CleanRunConverges
  BusyWorkSurvives
  OwnControlNodeStaysUp
  IntentKept
PROPERTY
  FailFast
\* No run follows the last one.
CHECK_DEADLOCK FALSE
