SPECIFICATION Spec
CONSTANTS
  h1 = h1
  h2 = h2
  h3 = h3
  old = old
  new = new
  Host = {h1, h2}
  Self = laptop
  Present = {h1}
  RebuildPolicy = {}
  Destructive = {h2}
  DockerEnabled = {h1}
  Desired <- MCDesired
  Rank <- MCRank
  Release = {old, new}
  Commands <- MCFullCheckProvision
  MaxRuns = 1
  MaxFaults = 2
  NoHost = NoHost
  NoRelease = NoRelease
  NoPlan = NoPlan
  NoObservation = NoObservation
  NoCommand = NoCommand
INVARIANTS
  TypeOK
  ResultsTruthful
\* No run follows the last one.
CHECK_DEADLOCK FALSE
