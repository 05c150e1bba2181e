SPECIFICATION Spec
CONSTANTS
  rot1 = rot1
  rot2 = rot2
  set1 = set1
  Rotation = {rot1, rot2}
  Mutation = {set1}
  FirstKey = FirstKey
  NoKey = NoKey
  NoCiphertext = NoCiphertext
  MaxFaults = 3
INVARIANTS
  SecretsSurvive
  ChangesSurvive
PROPERTY
  OutcomeIsTrue
\* Every operation ends and none is made again.
CHECK_DEADLOCK FALSE
