SPECIFICATION FairSpec
CONSTANTS
  Steps <- MCSteps
  Flow = {"flow"}
  FlowUser <- MCFlowUser
  Nav = "nav"
  NavPolicy = "approval"
  Needs <- MCNeeds
  Wants <- MCWants
  Stranger = "stranger"
  PK = {1, 2, 3, 4, 5, 6}
  Hashed <- MCHashed
  Listed <- MCListed
  Initial <- MCInitial
  NoPk = 0
  NoInstance = NoInstance
  MaxFaults = 1
INVARIANTS
  SuccessIsTrue
  PrerequisitesFirst
  CleanRunSucceeds
  OneInstancePerName
PROPERTY
  Converges
