SPECIFICATION FairSpec
CONSTANTS
  media = media
  web = web
  Stack = {media, web}
  Sources <- MCSources
  NoStack = NoStack
  Namesake = media
  MaxFaults = 1
  MaxCommits = 1
INVARIANTS
  BusyWorkSurvives
  SuccessIsDeployed
PROPERTIES
  DeferredIsUntouched
  OthersAreLeftAlone
  Converges
