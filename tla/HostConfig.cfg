SPECIFICATION FairSpec
CONSTANTS
  Sections <- MCSections
  ReadyTimeout = 9
  ReadyDelay = 1
  ReadyCommandTimeout = 3
  MinUseful = 1
  KillGrace = 1
  MaxFaults = 2
INVARIANTS
  RestartIsNotForgotten
  NoNeedlessRestart
  WaitIsBounded
PROPERTY
  Converges
