SPECIFICATION FairSpec
CONSTANTS
  alice = alice
  automation = automation
  User = {alice, automation}
  Email = {1, 2}
  ApiUser = automation
  Nobody = Nobody
  MaxChanges = 2
  MaxFaults = 1
INVARIANTS
  CleanPassIsEnough
PROPERTIES
  Converges
