SPECIFICATION FairSpec
CONSTANTS
  site = site
  inspect = inspect
  validate = validate
  proxmox = proxmox
  docker = docker
  Command = {site, inspect, validate}
  LockClass <- MCLockClass
  Consumes <- MCConsumes
  UsesSsh = {site, inspect}
  Collection = {proxmox}
  Role = {docker}
  Version = {1, 2}
  None = None
  MaxStarts = 3
  MaxFaults = 1
  MaxCommits = 1
INVARIANTS
  PlaybookHasItsPins
  OneInstaller
PROPERTIES
  EveryCommandEnds
CHECK_DEADLOCK FALSE
