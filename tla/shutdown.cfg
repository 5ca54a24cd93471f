SPECIFICATION ShutdownLiveSpec
CONSTANTS
  Targets = {t1}
  Volumes = {t1}
  VolumeOf <- OwnVolume
  Calls = {h1, h2}
  NoTarget = NoTarget
  LockTries = 1
  MaxCrashes = 2
  Strays = {"detach", "daemon"}
INVARIANTS
  ShutdownTypeOK
  SweepComplete
  UnpublishedIsClean
  ServedUntilSwept
PROPERTIES
  CallAnswered
  LockReleased
