SPECIFICATION Spec
CONSTANTS
  v1 = v1
  Targets = {t1, t2}
  Volumes = {v1}
  VolumeOf <- OneVolume
  Calls = {h1, h2}
  NoTarget = NoTarget
  LockTries = 1
  MaxCrashes = 0
  Strays = {}
INVARIANT SectionsPresent
