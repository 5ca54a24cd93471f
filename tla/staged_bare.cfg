SPECIFICATION Spec
CONSTANTS
  v1 = v1
  Targets = {t1}
  Volumes = {v1}
  VolumeOf <- OneVolume
  Calls = {h1}
  NoTarget = NoTarget
  NoVolume = NoVolume
  MaxCrashes = 1
  Strays = {"detach", "daemon"}
INVARIANTS
  PublishedIsBacked
