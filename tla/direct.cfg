SPECIFICATION Spec
CONSTANTS
  v1 = v1
  Targets = {t1}
  Volumes = {v1}
  VolumeOf <- OneVolume
  Calls = {h1, h2}
  NoTarget = NoTarget
  LockTries = 3
  MaxCrashes = 3
  Strays = {"detach", "daemon"}
SYMMETRY CallSymmetry
INVARIANTS
  TypeOK
  LockExclusive
  MountOntoDirectory
  UnpublishedIsClean
  NoUnownedMount
  SectionsPresent
  PublishedIsServed
PROPERTY ContractKept
