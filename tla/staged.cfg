SPECIFICATION Spec
CONSTANTS
  v1 = v1
  Targets = {t1}
  Volumes = {v1}
  VolumeOf <- OneVolume
  Calls = {h1, h2, h3}
  NoTarget = NoTarget
  NoVolume = NoVolume
  MaxCrashes = 2
  Strays = {"detach", "daemon"}
SYMMETRY CallSymmetry
INVARIANTS
  TypeOK
  KeysExclusive
  StageOntoDirectory
  NoUnstageUnderPublish
  NoUnownedStage
  UnstagedIsClean
  PublishedIsBound
PROPERTIES
  ContractKept
