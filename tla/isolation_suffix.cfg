SPECIFICATION Spec
CONSTANTS
  v1 = v1
  v2 = v2
  Volumes = {v1, v2}
  Configs <- Tricky
  Override <- OnePrefix
  Sanitised <- Underscored
  NoOverride = NoOverride
  NoConfig = NoConfig
  MaxCrashes = 1
  MaxHalves = 1
INVARIANT ReadsOwnConfig
