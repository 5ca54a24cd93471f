SPECIFICATION LiveSpec
CONSTANTS
  w1 = w1
  Pods = {p1, p2}
  NoPod = NoPod
  Workloads = {w1}
  WorkloadOf <- OneWorkload
  Skipped = {}
  Restarts = {"container"}
  Faults = {"read", "owner", "annotate"}
  MaxRuns = 2
  MaxCrashes = 1
PROPERTIES
  ScanReturns
  CorruptedRecovered
CHECK_DEADLOCK FALSE
