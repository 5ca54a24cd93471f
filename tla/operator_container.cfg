SPECIFICATION LiveSpec
CONSTANTS
  w1 = w1
  Pods = {p1}
  NoPod = NoPod
  Workloads = {w1}
  WorkloadOf <- OneWorkload
  Skipped = {}
  Restarts = {"container"}
  Faults = {}
  MaxRuns = 2
  MaxCrashes = 0
PROPERTIES
  StaleBindRecovered
CHECK_DEADLOCK FALSE
