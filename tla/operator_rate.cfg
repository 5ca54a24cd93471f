SPECIFICATION Spec
CONSTANTS
  w1 = w1
  Pods = {p1, p2}
  NoPod = NoPod
  Workloads = {w1}
  WorkloadOf <- OneWorkload
  Skipped = {}
  Restarts = {"pod"}
  Faults = {}
  MaxRuns = 2
  MaxCrashes = 0
INVARIANT OneDeletePerHour
CHECK_DEADLOCK FALSE
