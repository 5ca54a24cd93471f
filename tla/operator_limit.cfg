SPECIFICATION Spec
CONSTANTS
  w1 = w1
  Pods = {p1, p2}
  NoPod = NoPod
  Workloads = {w1}
  WorkloadOf <- OneWorkload
  Skipped = {}
  Restarts = {"pod"}
  Faults = {"owner", "delete", "annotate"}
  MaxRuns = 2
  MaxCrashes = 1
INVARIANT OncePerLoop
CHECK_DEADLOCK FALSE
SYMMETRY Symmetry
