SPECIFICATION Spec
CONSTANTS
  w1 = w1
  Pods = {p1}
  NoPod = NoPod
  Workloads = {w1}
  WorkloadOf <- OneWorkload
  Skipped = {}
  Restarts = {"pod", "container"}
  Faults = {"list", "lookup", "owner", "delete", "annotate", "read", "end"}
  MaxRuns = 3
  MaxCrashes = 1
INVARIANTS
  TypeOK
  MissedIsKnown
PROPERTY LivePathKept
CHECK_DEADLOCK FALSE
