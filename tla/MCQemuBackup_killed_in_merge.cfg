SPECIFICATION Spec
CONSTANTS
  Blocks = {b1, b2}
  Procs = {p1}
  NoProc = NoProc
  Overlap = "none"
  Faults = {"kill", "late", "stop"}
  MaxWrites = 2
  MaxRuns = 2
PROPERTY MergeKeepsWrites
CHECK_DEADLOCK FALSE
