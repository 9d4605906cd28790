SPECIFICATION Spec
CONSTANTS
  Blocks = {b1, b2}
  Procs = {p1, p2}
  NoProc = NoProc
  Overlap = "any"
  Faults = {}
  MaxWrites = 2
  MaxRuns = 2
INVARIANT NoLostWriteOverlap
CHECK_DEADLOCK FALSE
