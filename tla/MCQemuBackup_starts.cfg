SPECIFICATION Spec
CONSTANTS
  Blocks = {b1, b2}
  Procs = {p1, p2}
  NoProc = NoProc
  Overlap = "start"
  Faults = {"exit", "stop", "respawn", "kill", "timeout", "agent_timeout", "thaw_fail", "offline_fail", "unlink_fail", "late"}
  MaxWrites = 1
  MaxRuns = 2
SYMMETRY Symmetry
INVARIANT TypeOK
INVARIANT PointInTimeDuringStart
CHECK_DEADLOCK FALSE
