SPECIFICATION FairSpec
CONSTANTS
  Blocks = {b1, b2}
  Procs = {p1}
  NoProc = NoProc
  Overlap = "none"
  Faults = {"exit", "stop", "kill", "job_fail", "timeout", "agent_timeout", "thaw_fail", "offline_fail"}
  MaxWrites = 2
  MaxRuns = 3
INVARIANT NoLostWrite
PROPERTY OverlayReported
INVARIANT PointInTime
PROPERTY UnlinkMerged
PROPERTY Thawed
PROPERTY Terminates
CHECK_DEADLOCK FALSE
