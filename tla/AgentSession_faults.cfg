SPECIFICATION FairSpec
CONSTANTS
  SyncTries = 4
  ThawTries = 2
  Faults = {"timeout", "sync_timeout", "lost", "refuse", "kill"}
  MaxSessions = 3
INVARIANT InStep
INVARIANT FrozenSnapshotInTime
INVARIANT ThawedAtEnd
PROPERTY ImplementsCalls
PROPERTY SessionEnds
CHECK_DEADLOCK FALSE
