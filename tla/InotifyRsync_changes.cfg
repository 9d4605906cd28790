\* A root and a subdirectory, two changes, two kills, failures or one-shot runs.
SPECIFICATION IRSpec
CONSTANTS
  Dirs = {"root", "sub"}
  Root = "root"
  NoFile = NoFile
  Empty = Empty
  QueueSize = 1
  MaxVersion = 2
  MaxEvents = 2
CHECK_DEADLOCK FALSE
INVARIANT NothingForgotten
PROPERTY CountersGrow
PROPERTY BackInLoop
