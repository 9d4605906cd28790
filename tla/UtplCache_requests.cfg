SPECIFICATION Spec
CONSTANTS
  RootFiles = {index_ut}
  SubFiles = {page, lib}
  Templates = {index_ut, page}
  Module = lib
  None = None
  QueueMax = 2
  Faults = {"limit", "same_stamp", "no_plugin"}
  MaxChanges = 3
INVARIANT Fresh
INVARIANT FreshByStamp
INVARIANT Announced
CHECK_DEADLOCK FALSE
