SPECIFICATION Spec
CONSTANTS
  a = a
  b = b
  Ifaces = {a, b}
  None = None
  Procs = {p1, p2}
  CostArgs = {0, 1, 2}
  Texts <- MCTexts
  Faults = {"edit", "sighup", "forget", "down", "cut", "kill", "full"}
  MaxCalls = 2
  MaxEvents = 2
INVARIANT RuntimeChecked
PROPERTY Applies
PROPERTY CarriedOver
INVARIANT LockHeld
CHECK_DEADLOCK FALSE
