\* Two calls in flight, three changes or failures; 1040 graphs.
SPECIFICATION Spec
CONSTANTS
  NoAs = NoAs
  None = None
  Pending = Pending
  Down = Down
  Protos = {"o1", "o2"}
  Reports <- MCReports
  FixedReports <- MCFixedReports
  MaxCalls = 2
  MaxEvents = 3
CHECK_DEADLOCK FALSE
INVARIANT PageMatches
INVARIANT OneReply
INVARIANT GraphRight
PROPERTY Settles
