\* Two fields, their inputs and those of two refreshes before; three events among
\* what the user does, calls that fail and what others change; two calls at a time.
SPECIFICATION Spec
CONSTANTS
  Ifaces = {wan, lan}
  Widgets = {1, 2, 3, 4, 5, 6}
  None = None
  NoCost = NoCost
  Blank = Blank
  NaN = NaN
  MaxCost = 2
  Texts <- MCTexts
  Routers <- MCRouters
  RemovalBlurs = {TRUE, FALSE}
  MaxEvents = 3
  MaxCalls = 2
CHECK_DEADLOCK FALSE
INVARIANT PollOff
INVARIANT PollBack
INVARIANT CostKept
PROPERTY NotWhileTyping
PROPERTY Converges
