\* Two processes, two interfaces, four configurations, three events.
SPECIFICATION Spec
CONSTANTS
  Procs = {"p1", "p2"}
  Names = {"a", "b"}
  Fams = {4, 6}
  Prefs = {101, 102}
  Tables = {201, 202}
  Spellings = {"default", "0/0", "lan4"}
  Family <- MCFamily
  Key <- MCKey
  Configs <- MCConfigs
  BootConfigs <- MCBootConfigs
  None = None
  MaxEvents = 3
CHECK_DEADLOCK FALSE
INVARIANT Settled
PROPERTY NoWindow
PROPERTY ReloadsEnd
