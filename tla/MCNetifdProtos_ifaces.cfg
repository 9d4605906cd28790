\* A dummy and two tunnels; two reconfigurations, ifdowns, faults and kills.
SPECIFICATION Spec
CONSTANTS
  Dummies = {"dummy"}
  Tunnels = {"gre", "tnl"}
  Gre = {"gre"}
  None = None
  Addr <- MCAddr
  DefaultPort = 5555
  Entries <- MCEntries
  BootEntries <- MCBootEntries
  DelWorks = {TRUE}
  MaxTries = 2
  MaxEvents = 2
CHECK_DEADLOCK FALSE
INVARIANT FormFits
INVARIANT LinkFits
INVARIANT ListenerFits
INVARIANT NothingLeft
