\* Everything crosses; the services fail, are renamed and restarted.
SPECIFICATION Spec
CONSTANTS
  PeerNames <- OnePeer
  LocalNames <- OurNames
  Ifaces = {"eth"}
  Ports = {1}
  MoreComing = TRUE
  Races = {"crossing"}
  Faults = {"record", "browser", "resolver"}
  MaxChanges = 3
INVARIANTS
  AtMostOnePerName
  OwnIsHidden
  DeadIsShown
CHECK_DEADLOCK FALSE
