\* Two interfaces, joined one by one and left together; changes are told before
\* the next one about the same host.
SPECIFICATION Spec
CONSTANTS
  PeerNames <- OnePeer
  LocalNames <- OurNames
  Ifaces = {"eth", "wlan"}
  Ports = {1, 2}
  MoreComing = FALSE
  Races = {}
  Faults = {}
  MaxChanges = 3
INVARIANTS
  TypeOK
  NoGhost
  NoneMissing
PROPERTIES
  BatchIsListed
  Settles
  BatchEnds
CHECK_DEADLOCK FALSE
