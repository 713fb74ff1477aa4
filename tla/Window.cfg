\* Two discovered peers and a manual one on two hosts.
SPECIFICATION Spec
CONSTANTS
  Discovered = {d1, d2}
  Manual = {m}
  Hosts = {h1, h2}
  Null = Null
  MaxChanges = 2
  MaxUrls = 2
SYMMETRY Symmetry
INVARIANTS
  SelectionFollows
  EnabledMeansSelected
  UploadsReachSelection
  AddressSettles
CHECK_DEADLOCK FALSE
