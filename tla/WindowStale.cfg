\* The same peers; a request whose list of peers changes while it is served.
SPECIFICATION Spec
CONSTANTS
  Discovered = {d1, d2}
  Manual = {m}
  Hosts = {h1, h2}
  Null = Null
  MaxChanges = 2
  MaxUrls = 2
SYMMETRY Symmetry
INVARIANTS
  RowsInRange
CHECK_DEADLOCK FALSE
