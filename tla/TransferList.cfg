\* A download and an upload of up to two chunks, three units of time.
SPECIFICATION Spec
CONSTANTS
  Downloads = {d}
  Uploads = {u}
  Sizes = {1, 2}
  Dirs <- MCDirs
  Null = Null
  Window = 1
  Elems = 3
  MaxTime = 3
INVARIANTS
  ViewIsCurrent
  FinalIsExact
  EachHasAnOwner
  HistoryIsAWindow
PROPERTIES
  TargetIsFixed
  ClickHitsItsButton
CHECK_DEADLOCK FALSE
