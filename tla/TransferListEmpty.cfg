\* The same transfers, of empty files too.
SPECIFICATION Spec
CONSTANTS
  Downloads = {d}
  Uploads = {u}
  Sizes = {0, 1}
  Dirs <- MCDirs
  Null = Null
  Window = 1
  Elems = 3
  MaxTime = 2
INVARIANTS
  ProgressIsDefined
CHECK_DEADLOCK FALSE
