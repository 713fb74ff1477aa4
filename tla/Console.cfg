\* Two peers, three connections, and up to three sources ready in a turn.
SPECIFICATION Spec
CONSTANTS
  Peers = {p1, p2}
  Conns = {c1, c2, c3}
  Up = Up
  Null = Null
  Size = 3
  Widths <- MCWidths
  FileWidths <- MCFileWidths
  RateWidth <- MCRateWidth
  PercentWidth <- MCPercentWidth
  MaxReady = 3
INVARIANTS
  ExitCodeIsRight
  OneDownload
  ConnectsOnce
  ServicesEndOnce
  LineIsEnded
  LineFits
PROPERTIES
  LeavesAtTheEnd
CHECK_DEADLOCK FALSE
