SPECIFICATION Spec
CONSTANTS
  ChunkSize = 3
  MaxFiles = 4
  MaxSize = 2
  Payloads <- SmallPayloads
INVARIANTS
  LoopMoves
  OpensAtFirstByte
CHECK_DEADLOCK FALSE
