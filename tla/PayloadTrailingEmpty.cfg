\* The last file of the payload is empty.
SPECIFICATION Spec
CONSTANTS
  ChunkSize = 2
  Payloads <- TrailingEmpty
INVARIANTS
  AllBytesMeansAllFiles
CHECK_DEADLOCK FALSE
