\* The first file may have changed.
SPECIFICATION Spec
CONSTANTS
  ChunkSize = 2
  Payloads <- SmallPayloads
  Faults = {}
  Unstable = {1}
  WriteLimit = 2
  NetCapacity = 2
  MaxCalls = 1
INVARIANTS
  SendsOnlyWhileSending
CHECK_DEADLOCK FALSE
