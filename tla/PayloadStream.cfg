\* Chunks of 2 bytes over payloads of 3 or 4 bytes.
SPECIFICATION Spec
CONSTANTS
  ChunkSize = 2
  Payloads <- UsualPayloads
INVARIANTS
  CompletedIsIntact
  NothingUnexpected
  CompletedFindsSenderDone
  ClosesOnlyWhenFull
PROPERTY
  Terminates
CHECK_DEADLOCK FALSE
