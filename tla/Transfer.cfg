\* The connection may break, the receiver's disk fail, a file change under the
\* sender's hands, the second one also before it is opened, and the versions
\* differ.  The first refill sends only the first chunk.
SPECIFICATION Spec
CONSTANTS
  ChunkSize = 2
  Payloads <- SplitPayloads
  Faults = {"network", "disk", "torn", "version"}
  Unstable = {2}
  WriteLimit = 1
  NetCapacity = 2
  MaxCalls = 2
INVARIANTS
  NothingWithoutConsent
  FailureIsShown
  WriteBufferBounded
  SendsOnlyWhileSending
  NoError
PROPERTIES
  ImplementsContract
  EveryTransferEnds
CHECK_DEADLOCK FALSE
