SPECIFICATION Spec
CONSTANTS
  f1 = f1
  Files = {f1}
  Chunks = 4
  Connections = 3
  SlotCap = 2
  MaxAttempts = 2
  MaxVersion = 1
  Tag <- StrongTag
  Hole = Hole
  Torn = Torn
INVARIANTS
  TypeOK
  ChunkHasOneWriter
  NoSilentHole
  OneVersionDelivered
  NoStragglers
PROPERTIES
  FailureHandled
  ImplementsTransfer
CHECK_DEADLOCK FALSE
