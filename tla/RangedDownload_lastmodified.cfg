SPECIFICATION Spec
CONSTANTS
  f1 = f1
  Files = {f1}
  Chunks = 2
  Connections = 2
  SlotCap = 1
  MaxAttempts = 2
  MaxVersion = 1
  Tag <- SameSecondTag
  Hole = Hole
  Torn = Torn
INVARIANTS
  OneVersionDelivered
CHECK_DEADLOCK FALSE
