SPECIFICATION FairSpec
CONSTANTS
  f1 = f1
  f2 = f2
  Files = {f1, f2}
  Chunks = 2
  Connections = 2
  SlotCap = 1
  MaxAttempts = 2
  MaxVersion = 0
  Tag <- StrongTag
  Hole = Hole
  Torn = Torn
INVARIANTS SlotBudget FirstWorkerNeverBlocked
PROPERTIES
  TransfersEnd
CHECK_DEADLOCK FALSE
