\* Three chunks of 2, 2 and 1 writes; the file may shrink or grow before a fallback.
SPECIFICATION Spec
CONSTANTS
  Length <- TwoAndOne
  Sizes = {2, 6}
  Workers = 2
  MaxAttempts = 2
INVARIANTS TypeOK CountsExact FinalEventExact
PROPERTIES EventsOrdered
CHECK_DEADLOCK FALSE
