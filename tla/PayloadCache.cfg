\* Two publishers that may be killed, two versions, two payloads, one install.
SPECIFICATION Spec
CONSTANTS
  p1 = p1
  p2 = p2
  Process = {p1, p2}
  Free = Free
  SlowHolders = FALSE
  v1 = v1
  v2 = v2
  Version = {v1, v2}
  c1 = c1
  c2 = c2
  Content = {c1, c2}
  r1 = r1
  Reader = {r1}
  MaxPublications = 3
  None = None
INVARIANTS
  TypeOK
  ExclusiveUntilStale
  PublishedIsServed
PROPERTIES
  OthersUntouched
  LeftoverRemoved
CHECK_DEADLOCK FALSE
