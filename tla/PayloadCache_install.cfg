\* A version is published again while it is installed.
SPECIFICATION Spec
CONSTANTS
  p1 = p1
  p2 = p2
  Process = {p1, p2}
  Free = Free
  SlowHolders = FALSE
  v1 = v1
  v2 = v2
  Version = {v1, v2}
  c1 = c1
  c2 = c2
  Content = {c1, c2}
  r1 = r1
  Reader = {r1}
  MaxPublications = 2
  None = None
INVARIANT InstallsWhatItValidated
SYMMETRY Symmetric
CHECK_DEADLOCK FALSE
