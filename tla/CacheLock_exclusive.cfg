\* Holders are prompt, but one may be killed and leave a file that gets stale.
SPECIFICATION LockSpec
CONSTANTS
  p1 = p1
  p2 = p2
  p3 = p3
  Process = {p1, p2, p3}
  Free = Free
  SlowHolders = FALSE
INVARIANT MutualExclusion
CHECK_DEADLOCK FALSE
