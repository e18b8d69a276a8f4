CONSTANTS
  Idle = Idle
  Provisioner = {c1, c2}
  InternalTool = {php, pie}
  Configured = {php}
  Version = {v1, v2}
  Default = v1
  Unset = Unset
  MaxMishaps = 1
  Editor = {e1}
  Main = Main
  Named = {n1, n2}
  Shim = {i1, i2}
  NoName = NoName
  MaxChanges = 1
  Operator = {o1}
  Legacy = Legacy
  Nothing = Nothing
  MaxSwitches = 1
  MaxPasswords = 1
  Package = {i1, i2}
  Release = {v1, v2}
  Shared = Shared
  NoRelease = NoRelease
  MaxEvents = 1
  Builder = {c1, c2}
  Label = {l1, l2}
  Unlocked = Unlocked
  MaxBuilds = 2
  MaxKills = 1
  MaxTogether = 2
  Holder = {c1, c2}
  Lone = {o1}
  Site = {h1}
  Gone = Gone
  Torn = Torn
  Plain = Plain
  MaxPairs = 5
  MaxPairsTogether = 3
  MaxAccidents = 1
  PageSize = 2
  MaxTries = 2
  MaxNews = 1
  Damaged = Damaged
  Runner = {c1, c2}
  ManagedKeys = {k1, k2}
  Anchor = Anchor
  Credential = {v1, v2}
  Own = Own
  Void = Void
  MaxItems = 2
  MaxHooks = 2
  MaxEdits = 1
  Stable = Stable
  Latest = Latest
  Toolset = {v1, v2}
  Unknown = Unknown
  Module = {m1, m2, m3}
  ByPIE = {m1, m2}
  Zend = {m1}
  Secure = {m3}
  MaxTweaks = 1
  MaxCuts = 1
SPECIFICATION Spec
SYMMETRY Symmetry
INVARIANTS TypesOK InternalWhole ShimsRight DatabaseUsable PeclLoads BuildsRight
INVARIANTS HTTPSUsable ReleaseRight FrameworkRight ToolchainRight PHPRight
PROPERTIES NotGivenUp
CHECK_DEADLOCK FALSE
