\* Two commands one after the other, of which the second is forced.
SPECIFICATION Spec
CONSTANTS
  c1 = c1
  Command = {c1}
  nts = nts
  zts = zts
  devel = devel
  db = db
  Label = {nts, zts, devel, db}
  Needs <- PHPNeeds
  Rivals <- PHPRivals
  Internal = {devel}
  Flavored = {devel}
  ThreadSafe = {zts}
  NoLabel = NoLabel
  NoCommand = NoCommand
  MaxCommands = 2
  MaxSettings = 0
INVARIANT RecordedIsInstalled
CHECK_DEADLOCK FALSE
