\* Two commands that overlap or follow each other; one edit of the settings,
\* or a database beside the PHP flavors.
SPECIFICATION Spec
CONSTANTS
  c1 = c1
  c2 = c2
  Command = {c1, c2}
  nts = nts
  zts = zts
  devel = devel
  db = db
  Label = {nts, zts, devel, db}
  Needs <- PHPNeeds
  Rivals <- PHPRivals
  Internal = {devel}
  Flavored = {devel}
  ThreadSafe = {zts}
  NoLabel = NoLabel
  NoCommand = NoCommand
  MaxCommands = 2
  MaxSettings = 1
INVARIANTS
  TypeOK
  InstallComplete
  DiskConsistent
PROPERTIES InstalledFirst
CONSTRAINT EditedWithoutDatabase
SYMMETRY Symmetric
CHECK_DEADLOCK FALSE
