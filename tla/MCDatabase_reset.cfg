CONSTANTS
  Operator = {o1}
  Target <- Databases
  Legacy = Legacy
  Nothing = Nothing
  MaxSwitches = 1
  MaxPasswords = 1
SPECIFICATION DatabaseSpec
PROPERTY DataKept
CHECK_DEADLOCK FALSE
