\* Two commands from each of a few situations, with every failure of memory.
CONSTANTS
  SingularMatrix = FALSE
  MatrixOutOfRange = TRUE
  RangeErrorIgnore = FALSE
  KnownFlaws = FALSE
  MaxCommands = 2
  MaxDepth = 4
  Situations <- MCSituations
  Args <- MCArgs
SPECIFICATION Spec
INVARIANTS TypeOK Owned Borrowed SettingRestored
PROPERTY ErrorKeepsStack
CHECK_DEADLOCK FALSE
