CONSTANTS
  FlagSets <- MCFlags
  None = None
SPECIFICATION Spec
CHECK_DEADLOCK FALSE
INVARIANT
  RouterStoppedOnExit
