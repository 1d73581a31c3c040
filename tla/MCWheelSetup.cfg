SPECIFICATION Spec
CONSTANTS
  None = None
  Attached <- MCAttached
  Positions <- MCPositions
  Directions <- MCDirections
  NumButtons = 1
  MaxFormatButtons = 2
  MaxInterruptions = 1
INVARIANT SnapshotIsTheWheel EndsForCause StartsQuiet
PROPERTY ReadsOn
CHECK_DEADLOCK FALSE
