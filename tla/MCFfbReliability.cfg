SPECIFICATION Spec
CONSTANTS
  e1 = e1
  Effects <- MCOne
  Levels <- MCLevels
  FullGain = 1
  Outcomes <- MCOutcomes
  Requests <- MCRequests
  RetryAfter = 2
  MaxCommands = 3
  MaxInFlight = 1
  MaxAttempts = 2
  MaxFaults = 2
INVARIANT NothingForgotten AsIfOnce
CHECK_DEADLOCK FALSE
