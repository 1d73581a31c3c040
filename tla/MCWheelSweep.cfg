SPECIFICATION Sweep
CONSTANTS
  First <- MCFirst
  Last <- MCLast
INVARIANT HatOpposes
PROPERTY ScalesAreMonotone PedalIsMonotone
CHECK_DEADLOCK FALSE
