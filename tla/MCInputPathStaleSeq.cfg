SPECIFICATION Spec
CONSTANTS
  None = None
  Axes <- MCAxes
  Buttons <- MCButtons
  minimum <- MCMinimum
  maximum <- MCMaximum
  Frames <- MCFrames
  ResyncTicks = 2
  MaxPolls = 14
  MoveHorizon = 4
  MaxLosses = 0
  MaxCopies = 0
  MaxServerStarts = 2
  MaxClientStarts = 1
PROPERTY FreshIsAccepted
CHECK_DEADLOCK FALSE
