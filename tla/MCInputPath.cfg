SPECIFICATION FairSpec
CONSTANTS
  None = None
  Axes <- MCAxes
  Buttons <- MCButtons
  minimum <- MCMinimum
  maximum <- MCMaximum
  Frames <- MCFrames
  ResyncTicks = 2
  MaxPolls = 14
  MoveHorizon = 4
  MaxLosses = 1
  MaxCopies = 1
  MaxServerStarts = 2
  MaxClientStarts = 2
INVARIANT TypeOK WholeFrame
PROPERTY InOrder OnlyStaleIsDropped Converges
CHECK_DEADLOCK FALSE
