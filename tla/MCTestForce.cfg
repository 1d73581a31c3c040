SPECIFICATION FairSpec
CONSTANTS
  Effects <- MCEffects
  Levels <- MCLevels
  FullGain = 1
  Outcomes <- MCAny
  Steps = 2
  MaxForces = 2
  MaxLosses = 1
  MaxCopies = 1
INVARIANT InLockstep DoneMeansPlayed
PROPERTY ForceEnds
CHECK_DEADLOCK FALSE
