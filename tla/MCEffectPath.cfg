SPECIFICATION EffectSpec
CONSTANTS
  None = None
  Effects <- MCTwo
  Levels <- MCLevels
  FullGain = 2
  Outcomes <- MCAny
  Strengths <- MCStrengths
  Lengths <- MCLengths
INVARIANT AcceptedArrives NeverStale
