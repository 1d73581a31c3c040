SPECIFICATION EffectSpec
CONSTANTS
  None = None
  Effects <- MCOne
  Levels <- MCLevels
  FullGain = 2
  Outcomes <- MCOk
  Strengths <- MCPositive
  Lengths <- MCLengths
INVARIANT ProfileOffered
