SPECIFICATION FairSpec
CONSTANTS
  None = None
  e1 = e1
  Effects <- MCOne
  Levels <- MCLevels
  FullGain = 1
  Outcomes <- MCOutcomes
  ReadBatch = 2
  CommandsPerTick = 2
  PayloadSize = 8
  Settings <- MCSettings
  MaxRequests = 4
  MaxFaults = 2
INVARIANT TypeOK UniqueIds NothingRejected PlaysAsAsked
PROPERTY InRequestOrder WheelStops GameGoesOn
CHECK_DEADLOCK FALSE
