SPECIFICATION FairSpec
CONSTANTS
  None = None
  Unreadable = Unreadable
  p1 = p1
  p2 = p2
  Invocations = {i1, i2}
  Pids <- MCPids
  Unreaped = TRUE
  IgnoresTerm <- MCIgnoresTerm
  MaxStarts = 2
  MaxPolls = 2
INVARIANT TypeOK NoOrphan
PROPERTY StatusTells StopStops CommandsEnd
CHECK_DEADLOCK FALSE
