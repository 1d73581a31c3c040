SPECIFICATION FairSpec
CONSTANTS
  None = None
  client = client
  tester = tester
  Clients <- MCClients
  Testers <- MCTesters
  Refusable <- MCRefusable
  MayMistype <- MCMayMistype
  MaxCommands = 1
  MaxLosses = 1
  MaxCopies = 1
  MaxStarts = 2
INVARIANT TypeOK AnswersRequester OnlyTokenHoldersConnect
PROPERTY Connects StreamReturns
CHECK_DEADLOCK FALSE
