SPECIFICATION FairSpec
CONSTANTS
  Ids = {1, 2}
  MaxRequests = 3
CHECK_DEADLOCK FALSE
INVARIANTS
  TypeOK
  OneReply
  ShutdownCancelsAll
  CancelExact
  NoStrayCancel
  CleanExit
  InitializeFirst
PROPERTIES
  EveryRequestAnswered
