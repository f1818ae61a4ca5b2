SPECIFICATION FairSpec
CONSTANTS
  c1 = c1
  c2 = c2
  c3 = c3
  w1 = w1
  w2 = w2
  h1 = h1
  h2 = h2
  Nobody = Nobody
  Callers = {c1, c2}
  Waiters = {}
  Handles = {h1, h2}
  HandleOf <- OneHandle
  MaxId = 3
  WaiterIds = {}
  MaxRetries = 2
  MaxPosts = 1
CHECK_DEADLOCK FALSE
INVARIANTS
  UniqueIds
  HonestDisconnect
  RoutedReaches
  NoAnswerLost
PROPERTIES
  KeepsPromise
  LateResponseUnknown
  DrainDeathReleases
  AnsweredReturns
