SPECIFICATION SpecBlocking
SYMMETRY Alike
CONSTANTS
  c1 = c1
  c2 = c2
  c3 = c3
  w1 = w1
  w2 = w2
  h1 = h1
  h2 = h2
  Nobody = Nobody
  Callers = {c1}
  Waiters = {w1, w2}
  Handles = {h1, h2}
  HandleOf <- TwoHandles
  MaxId = 2
  WaiterIds = {1, 9}
  MaxRetries = 2
  MaxPosts = 1
CHECK_DEADLOCK FALSE
INVARIANTS
  OwnResponse
  DeliveredById
  RoutedReaches
  HonestDisconnect
  DiscardedStillWaits
