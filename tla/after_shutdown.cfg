SPECIFICATION Spec
CONSTANTS
  Ids = {1, 2}
  MaxRequests = 3
CHECK_DEADLOCK FALSE
PROPERTIES
  OnlyAllowedHandled
