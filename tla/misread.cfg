SPECIFICATION Spec
CONSTANTS
  Width = 20
  ClientObjects <- AllObjects
  Questions <- AskedIds
CHECK_DEADLOCK FALSE
INVARIANTS
  NotificationHasNoId
