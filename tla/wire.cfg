SPECIFICATION Spec
CONSTANTS
  Width = 20
  ClientObjects <- AllObjects
  Questions <- AskedIds
CHECK_DEADLOCK FALSE
INVARIANTS
  TypeOK
  RepliesUnderstood
  WellFormedServed
  CancelReaches
  AnswersUnderstood
