SPECIFICATION Spec
CONSTANTS
  Messages = {1, 2}
  Wide = {2}
  Foreign <- ForeignFrames
  MaxFrames = 3
CHECK_DEADLOCK FALSE
INVARIANTS
  TypeOK
  InOrder
  NothingHeldBack
  TruncationReported
