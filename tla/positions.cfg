SPECIFICATION Spec
CONSTANTS
  Uris = {"u"}
  Texts <- ShortTexts
  Changes <- SomeChanges
  MaxMessages = 2
  MaxLength = 4
CHECK_DEADLOCK FALSE
INVARIANTS
  InSync
  FormatsWhatWasAsked
