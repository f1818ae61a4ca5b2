SPECIFICATION Spec
CONSTANTS
  Uris = {"u", "v"}
  Texts <- FewTexts
  Changes <- FewChanges
  MaxMessages = 5
  MaxLength = 3
CHECK_DEADLOCK FALSE
INVARIANTS
  InSync
  FormatsWhatWasAsked
  AllAnswered
  
