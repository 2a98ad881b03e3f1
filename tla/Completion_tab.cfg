SPECIFICATION Spec
CONSTANTS
  Chars <- MCChars
  GroupNames <- MCGroupNames
  Keywords <- MCKeywords
  MaxLength = 4
INVARIANTS
  FailsOnlyIfDone
  SecondTabAddsNothing
PROPERTIES
  CompletesWord
