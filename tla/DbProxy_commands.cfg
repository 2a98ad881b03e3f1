SPECIFICATION Spec
CONSTANTS
  Texts <- MCTexts
  Bases <- MCBases
  Passwords <- MCPasswords
  MaxCommands = 3
INVARIANTS
  TypeOK
  NothingLeftOpen
  RunAtMostOnce
  HonestAnswer
  OutputHasNoHoles
PROPERTIES
  OwnCommit
  PromptOnlyIfDenied
  PasswordOverrides
