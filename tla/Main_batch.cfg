SPECIFICATION MainFairSpec
CONSTANTS
  Texts <- MCTexts
  Bases <- MCBases
  Passwords <- MCPasswords
  InternalTexts <- MCInternalTexts
  Arguments <- MCArguments
  MaxCommands = 2
INVARIANTS
  MainTypeOK
  ExitStatusHonest
PROPERTIES
  NothingAfterFailure
  ProgramEnds
  CommandAnswered
