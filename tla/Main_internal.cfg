SPECIFICATION MainSpec
CONSTANTS
  Texts <- MCTexts
  Bases <- MCBases
  Passwords <- MCPasswords
  InternalTexts <- MCInternalTexts
  Arguments <- MCInternalArguments
  MaxCommands = 2
PROPERTIES
  InternalCommandsAreRun
