SPECIFICATION SystemFairSpec
CONSTANTS
  ElCommands <- MCElCommands
  Words <- MCWords
  Lines <- MCLines
  Histories <- NoHistory
  HistorySize = 1
  MaxLines = 2
  MaxSignals = 1
  MaxErrors = 0
  Texts <- MCTexts
  Bases <- MCBases
  Passwords <- MCPasswords
  MaxCommands = 2
  Arguments <- MCArguments
  InternalTexts <- MCInternalTexts
INVARIANTS
  AnswerReachesUser
  SentInOrder
  ExitStatusOfRun
PROPERTIES
  DrivenAsMainSays
  SystemEnds
