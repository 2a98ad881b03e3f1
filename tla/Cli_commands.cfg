SPECIFICATION FairSpec
CONSTANTS
  ElCommands <- MCElCommands
  Words <- MCWords
  Lines <- MCCommands
  Histories <- NoHistory
  HistorySize = 2
  MaxLines = 3
  MaxSignals = 1
  MaxErrors = 1
INVARIANTS
  OneCommandEach
  ResultOfLastCommand
PROPERTIES
  StatementAnswered
  RunReturns
