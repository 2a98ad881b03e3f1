SPECIFICATION Spec
CONSTANTS
  ElCommands <- MCElCommands
  Words <- MCWords
  Lines <- MCCommands
  Histories <- NoHistory
  HistorySize = 2
  MaxLines = 2
  MaxSignals = 0
  MaxErrors = 0
PROPERTIES
  OnlyEmptyLinesIgnored
