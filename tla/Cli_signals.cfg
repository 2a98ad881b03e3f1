SPECIFICATION Spec
CONSTANTS
  ElCommands <- MCElCommands
  Words <- MCWords
  Lines <- MCLines
  Histories <- MCHistories
  HistorySize = 2
  MaxLines = 4
  MaxSignals = 2
  MaxErrors = 1
INVARIANTS
  TypeOK
  WholeStatement
  HistoryMatches
  InSync
PROPERTIES
  SignalCancels
  NoLineLost
  StreamSpec
