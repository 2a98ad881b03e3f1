SPECIFICATION Spec
CONSTANTS
  a = a
  b = b
  s1 = s1
  s2 = s2
  Sessions = {s1, s2}
  Entries = {a, b}
  Files <- MCFiles
  HistorySize = 2
  MaxEntries = 2
INVARIANTS
  TypeOK
PROPERTIES
  HistoryKept
  SignalSurvived
