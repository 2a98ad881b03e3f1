SPECIFICATION Spec
CONSTANTS
  Characters <- MCCharacters
  Results <- QuoteResults
  Separators <- MCSeparators
INVARIANTS
  CsvModeIsCsv
