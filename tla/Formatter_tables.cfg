SPECIFICATION Spec
CONSTANTS
  Characters <- MCCharacters
  Results <- MCResults
  Separators <- MCSeparators
INVARIANTS
  CsvReadsBack
  ColumnsLineUp
