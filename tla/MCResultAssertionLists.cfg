SPECIFICATION Spec
CONSTANTS
  None = none
  Keys <- MCKeys
  Values <- MCValues
  Cells <- MCCells
  Blank <- MCBlank
  Comparables <- MCComparables
  Actual <- MCActual
  Expected <- MCExpected
  TextAt <- MCTextAt
  KeyAt <- MCKeyAt
  Results <- MCResults
  Tables <- MCTables
  Same <- MCSame
  Alike <- MCAlike
  Readable <- MCReadable
  Sortable <- MCSortable
INVARIANTS
  ListOrderKept
CHECK_DEADLOCK FALSE
