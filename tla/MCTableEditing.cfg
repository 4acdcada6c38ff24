SPECIFICATION Spec
CONSTANTS
  Lines <- MCLines
  SheetRows <- MCSheetRows
  Qualified <- MCQualified
  Autoformat = TRUE
  MaxLines = 3
  MaxTools = 3
  MaxEdits = 1
INVARIANTS
  RowsLineUp
  FormatsOnce
  FormattingKeepsSeparateTables
  NothingDropped
  SpreadsheetKeepsTables
  RowsFillTheTable
  WritesWhatItShows
  LookingChangesNothing
PROPERTY InsertingKeepsTexts
CHECK_DEADLOCK FALSE
