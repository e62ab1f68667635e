\* Every TABLEDATA element of up to three children.  Reading ends, so deadlock
\* is not checked.
SPECIFICATION Spec
CONSTANTS
  Tables <- MCTables
  MaxCount = 2
  MaxChildren = 3
INVARIANTS
  RowsInPlaceHaveTheirLengths
  RowsInsertedExactlyIfReadable
  CutExactlyIfDeclaredSingle
CHECK_DEADLOCK FALSE
