\* Tables through the codec, and streams from elsewhere.  Reading ends, so
\* deadlock is not checked.
SPECIFICATION Spec
CONSTANTS
  Tables <- MCTables
  Foreign <- MCForeign
  MaxRows = 3
  MaxPieces = 5
INVARIANTS
  SecondPassFindsTheFirst
  ReadBackExactlyIfReadable
  WidthsAreOfTheLongest
CHECK_DEADLOCK FALSE
