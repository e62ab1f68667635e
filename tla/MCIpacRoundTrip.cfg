\* Every file of a few lines, and three trips of every Table of the instance.
SPECIFICATION TripSpec
CONSTANTS
  Headers <- MCHeaders
  MaxLines = 3
  Tables <- MCTables
  Requests <- MCRequests
  Everything <- MCEverything
  MaxTrips = 3
INVARIANTS
  StringsAreWhole
  LengthsDependOnShrinking
  RowsComeBackExactlyIfTheySurvive
  HeaderSettles
  DescriptionsOutliveTheirColumns
PROPERTY
  OnlyNullsBehindBlankLines
CHECK_DEADLOCK FALSE
