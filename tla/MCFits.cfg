CONSTANTS
  Starts <- MCStarts
  FitsFiles <- MCFitsFiles
  Characters <- MCCharacters
  Max64 = 3
  MaxU64 = 4
  Zero = 2
  Alphabet <- MCAlphabet
  UcdOf <- MCUcdOf
  MaxTrips = 3
SPECIFICATION FitsSpec
CHECK_DEADLOCK FALSE
INVARIANT RecoveredExactlyIfSurvives
INVARIANT UndefinedExactlyIfValueMissing
INVARIANT CellsRecoveredExactlyIfTheySurvive
INVARIANT RereadIsIdentity
INVARIANT UnitsNeedRowsOrFields
INVARIANT SubstringsInPlace
PROPERTY Settles
