\* Load, hand over, append and winnow, as the command-line program does.
SPECIFICATION CliSpec
CONSTANTS
  Data <- MCData
  NumDyn = 1
  SizesOf <- MCSizesOf
  ZeroRow = "z"
  Initials = {0, 2, 3}
  HeaderCounted = FALSE
  Operands <- MCOperands
  Selections <- MCSafeSelections
  MaxRows = 4
INVARIANTS
  TypeOK
  RowsKeepTheirSizes
  WinnowRetainsSelection
PROPERTY
  ImplementsLogicalTable
