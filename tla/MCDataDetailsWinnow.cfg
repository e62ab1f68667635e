\* winnow_rows() with every selection.
SPECIFICATION CliSpec
CONSTANTS
  Data <- MCData
  NumDyn = 1
  SizesOf <- MCSizesOf
  ZeroRow = "z"
  Initials = {0, 4}
  HeaderCounted = FALSE
  Operands <- MCOperands
  Selections <- MCAllSelections
  MaxRows = 5
INVARIANT
  WinnowRetainsSelection
