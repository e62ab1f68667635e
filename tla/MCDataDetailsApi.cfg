\* The public interface: any call at any time.
SPECIFICATION ApiSpec
CONSTANTS
  Data <- MCData
  NumDyn = 1
  SizesOf <- MCSizesOf
  ZeroRow = "z"
  Initials = {0, 2}
  HeaderCounted = FALSE
  Operands <- MCOperands
  Selections <- MCSafeSelections
  MaxRows = 3
PROPERTIES
  AppendRowNeedsCurrentCounter
  AppendRowsNeedsExactSizes
