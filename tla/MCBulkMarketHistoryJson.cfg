SPECIFICATION Spec
CONSTANTS
  TypeParams <- TwoTypes
  RegionParams <- TwoRegions
  Dates = {d1, d2}
  Days <- TwoDays
  MaxConnections = 2
INVARIANT MeanPricesAreNumbers
CHECK_DEADLOCK FALSE
