SPECIFICATION FairSpec
CONSTANTS
  TypeParams <- TwoTypes
  RegionParams <- TwoRegions
  Dates = {d1, d2}
  Days <- TwoDays
  MaxConnections = 2
INVARIANT TypeOK
INVARIANT AggregateIsOfItsType
INVARIANT HistoryIsOfItsRequest
INVARIANT WholeOrError
PROPERTY PageEnds
CHECK_DEADLOCK FALSE
