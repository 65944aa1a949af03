SPECIFICATION CsvSpec
CONSTANTS
  h1 = h1
  Updater = Updater
  Free = Free
  NumRegions = 2
  CsvOrder <- CsvTwo
  Ids <- OneSell
  Versions = {1}
  NumOrders <- OneOrder
  Handlers <- OneHandler
  OkTtl = 1
  FailTtl = 1
  CsvTtl = 2
  Faults <- AllFaults
INVARIANT CsvTypeOK
PROPERTY OnlyWholeSummaryCounts
