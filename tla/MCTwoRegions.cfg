SPECIFICATION FairSpec
CONSTANTS
  h1 = h1
  h2 = h2
  Updater = Updater
  Free = Free
  NumRegions = 2
  CsvOrder <- CsvTwo
  Ids <- OneId
  Versions = {1}
  NumOrders <- PlainDownload
  Handlers <- OneHandler
  OkTtl = 2
  FailTtl = 1
  Faults <- AllFaults
INVARIANT LockedWhileUsed
INVARIANT UpdateOnlyWhenExpired
PROPERTY OnlyADownloadReplaces
PROPERTY RegionsKeepBeingUpdated
PROPERTY CallsReturn
PROPERTY BrokenRegionRecovers
