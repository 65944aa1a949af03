SPECIFICATION Spec
CONSTANTS
  h1 = h1
  h2 = h2
  Updater = Updater
  Free = Free
  NumRegions = 1
  CsvOrder <- CsvOne
  Ids <- TwoIds
  Versions = {1, 2, 3}
  NumOrders <- MixedDownloads
  Handlers <- TwoHandlers
  OkTtl = 1
  FailTtl = 1
  Faults <- AllFaults
INVARIANT TypeOK
INVARIANT IndexMatchesFile
INVARIANT AnswerIsOneDownload
PROPERTY NothingMovesBetweenSeekAndRead
PROPERTY ImplementsOrderStore
SYMMETRY SameHandlers
