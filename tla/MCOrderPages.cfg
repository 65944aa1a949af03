SPECIFICATION PagesSpec
CONSTANTS
  NumRegions = 2
  Ids <- BothSides
  Versions = {1, 2, 3}
  NumOrders <- ThreeDownloads
  Handlers = {h1}
  Requests <- PageRequests
  RegionIds <- MCRegionIds
  Hubs <- MCHubs
  NoNumber = NoNumber
  StationOf <- MCStationOf
  PriceOf <- MCPriceOf
  VolumeOf <- MCVolumeOf
INVARIANT PagesTypeOK
INVARIANT BulkAnswersEverySet
INVARIANT WholePageOrError
INVARIANT HubPricesAreBest
INVARIANT JitaPricesAreJitas
INVARIANT OtherBodiesAreJson
