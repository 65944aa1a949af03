SPECIFICATION PagesSpec
CONSTANTS
  NumRegions = 2
  Ids <- BothSides
  Versions = {1}
  NumOrders <- OneDownloaded
  Handlers = {h1}
  Requests <- HubRequests
  RegionIds <- MCRegionIds
  Hubs <- MCHubs
  NoNumber = NoNumber
  StationOf <- MCStationOf
  PriceOf <- MCPriceOf
  VolumeOf <- MCVolumeOf
INVARIANT BodyIsJson
