SPECIFICATION FairSpec
CONSTANTS
  MaxPages = 4
  PageItems = 2
  MaxConnections = 2
INVARIANT TypeOK
INVARIANT GivenInOrder
INVARIANT AllOrNothing
INVARIANT NothingLeftWithClient
PROPERTY CallEnds
