SPECIFICATION Spec
CONSTANTS
  Volumes = {0, 1, 19, 20, 41}
  Prices = {1, 2, 4}
  MaxOrders = 3
INVARIANT TypeOK
INVARIANT PricedIsBestTwentieth
INVARIANT LoopBreaksInTime
CHECK_DEADLOCK FALSE
