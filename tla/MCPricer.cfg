SPECIFICATION PricerSpec
CONSTANTS
  Prices = {0, 1, 2}
  Timestamps = {0, 1, 2}
  MaxPriceId = 4
  PriceUpdaters = {updater}
INVARIANTS PricedIdsAreIssued LatestIsNewest
PROPERTIES LatestMovesForward ImplementsPriceFeed
