SPECIFICATION PunctualSpec
CONSTANTS
  Prices = {0, 1, 2}
  OraclePrices = {0, 1, 2}
  Timestamps = {1, 2, 3, 4}
  Times = {1, 2, 3}
  MaxPriceId = 4
  PriceUpdaters = {updater}
  ThisPricer = pricer
  Setters = {pricer, setter}
  MIN_PRICE_UPDATE_WINDOW = 1
INVARIANTS LatestNotAheadOfOracle
PROPERTIES NewLatestIsOraclePrice DisagreementStopsThePricer ImplementsPriceFeed
