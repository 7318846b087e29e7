SPECIFICATION RateCheckSpec
CONSTANTS
  OraclePrices <- mcOraclePrices
  InitialPrice = 9
  DeployedAt = 1
  Times <- mcTimes
  Setters = {setter}
  MIN_PRICE_UPDATE_WINDOW = 3
  BPS_DENOMINATOR = 8
  MAX_CHANGE_DIFF_BPS = 2
  MAX_UINT256 = 1000
INVARIANTS PriceWithinEnvelope
PROPERTIES KeepsOraclePromises ChangesAreLimited
