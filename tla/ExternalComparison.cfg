SPECIFICATION ComparisonSpec
CONSTANTS
  OraclePrices <- mcOraclePrices
  InitialPrices = {13, 25}
  Times = {1, 2, 3, 4, 5}
  Setters = {setter}
  MIN_PRICE_UPDATE_WINDOW = 2
  BPS_DENOMINATOR = 10
  MAX_CHANGE_DIFF_BPS = 1
  MAX_ABSOLUTE_DIFF_BPS = 2
  MAX_CL_WINDOW = 2
  Answers <- mcAnswers
  RoundIds = {0, 1, 2}
PROPERTIES KeepsOraclePromises ChangesFollowChainlink ComparedPeriodsMatch ZeroIsFinal
