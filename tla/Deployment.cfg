SPECIFICATION FairSpec
CONSTANTS
  MaxInstances = 2
  MaxFailures = 1
  MaxPending = 1
  UsedNetworks = {"production", "local"}
  PROD_GUARDIAN_OMMF = "multisig"
  USDYPricer = "Pricer"
INVARIANTS TypeOK TokensAnswerToGuardian TokensHaveRealLists ManagersHoldRealTokens WiredWhenDone
PROPERTIES LocalCompletes CarefulOperatorFinishes
CHECK_DEADLOCK FALSE
