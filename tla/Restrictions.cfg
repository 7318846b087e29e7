SPECIFICATION Spec
CONSTANTS
  Accounts = {u1, manager, recipient, fund, fees}
  Contracts = {manager}
  NullAddress = null
  Blocklists = {bl1, bl2}
  SanctionsLists = {sl}
  Listable = {u1}
  Users = {u1}
  Operators = {operator}
  RoleMembers <- mcAllRoles
  Manager = manager
  AssetRecipient = recipient
  AssetSenders = {fund}
  FeeRecipients = {fees}
  ThePricer = thePricer
  EmptyPricer = emptyPricer
  TxHashes = {}
  DepositAmounts = {4}
  RedemptionAmounts = {4}
  Fees = {5}
  Minimums = {4}
  InitialMinimums = {4}
  PausableFeatures = {"subscription", "redemption", "offChainRedemption"}
  NewPricers = {thePricer, null}
  NewFeeRecipients = {fees, null}
  NewAssetSenders = {fund, null}
  OverwriteUsers = {}
  OverwriteAmounts = {5}
  MaxDeposits = 1
  MaxRedemptions = 1
  MaxBatch = 1
  MaxProofs = 2
  MaxOverwrites = 0
  MaxTime = 1
  MaxBalance = 30
  UsdcOfUsers = 8
  UsdcOfFund = 4
  InitialUsdc <- mcInitialUsdc
  Prices = {1}
  Timestamps = {1}
  MaxPriceId = 1
  PriceUpdaters = {updater}
  BPS_DENOMINATOR = 4
  ONE = 1
  decimalsMultiplier = 1
INVARIANTS TypeOK
PROPERTIES PausedMovesNoMoney RestrictedAreNotServed
