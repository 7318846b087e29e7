SPECIFICATION Spec
CONSTANTS
  Accounts = {u1, manager, recipient, fund, fees}
  Contracts = {manager}
  NullAddress = null
  Blocklists = {bl}
  SanctionsLists = {sl}
  Listable = {}
  Users = {u1}
  Operators = {operator}
  RoleMembers <- mcAllRoles
  Manager = manager
  AssetRecipient = recipient
  AssetSenders = {fund}
  FeeRecipients = {fees}
  ThePricer = thePricer
  EmptyPricer = emptyPricer
  TxHashes = {}
  DepositAmounts = {4, 5}
  RedemptionAmounts = {2, 3}
  Fees = {1, 4}
  Minimums = {}
  InitialMinimums = {1}
  PausableFeatures = {}
  NewPricers = {thePricer}
  NewFeeRecipients = {}
  NewAssetSenders = {}
  OverwriteUsers = {}
  OverwriteAmounts = {5}
  MaxDeposits = 2
  MaxRedemptions = 2
  MaxBatch = 2
  MaxProofs = 2
  MaxOverwrites = 1
  MaxTime = 1
  MaxBalance = 40
  UsdcOfUsers = 9
  UsdcOfFund = 10
  InitialUsdc <- mcInitialUsdc
  Prices = {3}
  Timestamps = {1}
  MaxPriceId = 1
  PriceUpdaters = {updater}
  BPS_DENOMINATOR = 4
  ONE = 2
  decimalsMultiplier = 2
INVARIANTS FundCovered UsersCovered
