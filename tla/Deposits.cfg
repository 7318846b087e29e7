SPECIFICATION Spec
CONSTANTS
  Accounts = {u1, manager, recipient, fund, fees}
  Contracts = {manager}
  NullAddress = null
  Blocklists = {bl}
  SanctionsLists = {sl}
  Listable = {}
  Users = {u1}
  Operators = {operator}
  RoleMembers <- mcAllRoles
  Manager = manager
  AssetRecipient = recipient
  AssetSenders = {fund}
  FeeRecipients = {fees}
  ThePricer = thePricer
  EmptyPricer = emptyPricer
  TxHashes = {tx1}
  DepositAmounts = {4}
  RedemptionAmounts = {}
  Fees = {}
  Minimums = {}
  InitialMinimums = {4}
  PausableFeatures = {}
  NewPricers = {thePricer}
  NewFeeRecipients = {}
  NewAssetSenders = {}
  OverwriteUsers = {u1, null}
  OverwriteAmounts = {5}
  MaxDeposits = 2
  MaxRedemptions = 0
  MaxBatch = 2
  MaxProofs = 2
  MaxOverwrites = 1
  MaxTime = 2
  MaxBalance = 30
  UsdcOfUsers = 8
  UsdcOfFund = 0
  InitialUsdc <- mcInitialUsdc
  Prices = {1}
  Timestamps = {1}
  MaxPriceId = 1
  PriceUpdaters = {updater}
  BPS_DENOMINATOR = 4
  ONE = 1
  decimalsMultiplier = 1
INVARIANTS EveryMintHasItsDeposit EveryMintHasItsPrice EveryMintHasItsTime
PROPERTIES OpenRequestsAreKept ClaimableUntilClaimed
