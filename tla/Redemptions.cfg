SPECIFICATION Spec
CONSTANTS
  Accounts = {u1, manager, recipient, fund, fees}
  Contracts = {manager}
  NullAddress = null
  Blocklists = {bl}
  SanctionsLists = {sl}
  Listable = {}
  Users = {u1}
  Operators = {operator}
  RoleMembers <- mcNoRelayer
  Manager = manager
  AssetRecipient = recipient
  AssetSenders = {fund}
  FeeRecipients = {fees}
  ThePricer = thePricer
  EmptyPricer = emptyPricer
  TxHashes = {}
  DepositAmounts = {12}
  RedemptionAmounts = {4}
  Fees = {}
  Minimums = {}
  InitialMinimums = {4}
  PausableFeatures = {}
  NewPricers = {thePricer, emptyPricer}
  NewFeeRecipients = {}
  NewAssetSenders = {}
  OverwriteUsers = {u1}
  OverwriteAmounts = {4}
  MaxDeposits = 1
  MaxRedemptions = 3
  MaxBatch = 2
  MaxProofs = 2
  MaxOverwrites = 1
  MaxTime = 1
  MaxBalance = 40
  UsdcOfUsers = 12
  UsdcOfFund = 20
  InitialUsdc <- mcInitialUsdc
  Prices = {1}
  Timestamps = {1}
  MaxPriceId = 1
  PriceUpdaters = {updater}
  BPS_DENOMINATOR = 4
  ONE = 1
  decimalsMultiplier = 1
INVARIANTS EveryRedemptionHasItsOwnId EveryPayoutHasItsBurn EveryPayoutHasItsPrice OffChainRedemptionsStayOffChain
