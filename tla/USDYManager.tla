----------------------------- MODULE USDYManager -----------------------------
(***************************************************************************)
(* contracts/usdy/USDYManager.sol with the two contracts it inherits,      *)
(* contracts/RWAHub.sol and contracts/RWAHubOffChainRedemptions.sol: users *)
(* subscribe with collateral (USDC) and later claim USDY, or burn USDY and *)
(* later claim collateral, at prices read from the Pricer.                 *)
(*                                                                         *)
(* Every external function is one action.  A call of the EVM is atomic and *)
(* a call that reverts changes nothing, so a revert is a false guard.  The *)
(* arrays of ids that callers pass are sets: a call that names an id twice *)
(* reverts, or sets the same value twice.                                  *)
(***************************************************************************)
EXTENDS Pricer, USDYRestrictions, HubMath, FiniteSets

CONSTANTS Users,          \* the customers
          Operators,      \* the accounts that may hold a role
          RoleMembers,    \* role -> its holders, fixed here
          Manager,        \* the address of this contract, the caller of USDY
          AssetRecipient, \* assetRecipient: where the deposits go
          AssetSenders,   \* what assetSender may be set to
          FeeRecipients,  \* what feeRecipient may be set to
          ThePricer,      \* the Pricer of module Pricer
          EmptyPricer,    \* a Pricer newly deployed, with no prices yet
          TxHashes        \* hashes of the deposits relayed by addProof

\* Bounds of the model: the inputs tried and the length of a behaviour.
CONSTANTS DepositAmounts, RedemptionAmounts, Fees, Minimums, InitialMinimums,
          PausableFeatures, NewPricers, NewFeeRecipients, NewAssetSenders,
          OverwriteUsers, OverwriteAmounts,
          MaxDeposits, MaxRedemptions, MaxBatch, MaxProofs, MaxOverwrites,
          MaxTime, MaxBalance, InitialUsdc

Roles    == {"MANAGER_ADMIN", "PAUSER_ADMIN", "PRICE_ID_SETTER_ROLE", "RELAYER_ROLE",
             "TIMESTAMP_SETTER_ROLE"}
Features == {"subscription", "redemption", "offChainRedemption"}

ASSUME ManagerAssumption ==
  /\ Users \subseteq Accounts /\ AssetSenders \subseteq Accounts
  /\ FeeRecipients \subseteq Accounts
  /\ Manager \in Contracts /\ AssetRecipient \in Accounts
  /\ Users \cap (AssetSenders \cup FeeRecipients \cup Contracts \cup {AssetRecipient}) = {}
  /\ ThePricer # NullAddress /\ EmptyPricer # NullAddress /\ ThePricer # EmptyPricer
  /\ RoleMembers \in [Roles -> SUBSET Operators]

ASSUME BoundsAssumption ==
  /\ DepositAmounts \subseteq Nat /\ RedemptionAmounts \subseteq Nat
  /\ Fees \subseteq Nat /\ Minimums \subseteq Nat /\ InitialMinimums \subseteq Nat
  /\ PausableFeatures \subseteq Features
  /\ NewPricers \subseteq {NullAddress, ThePricer, EmptyPricer}
  /\ NewFeeRecipients \subseteq FeeRecipients \cup {NullAddress}
  /\ NewAssetSenders \subseteq AssetSenders \cup {NullAddress}
  /\ OverwriteUsers \subseteq Users \cup {NullAddress} /\ OverwriteAmounts \subseteq Nat
  /\ MaxDeposits \in Nat /\ MaxRedemptions \in Nat /\ MaxBatch \in Nat
  /\ MaxProofs \in Nat /\ MaxOverwrites \in Nat /\ MaxTime \in Nat \ {0}
  /\ MaxBalance \in Nat
  /\ InitialUsdc \in [Accounts -> 0 .. MaxBalance]

\* The hash of a transaction is never one of the numbers that count the requests.
ASSUME TxHashAssumption == TxHashes \cap (1 .. MaxDeposits) = {}

VARIABLES depositIdToDepositor,          \* depositId -> Depositor
          redemptionIdToRedeemer,        \* redemptionId -> Redeemer
          subscriptionRequestCounter,    \* the next depositId
          redemptionRequestCounter,      \* the next redemptionId
          depositIdToClaimableTimestamp, \* depositId -> time, 0 when not set
          config,                        \* the settings of the administrators
          paused,                        \* the three pause flags
          usdc, usdy,                    \* the balances of the two tokens
          now                            \* block.timestamp

(* History variables: what was done under each id, read by no action.      *)
VARIABLES depositHistory,    \* id -> how often opened, timed and minted, and, as
                             \* pricedFor, which of the deposits was priced last
          redemptionHistory, \* id -> how often requested, reopened and paid, and
                             \* which of the requests was priced last
          offChainIds,       \* the ids given to off-chain redemptions
          overwrites         \* the number of calls to the two overwrite functions

depositVars    == <<depositIdToDepositor, subscriptionRequestCounter,
                    depositIdToClaimableTimestamp, depositHistory>>
redemptionVars == <<redemptionIdToRedeemer, redemptionRequestCounter,
                    redemptionHistory, offChainIds>>
managerVars    == <<depositVars, redemptionVars, config, paused, usdc, usdy, now, overwrites>>
vars           == <<pricerVars, restrictionVars, managerVars>>

DepositIds    == (1 .. MaxDeposits) \cup TxHashes
RedemptionIds == 1 .. MaxRedemptions
AnyUser       == Users \cup {NullAddress}

Depositor == [user : AnyUser, amount : Nat, priceId : PriceIds]
Redeemer  == Depositor
NoEntry   == [user |-> NullAddress, amount |-> 0, priceId |-> 0]

Balances == [Accounts -> 0 .. MaxBalance]

Config == [pricer : {NullAddress, ThePricer, EmptyPricer},
           assetSender : AssetSenders \cup {NullAddress},
           feeRecipient : FeeRecipients \cup {NullAddress},
           minimumDepositAmount : Nat, minimumRedemptionAmount : Nat,
           minimumOffChainRedemptionAmount : Nat,
           mintFee : 0 .. BPS_DENOMINATOR, redemptionFee : 0 .. BPS_DENOMINATOR,
           blocklist : Blocklists, sanctionsList : SanctionsLists]

DepositHistory    == [opened : Nat, pricedFor : Nat, timed : Nat, minted : Nat]
RedemptionHistory == [requested : Nat, reopened : Nat, pricedFor : Nat, paid : Nat]

-----------------------------------------------------------------------------
TypeOK ==
  /\ PricerTypeOK
  /\ RestrictionsTypeOK
  /\ depositIdToDepositor \in [DepositIds -> Depositor]
  /\ redemptionIdToRedeemer \in [RedemptionIds -> Redeemer]
  /\ subscriptionRequestCounter \in 1 .. MaxDeposits + 1
  /\ redemptionRequestCounter \in 1 .. MaxRedemptions + 1
  /\ depositIdToClaimableTimestamp \in [DepositIds -> 0 .. MaxTime]
  /\ config \in Config
  /\ paused \in [Features -> BOOLEAN]
  /\ usdc \in Balances
  /\ usdy \in Balances
  /\ now \in 1 .. MaxTime
  /\ depositHistory \in [DepositIds -> DepositHistory]
  /\ redemptionHistory \in [RedemptionIds -> RedemptionHistory]
  /\ offChainIds \in SUBSET RedemptionIds
  /\ overwrites \in Nat

\* The deployed contracts, before setPricer; the minimums are not checked here.
Init ==
  /\ PricerInit
  /\ RestrictionsInit
  /\ depositIdToDepositor = [id \in DepositIds |-> NoEntry]
  /\ redemptionIdToRedeemer = [id \in RedemptionIds |-> NoEntry]
  /\ subscriptionRequestCounter = 1
  /\ redemptionRequestCounter = 1
  /\ depositIdToClaimableTimestamp = [id \in DepositIds |-> 0]
  /\ \E assetSender \in AssetSenders, feeRecipient \in FeeRecipients,
        minDeposit \in InitialMinimums, minRedemption \in InitialMinimums :
       config = [pricer |-> NullAddress,
                 assetSender |-> assetSender, feeRecipient |-> feeRecipient,
                 minimumDepositAmount |-> minDeposit,
                 minimumRedemptionAmount |-> minRedemption,
                 minimumOffChainRedemptionAmount |-> minRedemption,
                 mintFee |-> 0, redemptionFee |-> 0,
                 blocklist |-> token.blocklist, sanctionsList |-> token.sanctionsList]
  /\ paused = [feature \in Features |-> FALSE]
  /\ usdc = InitialUsdc
  /\ usdy = [a \in Accounts |-> 0]
  /\ now = 1
  /\ depositHistory =
       [id \in DepositIds |-> [opened |-> 0, pricedFor |-> 0, timed |-> 0, minted |-> 0]]
  /\ redemptionHistory =
       [id \in RedemptionIds |-> [requested |-> 0, reopened |-> 0, pricedFor |-> 0, paid |-> 0]]
  /\ offChainIds = {}
  /\ overwrites = 0

-----------------------------------------------------------------------------
(* Checks and effects shared by the functions.                             *)

One(condition) == IF condition THEN 1 ELSE 0

IsOpen(entry) == entry.user # NullAddress

OnlyRole(role, sender) == sender \in RoleMembers[role]

(* Mutation: the flag of the off-chain redemptions pauses all redemptions. *)
IfNotOtherPaused(feature) ==
  ~paused[IF feature = "redemption" THEN "offChainRedemption" ELSE feature]

IfNotPaused(feature) == ~paused[feature]

(* Mutation: the sanctions list is not consulted.                          *)
BlocklistedOnly(account) == account \in listed[config.blocklist]

\* What _checkRestrictions reverts on: the manager's own lists, no allowlist.
Restricted(account) == IsListed(config.blocklist, config.sanctionsList, account)

Batches(S) == {batch \in SUBSET S : batch # {} /\ Cardinality(batch) <= MaxBatch}

\* The price that pricer.getPrice returns for an id, 0 for an unknown one.
PriceOf(priceId) == IF config.pricer = ThePricer THEN prices[priceId].price ELSE 0

\* The call itself reverts while the pricer is address(0).
HasPricer == config.pricer # NullAddress

To(account, amount) == [a \in Accounts |-> IF a = account THEN amount ELSE 0]

\* Transfers of the collateral; one that exceeds a balance reverts.
MoveUsdc(from, to) ==
  LET after == [a \in Accounts |-> usdc[a] - from[a] + to[a]]
  IN  /\ \A a \in Accounts : from[a] <= usdc[a]
      /\ after \in Balances
      /\ usdc' = after

\* rwa.mint to several users, each with its own amount
MintUsdy(to) ==
  LET after == [a \in Accounts |-> usdy[a] + to[a]]
  IN  after \in Balances /\ usdy' = after

(***************************************************************************)
(* rwa.burnFrom, called by the manager.  The allowance that the holder has *)
(* to have granted is the holder's choice and is left out.                 *)
(***************************************************************************)
BurnUsdyFrom(holder, amount) ==
  /\ BeforeTokenTransfer(Manager, holder, NullAddress)
  /\ amount <= usdy[holder]
  /\ usdy' = [usdy EXCEPT ![holder] = @ - amount]

\* The collateral does not go to address(0): a transfer of it reverts.
FeesCanBePaid(fees) == fees > 0 => config.feeRecipient # NullAddress

FeesTo(fees) == To(config.feeRecipient, fees)

-----------------------------------------------------------------------------
(* Subscriptions.                                                          *)

AmountAfterFee(amount, fee) == amount - fee

NextDepositId(id) == id + 1

Opens(history, id) == [history EXCEPT ![id].opened = @ + 1]

(* Mutation: the price id that the entry has already is left as it is.     *)
KeepingPriceId(entries, id, user, amount) ==
  [entries EXCEPT ![id].user = user, ![id].amount = amount]

\* A new request overwrites the whole entry of its id: it has no price id yet.
WithRequest(entries, id, user, amount) ==
  [entries EXCEPT ![id] = [user |-> user, amount |-> amount, priceId |-> 0]]

RequestSubscription(sender, amount) ==
  LET id  == subscriptionRequestCounter
      fee == FeesAt(config.mintFee, amount)
      net == AmountAfterFee(amount, fee)
  IN  /\ id <= MaxDeposits
      /\ sender \in Users
      /\ IfNotPaused("subscription")
      /\ ~Restricted(sender)
      /\ amount >= config.minimumDepositAmount
      /\ FeesCanBePaid(fee)
      /\ MoveUsdc(To(sender, amount),
                  [a \in Accounts |-> FeesTo(fee)[a] + To(AssetRecipient, amount - fee)[a]])
      /\ depositIdToDepositor' = WithRequest(depositIdToDepositor, id, sender, net)
      /\ subscriptionRequestCounter' = NextDepositId(id)
      /\ depositHistory' = Opens(depositHistory, id)
      /\ UNCHANGED <<pricerVars, restrictionVars, depositIdToClaimableTimestamp,
                     redemptionVars, config, paused, usdy, now, overwrites>>

(* Mutation: a proof is accepted for a deposit that is still open.         *)
AnyProof(txHash) == TRUE

NoProofYet(txHash) == depositIdToDepositor[txHash].user = NullAddress

\* The fee and the timestamp of the deposit are only emitted.
AddProof(sender, txHash, user, depositAmountAfterFee) ==
  /\ depositHistory[txHash].opened < MaxProofs
  /\ OnlyRole("RELAYER_ROLE", sender)
  /\ ~Restricted(user)
  /\ NoProofYet(txHash)
  /\ depositIdToDepositor' =
       WithRequest(depositIdToDepositor, txHash, user, depositAmountAfterFee)
  /\ depositHistory' = Opens(depositHistory, txHash)
  /\ UNCHANGED <<pricerVars, restrictionVars, subscriptionRequestCounter,
                 depositIdToClaimableTimestamp, redemptionVars, config, paused,
                 usdc, usdy, now, overwrites>>

(* Mutation: a price id that was set may be replaced.                      *)
MayReplacePriceId(entry) == TRUE

PriceIdNotSet(entry) == entry.priceId = 0

\* The entries of the batch with the price ids given for them.
WithPriceIds(entries, priceIdOf) ==
  [id \in DOMAIN entries |-> IF id \in DOMAIN priceIdOf
                               THEN [entries[id] EXCEPT !.priceId = priceIdOf[id]]
                               ELSE entries[id]]

\* A price id of 0 is accepted and gives no price.
GivesPriceId(priceIdOf, id) == id \in DOMAIN priceIdOf /\ priceIdOf[id] # 0

DepositsPriced(priceIdOf) ==
  [id \in DepositIds |->
     IF GivesPriceId(priceIdOf, id)
       THEN [depositHistory[id] EXCEPT !.pricedFor = depositHistory[id].opened]
       ELSE depositHistory[id]]

SetPriceIdForDeposits(sender, priceIdOf) ==
  /\ OnlyRole("PRICE_ID_SETTER_ROLE", sender)
  /\ \A id \in DOMAIN priceIdOf : /\ depositIdToDepositor[id].user # NullAddress
                                  /\ PriceIdNotSet(depositIdToDepositor[id])
  /\ depositIdToDepositor' = WithPriceIds(depositIdToDepositor, priceIdOf)
  /\ depositHistory' = DepositsPriced(priceIdOf)
  /\ UNCHANGED <<pricerVars, restrictionVars, subscriptionRequestCounter,
                 depositIdToClaimableTimestamp, redemptionVars, config, paused,
                 usdc, usdy, now, overwrites>>

\* Any id is accepted, and a time that was set may be moved.
SetClaimableTimestamp(sender, claimTimestamp, depositIds) ==
  /\ OnlyRole("TIMESTAMP_SETTER_ROLE", sender)
  /\ claimTimestamp >= now
  /\ depositIdToClaimableTimestamp' =
       [id \in DepositIds |-> IF id \in depositIds THEN claimTimestamp
                              ELSE depositIdToClaimableTimestamp[id]]
  /\ depositHistory' =
       [id \in DepositIds |->
          IF id \in depositIds /\ depositIdToClaimableTimestamp[id] = 0
            THEN [depositHistory[id] EXCEPT !.timed = @ + 1]
            ELSE depositHistory[id]]
  /\ UNCHANGED <<pricerVars, restrictionVars, depositIdToDepositor,
                 subscriptionRequestCounter, redemptionVars, config, paused,
                 usdc, usdy, now, overwrites>>

(* Mutation: the entry is left in place by a claim.                        *)
KeepEntries(entries, ids) == entries

DeleteEntries(entries, ids) ==
  [id \in DOMAIN entries |-> IF id \in ids THEN NoEntry ELSE entries[id]]

(* Mutation: the claimable timestamp outlives the claim.                   *)
KeepTimestamps(ids) == depositIdToClaimableTimestamp

DeleteTimestamps(ids) ==
  [id \in DepositIds |-> IF id \in ids THEN 0 ELSE depositIdToClaimableTimestamp[id]]

\* The checks of USDYManager._claimMint
TimestampReached(id) ==
  /\ depositIdToClaimableTimestamp[id] # 0
  /\ depositIdToClaimableTimestamp[id] <= now

\* The USDY owed for an open deposit; only read when its price is not 0
UsdyOwed(id) == MintAmountForPrice(depositIdToDepositor[id].amount,
                                   PriceOf(depositIdToDepositor[id].priceId))

\* What a batch of claims mints to each account
UsdyOwedTo(depositIds) ==
  [a \in Accounts |->
     Sum([id \in depositIds |-> UsdyOwed(id)],
         {id \in depositIds : depositIdToDepositor[id].user = a})]

(***************************************************************************)
(* Callable by anyone for anyone's deposits.  One id that is not ready     *)
(* reverts the whole batch.  The checks of the user are those of the mint; *)
(* a price of 0 makes _getMintAmountForPrice divide by zero.               *)
(***************************************************************************)
ClaimMint(depositIds) ==
  /\ IfNotPaused("subscription")
  /\ \A id \in depositIds :
       LET depositor == depositIdToDepositor[id]
       IN  /\ TimestampReached(id)
           /\ depositor.priceId # 0
           /\ HasPricer
           /\ PriceOf(depositor.priceId) # 0
           /\ depositor.user # NullAddress
           /\ BeforeTokenTransfer(Manager, NullAddress, depositor.user)
  /\ MintUsdy(UsdyOwedTo(depositIds))
  /\ depositIdToDepositor' = DeleteEntries(depositIdToDepositor, depositIds)
  /\ depositIdToClaimableTimestamp' = DeleteTimestamps(depositIds)
  /\ depositHistory' = [id \in DepositIds |->
        IF id \in depositIds THEN [depositHistory[id] EXCEPT !.minted = @ + 1]
                             ELSE depositHistory[id]]
  /\ UNCHANGED <<pricerVars, restrictionVars, subscriptionRequestCounter,
                 redemptionVars, config, paused, usdc, now, overwrites>>

-----------------------------------------------------------------------------
(* Redemptions.                                                            *)

RequestRedemption(sender, amount) ==
  LET id == redemptionRequestCounter
  IN  /\ id <= MaxRedemptions
      /\ sender \in Users
      /\ IfNotPaused("redemption")
      /\ amount >= config.minimumRedemptionAmount
      /\ redemptionRequestCounter' = id + 1
      /\ redemptionIdToRedeemer' = WithRequest(redemptionIdToRedeemer, id, sender, amount)
      /\ BurnUsdyFrom(sender, amount)
      /\ redemptionHistory' = [redemptionHistory EXCEPT ![id].requested = @ + 1]
      /\ UNCHANGED <<pricerVars, restrictionVars, depositVars, offChainIds, config,
                     paused, usdc, now, overwrites>>

(* Mutation: off-chain requests do not advance the shared counter.         *)
SameRedemptionId(id) == id

NextRedemptionId(id) == id + 1

\* Burns as the other does, and takes an id, but stores no entry under it.
RequestRedemptionServicedOffchain(sender, amount) ==
  LET id == redemptionRequestCounter
  IN  /\ id <= MaxRedemptions
      /\ sender \in Users
      /\ IfNotPaused("offChainRedemption")
      /\ amount >= config.minimumOffChainRedemptionAmount
      /\ redemptionRequestCounter' = NextRedemptionId(id)
      /\ BurnUsdyFrom(sender, amount)
      /\ offChainIds' = offChainIds \cup {id}
      /\ UNCHANGED <<pricerVars, restrictionVars, depositVars, redemptionIdToRedeemer,
                     redemptionHistory, config, paused, usdc, now, overwrites>>

\* How many requests an id has held so far, those of the manager included
Requests(history) == history.requested + history.reopened

RedemptionsPriced(priceIdOf) ==
  [id \in RedemptionIds |->
     IF GivesPriceId(priceIdOf, id)
       THEN [redemptionHistory[id] EXCEPT !.pricedFor = Requests(redemptionHistory[id])]
       ELSE redemptionHistory[id]]

\* Unlike for deposits, the entry need not have a user.
SetPriceIdForRedemptions(sender, priceIdOf) ==
  /\ OnlyRole("PRICE_ID_SETTER_ROLE", sender)
  /\ \A id \in DOMAIN priceIdOf : PriceIdNotSet(redemptionIdToRedeemer[id])
  /\ redemptionIdToRedeemer' = WithPriceIds(redemptionIdToRedeemer, priceIdOf)
  /\ redemptionHistory' = RedemptionsPriced(priceIdOf)
  /\ UNCHANGED <<pricerVars, restrictionVars, depositVars, redemptionRequestCounter,
                 offChainIds, config, paused, usdc, usdy, now, overwrites>>

CollateralDue(id) == RedemptionAmountForRwa(redemptionIdToRedeemer[id].amount,
                                            PriceOf(redemptionIdToRedeemer[id].priceId))

RedemptionFeesOf(id) == FeesAt(config.redemptionFee, CollateralDue(id))

\* What a batch of claims pays to each account, without the fees
CollateralDueTo(redemptionIds) ==
  [a \in Accounts |->
     Sum([id \in redemptionIds |-> CollateralDue(id) - RedemptionFeesOf(id)],
         {id \in redemptionIds : redemptionIdToRedeemer[id].user = a})]

(* Mutation: the lists are consulted when a redemption is requested only.  *)
MayBePaidLater(user) == user # NullAddress

\* The user must pass _checkRestrictions; USDC refuses to pay to address(0).
MayBePaid(user) == ~Restricted(user) /\ user # NullAddress

(***************************************************************************)
(* Callable by anyone, like claimMint.  A price of 0, read for an id that  *)
(* the pricer does not know, is not a revert here: nothing is due then.    *)
(***************************************************************************)
ClaimRedemption(redemptionIds) ==
  LET fees  == Sum([id \in redemptionIds |-> RedemptionFeesOf(id)], redemptionIds)
      dueTo == CollateralDueTo(redemptionIds)
      total == Sum([id \in redemptionIds |-> CollateralDue(id)], redemptionIds)
  IN  /\ IfNotPaused("redemption")
      /\ \A id \in redemptionIds :
           /\ MayBePaid(redemptionIdToRedeemer[id].user)
           /\ redemptionIdToRedeemer[id].priceId # 0
      /\ HasPricer
      /\ config.assetSender # NullAddress
      /\ FeesCanBePaid(fees)
      /\ MoveUsdc(To(config.assetSender, total),
                  [a \in Accounts |-> dueTo[a] + FeesTo(fees)[a]])
      /\ redemptionIdToRedeemer' = DeleteEntries(redemptionIdToRedeemer, redemptionIds)
      /\ redemptionHistory' = [id \in RedemptionIds |->
            IF id \in redemptionIds THEN [redemptionHistory[id] EXCEPT !.paid = @ + 1]
                                    ELSE redemptionHistory[id]]
      /\ UNCHANGED <<pricerVars, restrictionVars, depositVars, redemptionRequestCounter,
                     offChainIds, config, paused, usdy, now, overwrites>>

-----------------------------------------------------------------------------
(* Administration.                                                         *)

\* The entries may be any, also of ids that no request was given yet.
OverwriteDepositor(sender, id, user, amount, priceId) ==
  /\ overwrites < MaxOverwrites
  /\ OnlyRole("MANAGER_ADMIN", sender)
  /\ ~Restricted(user)
  /\ depositIdToDepositor' = [depositIdToDepositor EXCEPT ![id] =
        [user |-> user, amount |-> amount, priceId |-> priceId]]
  /\ LET old    == depositHistory[id]
         opened == old.opened + One(~IsOpen(depositIdToDepositor[id]))
     IN  depositHistory' = [depositHistory EXCEPT ![id] =
           [opened |-> opened, pricedFor |-> IF priceId # 0 THEN opened ELSE old.pricedFor,
            timed |-> old.timed, minted |-> old.minted]]
  /\ overwrites' = overwrites + 1
  /\ UNCHANGED <<pricerVars, restrictionVars, subscriptionRequestCounter,
                 depositIdToClaimableTimestamp, redemptionVars, config, paused,
                 usdc, usdy, now>>

OverwriteRedeemer(sender, id, user, amount, priceId) ==
  /\ overwrites < MaxOverwrites
  /\ OnlyRole("MANAGER_ADMIN", sender)
  /\ ~Restricted(user)
  /\ redemptionIdToRedeemer' = [redemptionIdToRedeemer EXCEPT ![id] =
        [user |-> user, amount |-> amount, priceId |-> priceId]]
  /\ LET old      == redemptionHistory[id]
         reopened == old.reopened + One(~IsOpen(redemptionIdToRedeemer[id]))
     IN  redemptionHistory' = [redemptionHistory EXCEPT ![id] =
           [requested |-> old.requested, reopened |-> reopened, paid |-> old.paid,
            pricedFor |-> IF priceId # 0 THEN old.requested + reopened ELSE old.pricedFor]]
  /\ overwrites' = overwrites + 1
  /\ UNCHANGED <<pricerVars, restrictionVars, depositVars, redemptionRequestCounter,
                 offChainIds, config, paused, usdc, usdy, now>>

\* What every setter of the manager has in common
Configure(sender, newConfig) ==
  /\ OnlyRole("MANAGER_ADMIN", sender)
  /\ config' = newConfig
  /\ UNCHANGED <<pricerVars, restrictionVars, depositVars, redemptionVars, paused,
                 usdc, usdy, now, overwrites>>

SetMinimumRedemptionAmount(sender, amount) ==
  /\ amount >= BPS_DENOMINATOR
  /\ Configure(sender, [config EXCEPT !.minimumRedemptionAmount = amount])

SetMinimumDepositAmount(sender, amount) ==
  /\ amount >= BPS_DENOMINATOR
  /\ Configure(sender, [config EXCEPT !.minimumDepositAmount = amount])

\* The other two minimums have a lower bound, this one has none.
SetOffChainRedemptionMinimum(sender, amount) ==
  Configure(sender, [config EXCEPT !.minimumOffChainRedemptionAmount = amount])

(* Mutation: a fee of more than the whole amount is accepted.              *)
AnyFee(fee) == TRUE

FeeIsAllowed(fee) == fee <= BPS_DENOMINATOR

SetMintFee(sender, fee) ==
  FeeIsAllowed(fee) /\ Configure(sender, [config EXCEPT !.mintFee = fee])

SetRedemptionFee(sender, fee) ==
  FeeIsAllowed(fee) /\ Configure(sender, [config EXCEPT !.redemptionFee = fee])

SetPricer(sender, newPricer) ==
  Configure(sender, [config EXCEPT !.pricer = newPricer])

SetFeeRecipient(sender, newFeeRecipient) ==
  Configure(sender, [config EXCEPT !.feeRecipient = newFeeRecipient])

SetAssetSender(sender, newAssetSender) ==
  Configure(sender, [config EXCEPT !.assetSender = newAssetSender])

SetBlocklist(sender, list) ==
  list # NullAddress /\ Configure(sender, [config EXCEPT !.blocklist = list])

SetSanctionsList(sender, list) ==
  list # NullAddress /\ Configure(sender, [config EXCEPT !.sanctionsList = list])

SetPaused(sender, role, feature, flag) ==
  /\ OnlyRole(role, sender)
  /\ paused' = [paused EXCEPT ![feature] = flag]
  /\ UNCHANGED <<pricerVars, restrictionVars, depositVars, redemptionVars, config,
                 usdc, usdy, now, overwrites>>

\* Pausing and unpausing are the business of different roles.
Pause(sender, feature)   == SetPaused(sender, "PAUSER_ADMIN", feature, TRUE)
Unpause(sender, feature) == SetPaused(sender, "MANAGER_ADMIN", feature, FALSE)

-----------------------------------------------------------------------------
\* Steps of the components that the manager reads, and of the clock.
PricerStep       == PricerNext /\ UNCHANGED <<restrictionVars, managerVars>>
RestrictionsStep == RestrictionsNext /\ UNCHANGED <<pricerVars, managerVars>>
Tick == /\ now < MaxTime
        /\ now' = now + 1
        /\ UNCHANGED <<pricerVars, restrictionVars, depositVars, redemptionVars,
                       config, paused, usdc, usdy, overwrites>>

UserNext(sender) ==
  \/ \E amount \in DepositAmounts : RequestSubscription(sender, amount)
  \/ \E amount \in RedemptionAmounts :
       \/ RequestRedemption(sender, amount)
       \/ RequestRedemptionServicedOffchain(sender, amount)

AnyoneNext == \/ \E ids \in Batches(DepositIds) : ClaimMint(ids)
              \/ \E ids \in Batches(RedemptionIds) : ClaimRedemption(ids)

OperatorNext(sender) ==
  \/ \E txHash \in TxHashes, user \in Users, amount \in DepositAmounts :
       AddProof(sender, txHash, user, amount)
  \/ \E ids \in Batches(DepositIds) :
       \/ \E priceIdOf \in [ids -> PriceIds] : SetPriceIdForDeposits(sender, priceIdOf)
       \/ \E time \in 1 .. MaxTime : SetClaimableTimestamp(sender, time, ids)
  \/ \E ids \in Batches(RedemptionIds) : \E priceIdOf \in [ids -> PriceIds] :
       SetPriceIdForRedemptions(sender, priceIdOf)

OverwriteNext(sender) ==
  \E user \in OverwriteUsers, amount \in OverwriteAmounts, priceId \in PriceIds :
    \/ \E id \in DepositIds : OverwriteDepositor(sender, id, user, amount, priceId)
    \/ \E id \in RedemptionIds : OverwriteRedeemer(sender, id, user, amount, priceId)

ConfigureNext(sender) ==
  \/ \E amount \in Minimums : \/ SetMinimumRedemptionAmount(sender, amount)
                              \/ SetMinimumDepositAmount(sender, amount)
                              \/ SetOffChainRedemptionMinimum(sender, amount)
  \/ \E fee \in Fees : SetMintFee(sender, fee) \/ SetRedemptionFee(sender, fee)
  \/ \E newPricer \in NewPricers : SetPricer(sender, newPricer)
  \/ \E newFeeRecipient \in NewFeeRecipients : SetFeeRecipient(sender, newFeeRecipient)
  \/ \E newAssetSender \in NewAssetSenders : SetAssetSender(sender, newAssetSender)
  \/ \E list \in Blocklists \cup {NullAddress} : SetBlocklist(sender, list)
  \/ \E list \in SanctionsLists \cup {NullAddress} : SetSanctionsList(sender, list)
  \/ \E feature \in PausableFeatures : Pause(sender, feature) \/ Unpause(sender, feature)

Next == \/ \E sender \in Users : UserNext(sender)
        \/ AnyoneNext
        \/ \E sender \in Operators :
             OperatorNext(sender) \/ OverwriteNext(sender) \/ ConfigureNext(sender)
        \/ PricerStep
        \/ RestrictionsStep
        \/ Tick

Spec == Init /\ [][Next]_vars
-----------------------------------------------------------------------------
(* Safety.                                                                 *)

(***************************************************************************)
(* A deposit is minted at most once: every mint, and the entry still open, *)
(* has a request, a proof or an overwritten empty entry of its own behind  *)
(* it, through any sequence of claims, relayed proofs and overwrites       *)
(* (_claimMint deletes the entry in the step that mints).                  *)
(***************************************************************************)
EveryMintHasItsDeposit ==
  \A id \in DepositIds :
    depositHistory[id].minted + One(IsOpen(depositIdToDepositor[id]))
      <= depositHistory[id].opened

(***************************************************************************)
(* The price id of an open deposit, which is what its mint will use, was   *)
(* given to this very deposit: not to an earlier one of the same id, and   *)
(* not to the id while it held none (overwriteDepositor may leave an entry *)
(* without a user that has a price id; addProof clears it).                *)
(***************************************************************************)
EveryMintHasItsPrice ==
  \A id \in DepositIds :
    IsOpen(depositIdToDepositor[id]) /\ depositIdToDepositor[id].priceId # 0
      => depositHistory[id].pricedFor = depositHistory[id].opened

(***************************************************************************)
(* No claimable time is used for two mints: each mint uses up a time, and  *)
(* the next deposit of the same id waits for another to be set.  The time  *)
(* need not have been set for the deposit that it serves: one set before   *)
(* there is a deposit, or left behind by overwriteDepositor, also does.    *)
(***************************************************************************)
EveryMintHasItsTime ==
  \A id \in DepositIds :
    depositHistory[id].minted + One(depositIdToClaimableTimestamp[id] # 0)
      = depositHistory[id].timed

(***************************************************************************)
(* On-chain and off-chain redemptions share one counter: every id below it *)
(* belongs to exactly one request, every other to none.                    *)
(***************************************************************************)
EveryRedemptionHasItsOwnId ==
  \A id \in RedemptionIds :
    redemptionHistory[id].requested + One(id \in offChainIds)
      = One(id < redemptionRequestCounter)

(***************************************************************************)
(* A redemption is paid at most once: every payout, and the entry still    *)
(* open, has a burn of its own behind it or an entry the manager reopened. *)
(***************************************************************************)
EveryPayoutHasItsBurn ==
  \A id \in RedemptionIds :
    redemptionHistory[id].paid + One(IsOpen(redemptionIdToRedeemer[id]))
      <= redemptionHistory[id].requested + redemptionHistory[id].reopened

(***************************************************************************)
(* The price id of an open redemption, which is what its payout will use,  *)
(* was given to this very request: not to an earlier one of the same id,   *)
(* and not to the id before it was requested, which is allowed, so that    *)
(* the request has to clear it.                                            *)
(***************************************************************************)
EveryPayoutHasItsPrice ==
  \A id \in RedemptionIds :
    IsOpen(redemptionIdToRedeemer[id]) /\ redemptionIdToRedeemer[id].priceId # 0
      => redemptionHistory[id].pricedFor = Requests(redemptionHistory[id])

(***************************************************************************)
(* What is to be serviced off chain is not also paid on chain, although    *)
(* setPriceIdForRedemptions accepts its id: unless the manager writes an   *)
(* entry for the id, no collateral is claimed under it.                    *)
(***************************************************************************)
OffChainRedemptionsStayOffChain ==
  \A id \in offChainIds : redemptionHistory[id].paid <= redemptionHistory[id].reopened

\* The unit of account below: a price in collateral per RWA token, times unit
unit == ONE * decimalsMultiplier

\* At a price: what the users hold, wait for and were paid
UsersShare(price) ==
  LET unclaimed == Sum([id \in DepositIds |-> depositIdToDepositor[id].amount], DepositIds)
      burned    == Sum([id \in RedemptionIds |-> redemptionIdToRedeemer[id].amount],
                       RedemptionIds)
      paidOut   == Sum([a \in Accounts |-> InitialUsdc[a] - usdc[a]], AssetSenders)
  IN  price * (Sum(usdy, Accounts) + burned) + unit * (unclaimed + paidOut)

(***************************************************************************)
(* Rounding and fees favour the fund: while every price is the same, what  *)
(* the deposits brought in covers the USDY in circulation, the redemptions *)
(* and deposits not yet claimed and all that was paid out, in every order  *)
(* of requests and claims.  For instances with one price, no relayed       *)
(* deposits and no overwritten entries.                                    *)
(***************************************************************************)
FundCovered ==
  \A price \in Prices \ {0} : UsersShare(price) <= unit * usdc[AssetRecipient]

(***************************************************************************)
(* Rounding costs the users next to nothing, and no request is lost: what  *)
(* the deposits brought in and the users no longer have a claim to is less *)
(* than one unit of RWA for each mint and one of collateral for each       *)
(* payout.  For the same instances, as long as nothing is redeemed off     *)
(* chain.                                                                  *)
(***************************************************************************)
UsersCovered ==
  LET mints   == Sum([id \in DepositIds |-> depositHistory[id].minted], DepositIds)
      payouts == Sum([id \in RedemptionIds |-> redemptionHistory[id].paid], RedemptionIds)
  IN  offChainIds = {} =>
        \A price \in Prices \ {0} :
          unit * usdc[AssetRecipient]
            <= UsersShare(price) + mints * (price - 1) + payouts * (unit - 1)

-----------------------------------------------------------------------------
(* What a step may never do.                                               *)

IssuedDeposits == TxHashes \cup {id \in DepositIds \ TxHashes : id < subscriptionRequestCounter}

Minted(id) == depositHistory[id].minted
Paid(id)   == redemptionHistory[id].paid

KeepsItsTerms(old, new) ==
  /\ new.user = old.user /\ new.amount = old.amount
  /\ old.priceId # 0 => new.priceId = old.priceId

(***************************************************************************)
(* An open request keeps its user, its amount and, once set, its price id  *)
(* until it is claimed: no request, proof, price or claim of somebody else *)
(* touches it.  Only the two overwrite functions may.                      *)
(***************************************************************************)
OpenRequestsAreKept ==
  [][ overwrites' = overwrites =>
        /\ \A id \in IssuedDeposits :
             IsOpen(depositIdToDepositor[id]) =>
               \/ Minted(id)' > Minted(id)
               \/ KeepsItsTerms(depositIdToDepositor[id], depositIdToDepositor'[id])
        /\ \A id \in 1 .. redemptionRequestCounter - 1 :
             IsOpen(redemptionIdToRedeemer[id]) =>
               \/ Paid(id)' > Paid(id)
               \/ KeepsItsTerms(redemptionIdToRedeemer[id], redemptionIdToRedeemer'[id]) ]_vars

\* Nothing but a pause, the lists or the token stands between it and its mint.
Claimable(id) == /\ IsOpen(depositIdToDepositor[id])
                 /\ depositIdToDepositor[id].priceId # 0
                 /\ PriceOf(depositIdToDepositor[id].priceId) # 0
                 /\ TimestampReached(id)

(***************************************************************************)
(* A deposit that can be claimed stays so until it is: new prices and      *)
(* corrected prices, other requests and claims, and time do not undo it.   *)
(* The manager may (overwriting it, replacing the pricer), and a later     *)
(* claimable time may be set.                                              *)
(***************************************************************************)
ClaimableUntilClaimed ==
  [][ \A id \in IssuedDeposits :
        Claimable(id) => \/ Claimable(id)'
                         \/ Minted(id)' > Minted(id)
                         \/ overwrites' # overwrites
                         \/ config'.pricer # config.pricer
                         \/ depositIdToClaimableTimestamp'[id]
                              > depositIdToClaimableTimestamp[id] ]_vars

(***************************************************************************)
(* Each token moves by the lists of its own side, whenever they were       *)
(* changed: a user whom the manager's lists name now neither pays nor gets *)
(* collateral, and one whom the token's lists name, or its allowlist does  *)
(* not, neither burns nor gets USDY.  It says nothing of a user on the     *)
(* token's lists alone, to whom claimRedemption does pay collateral.       *)
(***************************************************************************)
RestrictedAreNotServed ==
  [][ \A user \in Users : /\ Restricted(user) => usdc'[user] = usdc[user]
                          /\ ~MayHold(user) => usdy'[user] = usdy[user] ]_vars

(***************************************************************************)
(* A pause stops the second half of what it pauses as well: while          *)
(* subscriptions are paused no USDY is minted and no deposit is taken,     *)
(* while redemptions are paused no collateral is paid, and while all three *)
(* features are paused no balance changes at all.                          *)
(***************************************************************************)
PausedMovesNoMoney ==
  [][ /\ paused["subscription"] =>
           \A a \in Accounts : usdy'[a] <= usdy[a] /\ (a \in Users => usdc'[a] >= usdc[a])
      /\ paused["redemption"] => \A user \in Users : usdc'[user] <= usdc[user]
      /\ (\A feature \in Features : paused[feature]) => usdc' = usdc /\ usdy' = usdy ]_vars
-----------------------------------------------------------------------------
(* What the documentation says of the program and the program does not do. *)

(***************************************************************************)
(* "Each deposit and redemption is given a unique subscription or          *)
(* redemption Id": the transfer of a transaction hash is minted once.  The *)
(* code only refuses a proof while the entry of the hash is open; a claim  *)
(* deletes it, and the same hash is accepted again.                        *)
(***************************************************************************)
TransferMintedOnce == \A txHash \in TxHashes : Minted(txHash) <= 1
==============================================================================
