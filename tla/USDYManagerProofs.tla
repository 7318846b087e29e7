-------------------------- MODULE USDYManagerProofs --------------------------
(***************************************************************************)
(* Theorems about module USDYManager for every value of its constants: any *)
(* number of users, ids, lists and prices, and batches of any size.        *)
(*                                                                         *)
(* The invariant is the conjunction of one part per group of variables, so *)
(* that an action has to be looked at only for the groups it changes.      *)
(***************************************************************************)
EXTENDS USDYManager, PricerProofs, HubMathProofs

DepositsTypeOK ==
  /\ depositIdToDepositor \in [DepositIds -> Depositor]
  /\ subscriptionRequestCounter \in 1 .. MaxDeposits + 1
  /\ depositIdToClaimableTimestamp \in [DepositIds -> 0 .. MaxTime]
  /\ depositHistory \in [DepositIds -> DepositHistory]

RedemptionsTypeOK ==
  /\ redemptionIdToRedeemer \in [RedemptionIds -> Redeemer]
  /\ redemptionRequestCounter \in 1 .. MaxRedemptions + 1
  /\ redemptionHistory \in [RedemptionIds -> RedemptionHistory]
  /\ offChainIds \in SUBSET RedemptionIds

SettingsTypeOK ==
  /\ config \in Config
  /\ paused \in [Features -> BOOLEAN]
  /\ now \in 1 .. MaxTime
  /\ overwrites \in Nat

MoneyTypeOK == usdc \in Balances /\ usdy \in Balances

DepositsInv == /\ DepositsTypeOK
               /\ EveryMintHasItsDeposit
               /\ EveryMintHasItsPrice
               /\ EveryMintHasItsTime

RedemptionsInv == /\ RedemptionsTypeOK
                  /\ EveryRedemptionHasItsOwnId
                  /\ EveryPayoutHasItsBurn
                  /\ EveryPayoutHasItsPrice

Inv == /\ PricerInv
       /\ RestrictionsTypeOK
       /\ DepositsInv
       /\ RedemptionsInv
       /\ SettingsTypeOK
       /\ MoneyTypeOK

-----------------------------------------------------------------------------
(* The groups of variables that a step leaves alone.                       *)

LEMMA DepositsKept == DepositsInv /\ UNCHANGED depositVars => DepositsInv'
  BY DEF DepositsInv, DepositsTypeOK, depositVars, EveryMintHasItsDeposit,
         EveryMintHasItsPrice, EveryMintHasItsTime

LEMMA RedemptionsKept == RedemptionsInv /\ UNCHANGED redemptionVars => RedemptionsInv'
  BY DEF RedemptionsInv, RedemptionsTypeOK, redemptionVars, EveryRedemptionHasItsOwnId,
         EveryPayoutHasItsBurn, EveryPayoutHasItsPrice, Requests

LEMMA PricerKept == PricerInv /\ UNCHANGED pricerVars => PricerInv'
  BY PricerNextInv

LEMMA RestrictionsKept ==
  RestrictionsTypeOK /\ UNCHANGED restrictionVars => RestrictionsTypeOK'
  BY DEF RestrictionsTypeOK, restrictionVars

LEMMA SettingsKept ==
  SettingsTypeOK /\ UNCHANGED <<config, paused, now, overwrites>> => SettingsTypeOK'
  BY DEF SettingsTypeOK

LEMMA MoneyKept == MoneyTypeOK /\ UNCHANGED <<usdc, usdy>> => MoneyTypeOK'
  BY DEF MoneyTypeOK

(* The initial state.                                                      *)
LEMMA InitInv == Init => Inv
  <1>. SUFFICES ASSUME Init PROVE Inv
    OBVIOUS
  <1>1. PricerInv
    BY PricerInitInv DEF Init
  <1>2. RestrictionsTypeOK
    BY DEF Init, RestrictionsInit, RestrictionsTypeOK, TokenConfig
  <1>3. DepositsInv
    BY BoundsAssumption, PricerAssumption, SMT
       DEF Init, DepositsInv, DepositsTypeOK, EveryMintHasItsDeposit, EveryMintHasItsPrice,
           EveryMintHasItsTime, DepositIds, Depositor, AnyUser, NoEntry, DepositHistory,
           PriceIds, One, IsOpen
  <1>4. RedemptionsInv
    BY BoundsAssumption, PricerAssumption, SMT
       DEF Init, RedemptionsInv, RedemptionsTypeOK, EveryRedemptionHasItsOwnId,
           EveryPayoutHasItsBurn, EveryPayoutHasItsPrice, Requests, RedemptionIds, Redeemer,
           Depositor, AnyUser, NoEntry, RedemptionHistory, PriceIds, One, IsOpen
  <1>5. SettingsTypeOK
    BY <1>2, BoundsAssumption, HubMathAssumption, SMT
       DEF Init, SettingsTypeOK, Config, RestrictionsTypeOK, TokenConfig
  <1>6. MoneyTypeOK
    BY BoundsAssumption, SMT DEF Init, MoneyTypeOK, Balances
  <1>. QED BY <1>1, <1>2, <1>3, <1>4, <1>5, <1>6 DEF Inv

-----------------------------------------------------------------------------
(* The effects on the balances.                                            *)

LEMMA MoveUsdcTyped ==
  ASSUME NEW from, NEW to, MoneyTypeOK, MoveUsdc(from, to), UNCHANGED usdy
  PROVE  MoneyTypeOK'
  BY DEF MoveUsdc, MoneyTypeOK

LEMMA MintUsdyTyped ==
  ASSUME NEW to, MoneyTypeOK, MintUsdy(to), UNCHANGED usdc
  PROVE  MoneyTypeOK'
  BY DEF MintUsdy, MoneyTypeOK

LEMMA BurnUsdyTyped ==
  ASSUME NEW holder \in Accounts, NEW amount \in Nat, MoneyTypeOK,
         BurnUsdyFrom(holder, amount), UNCHANGED usdc
  PROVE  MoneyTypeOK'
  BY BoundsAssumption, SMT DEF BurnUsdyFrom, MoneyTypeOK, Balances

-----------------------------------------------------------------------------
(* The actions on deposits.                                                *)

LEMMA RequestSubscriptionInv ==
  ASSUME Inv, NEW sender, NEW amount \in DepositAmounts, RequestSubscription(sender, amount)
  PROVE  Inv'
  <1>. DEFINE fee == FeesAt(config.mintFee, amount)
              id  == subscriptionRequestCounter
  <1>1. amount \in Nat /\ config.mintFee \in 0 .. BPS_DENOMINATOR
    BY BoundsAssumption DEF Inv, SettingsTypeOK, Config
  <1>2. fee \in 0 .. amount
    BY <1>1, FeesWithinAmount
  <1>. HIDE DEF fee
  <1>3. AmountAfterFee(amount, fee) \in Nat
    BY <1>1, <1>2, SMT DEF AmountAfterFee
  <1>4. id \in 1 .. MaxDeposits /\ id \in DepositIds /\ sender \in Users
    BY BoundsAssumption, SMT DEF RequestSubscription, Inv, DepositsInv, DepositsTypeOK, DepositIds
  <1>5. [user |-> sender, amount |-> AmountAfterFee(amount, fee), priceId |-> 0] \in Depositor
    BY <1>3, <1>4, PricerAssumption, SMT DEF Depositor, AnyUser, PriceIds
  <1>6. /\ depositIdToDepositor' = [depositIdToDepositor EXCEPT ![id] =
             [user |-> sender, amount |-> AmountAfterFee(amount, fee), priceId |-> 0]]
        /\ subscriptionRequestCounter' = id + 1
        /\ depositHistory' = Opens(depositHistory, id)
        /\ UNCHANGED depositIdToClaimableTimestamp
    BY DEF RequestSubscription, WithRequest, NextDepositId, fee
  <1>7. DepositsTypeOK'
    BY <1>4, <1>5, <1>6, BoundsAssumption, SMT
       DEF Inv, DepositsInv, DepositsTypeOK, DepositHistory, Opens
  <1>8. EveryMintHasItsDeposit' /\ EveryMintHasItsPrice' /\ EveryMintHasItsTime'
    BY <1>4, <1>5, <1>6, SMT
       DEF Inv, DepositsInv, DepositsTypeOK, EveryMintHasItsDeposit, EveryMintHasItsPrice,
           EveryMintHasItsTime, One, IsOpen, DepositHistory, Depositor, Opens
  <1>9. MoneyTypeOK'
    BY MoveUsdcTyped DEF RequestSubscription, Inv
  <1>. QED
    BY <1>7, <1>8, <1>9, PricerKept, RestrictionsKept, RedemptionsKept, SettingsKept
       DEF Inv, DepositsInv, RequestSubscription

LEMMA AddProofInv ==
  ASSUME Inv, NEW sender, NEW txHash \in TxHashes, NEW user \in Users,
         NEW amount \in DepositAmounts, AddProof(sender, txHash, user, amount)
  PROVE  Inv'
  <1>1. [user |-> user, amount |-> amount, priceId |-> 0] \in Depositor /\ txHash \in DepositIds
    BY BoundsAssumption, PricerAssumption, SMT DEF Depositor, AnyUser, PriceIds, DepositIds
  <1>2. /\ depositIdToDepositor' = [depositIdToDepositor EXCEPT ![txHash] =
             [user |-> user, amount |-> amount, priceId |-> 0]]
        /\ depositHistory' = Opens(depositHistory, txHash)
        /\ UNCHANGED <<subscriptionRequestCounter, depositIdToClaimableTimestamp>>
        /\ depositIdToDepositor[txHash].user = NullAddress
    BY DEF AddProof, WithRequest, NoProofYet
  <1>3. DepositsTypeOK'
    BY <1>1, <1>2, SMT DEF Inv, DepositsInv, DepositsTypeOK, DepositHistory, Opens
  <1>4. EveryMintHasItsDeposit' /\ EveryMintHasItsPrice' /\ EveryMintHasItsTime'
    BY <1>1, <1>2, SMT
       DEF Inv, DepositsInv, DepositsTypeOK, EveryMintHasItsDeposit, EveryMintHasItsPrice,
           EveryMintHasItsTime, One, IsOpen, DepositHistory, Depositor, Opens
  <1>. QED
    BY <1>3, <1>4, PricerKept, RestrictionsKept, RedemptionsKept, SettingsKept, MoneyKept
       DEF Inv, DepositsInv, AddProof

LEMMA SetPriceIdForDepositsInv ==
  ASSUME Inv, NEW sender, NEW ids \in SUBSET DepositIds, NEW priceIdOf \in [ids -> PriceIds],
         SetPriceIdForDeposits(sender, priceIdOf)
  PROVE  Inv'
  <1>1. /\ depositIdToDepositor' = WithPriceIds(depositIdToDepositor, priceIdOf)
        /\ depositHistory' = DepositsPriced(priceIdOf)
        /\ UNCHANGED <<subscriptionRequestCounter, depositIdToClaimableTimestamp>>
        /\ \A id \in ids : depositIdToDepositor[id].priceId = 0
    BY DEF SetPriceIdForDeposits, PriceIdNotSet
  <1>2. DepositsTypeOK'
    <2>1. depositIdToDepositor' \in [DepositIds -> Depositor]
      BY <1>1, SMT DEF Inv, DepositsInv, DepositsTypeOK, Depositor, WithPriceIds
    <2>2. depositHistory' \in [DepositIds -> DepositHistory]
      BY <1>1, SMT DEF Inv, DepositsInv, DepositsTypeOK, DepositHistory, DepositsPriced
    <2>. QED BY <1>1, <2>1, <2>2 DEF Inv, DepositsInv, DepositsTypeOK
  <1>3. EveryMintHasItsDeposit' /\ EveryMintHasItsPrice' /\ EveryMintHasItsTime'
    BY <1>1, <1>2, PricerAssumption, SMT
       DEF Inv, DepositsInv, DepositsTypeOK, EveryMintHasItsDeposit, EveryMintHasItsPrice,
           EveryMintHasItsTime, One, IsOpen, DepositHistory, Depositor, WithPriceIds,
           DepositsPriced, GivesPriceId, PriceIds
  <1>. QED
    BY <1>2, <1>3, PricerKept, RestrictionsKept, RedemptionsKept, SettingsKept, MoneyKept
       DEF Inv, DepositsInv, SetPriceIdForDeposits

LEMMA SetClaimableTimestampInv ==
  ASSUME Inv, NEW sender, NEW time \in 1 .. MaxTime, NEW ids \in SUBSET DepositIds,
         SetClaimableTimestamp(sender, time, ids)
  PROVE  Inv'
  <1>1. DepositsTypeOK'
    BY BoundsAssumption, SMT
       DEF SetClaimableTimestamp, Inv, DepositsInv, DepositsTypeOK, DepositHistory
  <1>2. EveryMintHasItsDeposit' /\ EveryMintHasItsPrice' /\ EveryMintHasItsTime'
    BY BoundsAssumption, SMT
       DEF SetClaimableTimestamp, Inv, DepositsInv, DepositsTypeOK, EveryMintHasItsDeposit,
           EveryMintHasItsPrice, EveryMintHasItsTime, One, IsOpen, DepositHistory, Depositor
  <1>. QED
    BY <1>1, <1>2, PricerKept, RestrictionsKept, RedemptionsKept, SettingsKept, MoneyKept
       DEF Inv, DepositsInv, SetClaimableTimestamp

LEMMA ClaimMintInv ==
  ASSUME Inv, NEW ids \in SUBSET DepositIds, ClaimMint(ids)
  PROVE  Inv'
  <1>1. /\ depositIdToDepositor' = DeleteEntries(depositIdToDepositor, ids)
        /\ depositIdToClaimableTimestamp' = DeleteTimestamps(ids)
        /\ depositHistory' = [id \in DepositIds |->
              IF id \in ids THEN [depositHistory[id] EXCEPT !.minted = @ + 1]
                            ELSE depositHistory[id]]
        /\ UNCHANGED subscriptionRequestCounter
    BY DEF ClaimMint
  <1>2. \A id \in ids : /\ depositIdToDepositor[id].user # NullAddress
                        /\ depositIdToDepositor[id].priceId # 0
                        /\ depositIdToClaimableTimestamp[id] # 0
    BY DEF ClaimMint, TimestampReached
  <1>3. DepositsTypeOK'
    <2>1. NoEntry \in Depositor
      BY PricerAssumption, SMT DEF NoEntry, Depositor, AnyUser, PriceIds
    <2>2. depositIdToDepositor' \in [DepositIds -> Depositor]
      BY <1>1, <2>1, SMT DEF Inv, DepositsInv, DepositsTypeOK, DeleteEntries
    <2>3. depositIdToClaimableTimestamp' \in [DepositIds -> 0 .. MaxTime]
      BY <1>1, BoundsAssumption, SMT DEF Inv, DepositsInv, DepositsTypeOK, DeleteTimestamps
    <2>4. depositHistory' \in [DepositIds -> DepositHistory]
      BY <1>1, SMT DEF Inv, DepositsInv, DepositsTypeOK, DepositHistory
    <2>. QED BY <1>1, <2>2, <2>3, <2>4 DEF Inv, DepositsInv, DepositsTypeOK
  <1>4. EveryMintHasItsDeposit' /\ EveryMintHasItsPrice' /\ EveryMintHasItsTime'
    BY <1>1, <1>2, SMT
       DEF Inv, DepositsInv, DepositsTypeOK, EveryMintHasItsDeposit, EveryMintHasItsPrice,
           EveryMintHasItsTime, One, IsOpen, DepositHistory, Depositor, DeleteEntries,
           DeleteTimestamps, NoEntry
  <1>5. MoneyTypeOK'
    BY MintUsdyTyped DEF ClaimMint, Inv
  <1>. QED
    BY <1>3, <1>4, <1>5, PricerKept, RestrictionsKept, RedemptionsKept, SettingsKept
       DEF Inv, DepositsInv, ClaimMint
(* The entry may be of any id; it counts as opened when none was open.     *)
LEMMA OverwriteDepositorInv ==
  ASSUME Inv, NEW sender, NEW id \in DepositIds, NEW user \in OverwriteUsers,
         NEW amount \in OverwriteAmounts, NEW priceId \in PriceIds,
         OverwriteDepositor(sender, id, user, amount, priceId)
  PROVE  Inv'
  <1>1. [user |-> user, amount |-> amount, priceId |-> priceId] \in Depositor
    BY BoundsAssumption, SMT DEF Depositor, AnyUser
  <1>2. /\ depositIdToDepositor \in [DepositIds -> Depositor]
        /\ depositHistory \in [DepositIds -> DepositHistory]
    BY DEF Inv, DepositsInv, DepositsTypeOK
  <1>. DEFINE new == [opened |-> depositHistory[id].opened
                                  + One(~IsOpen(depositIdToDepositor[id])),
                      pricedFor |-> IF priceId # 0
                                      THEN depositHistory[id].opened
                                             + One(~IsOpen(depositIdToDepositor[id]))
                                      ELSE depositHistory[id].pricedFor,
                      timed  |-> depositHistory[id].timed,
                      minted |-> depositHistory[id].minted]
  <1>3. new \in DepositHistory
    BY <1>2, SMT DEF DepositHistory, One
  <1>4. /\ depositIdToDepositor' = [depositIdToDepositor EXCEPT ![id] =
             [user |-> user, amount |-> amount, priceId |-> priceId]]
        /\ depositHistory' = [depositHistory EXCEPT ![id] = new]
        /\ UNCHANGED <<depositIdToClaimableTimestamp, subscriptionRequestCounter>>
    BY DEF OverwriteDepositor
  <1>5. DepositsTypeOK'
    BY <1>1, <1>3, <1>4 DEF Inv, DepositsInv, DepositsTypeOK
  <1>6. EveryMintHasItsDeposit' /\ EveryMintHasItsPrice' /\ EveryMintHasItsTime'
    BY <1>1, <1>2, <1>4, SMT
       DEF Inv, DepositsInv, EveryMintHasItsDeposit, EveryMintHasItsPrice,
           EveryMintHasItsTime, One, IsOpen, DepositHistory, Depositor
  <1>7. SettingsTypeOK'
    BY SMT DEF OverwriteDepositor, Inv, SettingsTypeOK
  <1>. QED
    BY <1>5, <1>6, <1>7, PricerKept, RestrictionsKept, RedemptionsKept, MoneyKept
       DEF Inv, DepositsInv, OverwriteDepositor

-----------------------------------------------------------------------------
(* The actions on redemptions.                                             *)

LEMMA RequestRedemptionInv ==
  ASSUME Inv, NEW sender, NEW amount \in RedemptionAmounts, RequestRedemption(sender, amount)
  PROVE  Inv'
  <1>. DEFINE id == redemptionRequestCounter
  <1>1. /\ id \in RedemptionIds /\ sender \in Users /\ sender \in Accounts /\ amount \in Nat
    BY BoundsAssumption, ManagerAssumption, SMT
       DEF RequestRedemption, Inv, RedemptionsInv, RedemptionsTypeOK, RedemptionIds
  <1>2. [user |-> sender, amount |-> amount, priceId |-> 0] \in Redeemer
    BY <1>1, PricerAssumption, SMT DEF Redeemer, Depositor, AnyUser, PriceIds
  <1>3. /\ redemptionIdToRedeemer' = [redemptionIdToRedeemer EXCEPT ![id] =
             [user |-> sender, amount |-> amount, priceId |-> 0]]
        /\ redemptionHistory' = [redemptionHistory EXCEPT ![id].requested = @ + 1]
        /\ redemptionRequestCounter' = id + 1
        /\ UNCHANGED offChainIds
    BY DEF RequestRedemption, WithRequest
  <1>4. RedemptionsTypeOK'
    <2>1. redemptionIdToRedeemer' \in [RedemptionIds -> Redeemer]
      <3>1. redemptionIdToRedeemer \in [RedemptionIds -> Redeemer]
        BY DEF Inv, RedemptionsInv, RedemptionsTypeOK
      <3>. QED BY <3>1, <1>3, <1>2
    <2>2. redemptionHistory' \in [RedemptionIds -> RedemptionHistory]
      <3>1. redemptionHistory \in [RedemptionIds -> RedemptionHistory]
        BY DEF Inv, RedemptionsInv, RedemptionsTypeOK
      <3>2. [redemptionHistory[id] EXCEPT !.requested = @ + 1] \in RedemptionHistory
        BY <1>1, <3>1, SMT DEF RedemptionHistory
      <3>. QED BY <3>1, <3>2, <1>3
    <2>3. redemptionRequestCounter' \in 1 .. MaxRedemptions + 1
      BY <1>3, <1>1, BoundsAssumption, SMT DEF RedemptionIds
    <2>. QED BY <1>3, <2>1, <2>2, <2>3 DEF Inv, RedemptionsInv, RedemptionsTypeOK
  <1>5. EveryRedemptionHasItsOwnId'
    BY <1>3, <1>1, SMT
       DEF Inv, RedemptionsInv, RedemptionsTypeOK, EveryRedemptionHasItsOwnId,
           One, RedemptionHistory, RedemptionIds
  <1>6. EveryPayoutHasItsBurn'
    BY <1>3, <1>1, SMT
       DEF Inv, RedemptionsInv, RedemptionsTypeOK, EveryPayoutHasItsBurn, One, IsOpen,
           RedemptionHistory, Redeemer, Depositor
  <1>7. EveryPayoutHasItsPrice'
    BY <1>3, <1>1, SMT
       DEF Inv, RedemptionsInv, RedemptionsTypeOK, EveryPayoutHasItsPrice, Requests, IsOpen,
           RedemptionHistory, Redeemer, Depositor
  <1>8. EveryRedemptionHasItsOwnId' /\ EveryPayoutHasItsBurn' /\ EveryPayoutHasItsPrice'
    BY <1>5, <1>6, <1>7
  <1>9. MoneyTypeOK'
    BY <1>1, BurnUsdyTyped DEF RequestRedemption, Inv
  <1>. QED
    BY <1>4, <1>8, <1>9, PricerKept, RestrictionsKept, DepositsKept, SettingsKept
       DEF Inv, RedemptionsInv, RequestRedemption

LEMMA RequestRedemptionServicedOffchainInv ==
  ASSUME Inv, NEW sender, NEW amount \in RedemptionAmounts,
         RequestRedemptionServicedOffchain(sender, amount)
  PROVE  Inv'
  <1>. DEFINE id == redemptionRequestCounter
  <1>1. /\ id \in RedemptionIds /\ sender \in Accounts /\ amount \in Nat
    BY BoundsAssumption, ManagerAssumption, SMT
       DEF RequestRedemptionServicedOffchain, Inv, RedemptionsInv, RedemptionsTypeOK,
           RedemptionIds
  <1>2. RedemptionsTypeOK'
    BY <1>1, BoundsAssumption, SMT
       DEF RequestRedemptionServicedOffchain, Inv, RedemptionsInv, RedemptionsTypeOK,
           RedemptionIds, NextRedemptionId
  <1>3. EveryRedemptionHasItsOwnId' /\ EveryPayoutHasItsBurn' /\ EveryPayoutHasItsPrice'
    BY <1>1, SMT
       DEF RequestRedemptionServicedOffchain, Inv, RedemptionsInv, RedemptionsTypeOK,
           EveryRedemptionHasItsOwnId, EveryPayoutHasItsBurn, EveryPayoutHasItsPrice, Requests, One,
           IsOpen, RedemptionHistory, Redeemer, Depositor, RedemptionIds, NextRedemptionId
  <1>4. MoneyTypeOK'
    BY <1>1, BurnUsdyTyped DEF RequestRedemptionServicedOffchain, Inv
  <1>. QED
    BY <1>2, <1>3, <1>4, PricerKept, RestrictionsKept, DepositsKept, SettingsKept
       DEF Inv, RedemptionsInv, RequestRedemptionServicedOffchain

LEMMA SetPriceIdForRedemptionsInv ==
  ASSUME Inv, NEW sender, NEW ids \in SUBSET RedemptionIds,
         NEW priceIdOf \in [ids -> PriceIds], SetPriceIdForRedemptions(sender, priceIdOf)
  PROVE  Inv'
  <1>1. /\ redemptionIdToRedeemer' = WithPriceIds(redemptionIdToRedeemer, priceIdOf)
        /\ redemptionHistory' = RedemptionsPriced(priceIdOf)
        /\ UNCHANGED <<redemptionRequestCounter, offChainIds>>
        /\ \A id \in ids : redemptionIdToRedeemer[id].priceId = 0
    BY DEF SetPriceIdForRedemptions, PriceIdNotSet
  <1>2. RedemptionsTypeOK'
    <2>1. redemptionIdToRedeemer' \in [RedemptionIds -> Redeemer]
      BY <1>1, SMT DEF Inv, RedemptionsInv, RedemptionsTypeOK, Redeemer, Depositor, WithPriceIds
    <2>2. redemptionHistory' \in [RedemptionIds -> RedemptionHistory]
      BY <1>1, SMT
         DEF Inv, RedemptionsInv, RedemptionsTypeOK, RedemptionHistory, RedemptionsPriced, Requests
    <2>. QED BY <1>1, <2>1, <2>2 DEF Inv, RedemptionsInv, RedemptionsTypeOK
  <1>3. EveryRedemptionHasItsOwnId'
    BY <1>1, SMT
       DEF Inv, RedemptionsInv, RedemptionsTypeOK, EveryRedemptionHasItsOwnId,
           RedemptionHistory, RedemptionsPriced, One
  <1>4. EveryPayoutHasItsBurn'
    BY <1>1, SMT
       DEF Inv, RedemptionsInv, RedemptionsTypeOK, EveryPayoutHasItsBurn, RedemptionHistory,
           Redeemer, Depositor, RedemptionsPriced, WithPriceIds, Requests, One, IsOpen
  <1>5. EveryPayoutHasItsPrice'
    BY <1>1, PricerAssumption, SMT
       DEF Inv, RedemptionsInv, RedemptionsTypeOK, EveryPayoutHasItsPrice, RedemptionHistory,
           Redeemer, Depositor, RedemptionsPriced, GivesPriceId, WithPriceIds, Requests,
           IsOpen, PriceIds
  <1>. QED
    BY <1>2, <1>3, <1>4, <1>5, PricerKept, RestrictionsKept, DepositsKept, SettingsKept, MoneyKept
       DEF Inv, RedemptionsInv, SetPriceIdForRedemptions

LEMMA ClaimRedemptionInv ==
  ASSUME Inv, NEW ids \in SUBSET RedemptionIds, ClaimRedemption(ids)
  PROVE  Inv'
  <1>1. /\ redemptionIdToRedeemer' = DeleteEntries(redemptionIdToRedeemer, ids)
        /\ redemptionHistory' = [id \in RedemptionIds |->
              IF id \in ids THEN [redemptionHistory[id] EXCEPT !.paid = @ + 1]
                            ELSE redemptionHistory[id]]
        /\ UNCHANGED <<redemptionRequestCounter, offChainIds>>
    BY DEF ClaimRedemption
  <1>2. \A id \in ids : /\ redemptionIdToRedeemer[id].user # NullAddress
                        /\ redemptionIdToRedeemer[id].priceId # 0
    BY DEF ClaimRedemption, MayBePaid
  <1>3. RedemptionsTypeOK'
    <2>1. NoEntry \in Redeemer
      BY PricerAssumption, SMT DEF NoEntry, Redeemer, Depositor, AnyUser, PriceIds
    <2>2. redemptionIdToRedeemer' \in [RedemptionIds -> Redeemer]
      BY <1>1, <2>1, SMT DEF Inv, RedemptionsInv, RedemptionsTypeOK, DeleteEntries
    <2>3. redemptionHistory' \in [RedemptionIds -> RedemptionHistory]
      BY <1>1, SMT DEF Inv, RedemptionsInv, RedemptionsTypeOK, RedemptionHistory
    <2>. QED BY <1>1, <2>2, <2>3 DEF Inv, RedemptionsInv, RedemptionsTypeOK
  <1>4. EveryRedemptionHasItsOwnId' /\ EveryPayoutHasItsBurn' /\ EveryPayoutHasItsPrice'
    BY <1>1, <1>2, SMT
       DEF Inv, RedemptionsInv, RedemptionsTypeOK, EveryRedemptionHasItsOwnId,
           EveryPayoutHasItsBurn, EveryPayoutHasItsPrice, Requests, One, IsOpen, RedemptionHistory,
           Redeemer, Depositor, DeleteEntries, NoEntry
  <1>5. MoneyTypeOK'
    BY MoveUsdcTyped DEF ClaimRedemption, Inv
  <1>. QED
    BY <1>3, <1>4, <1>5, PricerKept, RestrictionsKept, DepositsKept, SettingsKept
       DEF Inv, RedemptionsInv, ClaimRedemption

LEMMA OverwriteRedeemerInv ==
  ASSUME Inv, NEW sender, NEW id \in RedemptionIds, NEW user \in OverwriteUsers,
         NEW amount \in OverwriteAmounts, NEW priceId \in PriceIds,
         OverwriteRedeemer(sender, id, user, amount, priceId)
  PROVE  Inv'
  <1>1. [user |-> user, amount |-> amount, priceId |-> priceId] \in Redeemer
    BY BoundsAssumption, SMT DEF Redeemer, Depositor, AnyUser
  <1>2. /\ redemptionIdToRedeemer \in [RedemptionIds -> Redeemer]
        /\ redemptionHistory \in [RedemptionIds -> RedemptionHistory]
    BY DEF Inv, RedemptionsInv, RedemptionsTypeOK
  <1>. DEFINE new == [reopened  |-> redemptionHistory[id].reopened
                                     + One(~IsOpen(redemptionIdToRedeemer[id])),
                      pricedFor |-> IF priceId # 0
                                      THEN redemptionHistory[id].requested
                                             + (redemptionHistory[id].reopened
                                                  + One(~IsOpen(redemptionIdToRedeemer[id])))
                                      ELSE redemptionHistory[id].pricedFor,
                      requested |-> redemptionHistory[id].requested,
                      paid      |-> redemptionHistory[id].paid]
  <1>3. new \in RedemptionHistory
    BY <1>2, SMT DEF RedemptionHistory, One
  <1>4. /\ redemptionIdToRedeemer' = [redemptionIdToRedeemer EXCEPT ![id] =
             [user |-> user, amount |-> amount, priceId |-> priceId]]
        /\ redemptionHistory' = [redemptionHistory EXCEPT ![id] = new]
        /\ UNCHANGED <<redemptionRequestCounter, offChainIds>>
    BY DEF OverwriteRedeemer
  <1>5. RedemptionsTypeOK'
    BY <1>1, <1>3, <1>4 DEF Inv, RedemptionsInv, RedemptionsTypeOK
  <1>6. EveryRedemptionHasItsOwnId' /\ EveryPayoutHasItsBurn' /\ EveryPayoutHasItsPrice'
    BY <1>1, <1>2, <1>4, SMT
       DEF Inv, RedemptionsInv, EveryRedemptionHasItsOwnId, EveryPayoutHasItsBurn,
           EveryPayoutHasItsPrice, Requests, One, IsOpen, RedemptionHistory, Redeemer, Depositor
  <1>7. SettingsTypeOK'
    BY SMT DEF OverwriteRedeemer, Inv, SettingsTypeOK
  <1>. QED
    BY <1>5, <1>6, <1>7, PricerKept, RestrictionsKept, DepositsKept, MoneyKept
       DEF Inv, RedemptionsInv, OverwriteRedeemer
-----------------------------------------------------------------------------
(* The settings, the pauses, the other components and the clock.           *)

LEMMA ConfigureInv ==
  ASSUME Inv, NEW sender, NEW newConfig \in Config, Configure(sender, newConfig)
  PROVE  Inv'
  <1>1. SettingsTypeOK'
    BY DEF Configure, Inv, SettingsTypeOK
  <1>. QED
    BY <1>1, PricerKept, RestrictionsKept, DepositsKept, RedemptionsKept, MoneyKept
       DEF Inv, Configure

\* Replacing one setting by a value of its type keeps the record well typed.
LEMMA SettersTyped ==
  ASSUME config \in Config
  PROVE  /\ \A x \in Nat : [config EXCEPT !.minimumRedemptionAmount = x] \in Config
         /\ \A x \in Nat : [config EXCEPT !.minimumDepositAmount = x] \in Config
         /\ \A x \in Nat : [config EXCEPT !.minimumOffChainRedemptionAmount = x] \in Config
         /\ \A x \in 0 .. BPS_DENOMINATOR : [config EXCEPT !.mintFee = x] \in Config
         /\ \A x \in 0 .. BPS_DENOMINATOR : [config EXCEPT !.redemptionFee = x] \in Config
         /\ \A x \in {NullAddress, ThePricer, EmptyPricer} :
              [config EXCEPT !.pricer = x] \in Config
         /\ \A x \in FeeRecipients \cup {NullAddress} :
              [config EXCEPT !.feeRecipient = x] \in Config
         /\ \A x \in AssetSenders \cup {NullAddress} :
              [config EXCEPT !.assetSender = x] \in Config
         /\ \A x \in Blocklists : [config EXCEPT !.blocklist = x] \in Config
         /\ \A x \in SanctionsLists : [config EXCEPT !.sanctionsList = x] \in Config
  BY DEF Config

LEMMA PausingInv ==
  ASSUME Inv, NEW sender, NEW role, NEW feature \in Features, NEW flag \in BOOLEAN,
         SetPaused(sender, role, feature, flag)
  PROVE  Inv'
  <1>1. SettingsTypeOK'
    BY DEF SetPaused, Inv, SettingsTypeOK
  <1>. QED
    BY <1>1, PricerKept, RestrictionsKept, DepositsKept, RedemptionsKept, MoneyKept
       DEF Inv, SetPaused

LEMMA ConfigureNextInv ==
  ASSUME Inv, NEW sender, ConfigureNext(sender)
  PROVE  Inv'
  <1>1. config \in Config
    BY DEF Inv, SettingsTypeOK
  <1>2. ASSUME NEW amount \in Minimums,
               \/ SetMinimumRedemptionAmount(sender, amount)
               \/ SetMinimumDepositAmount(sender, amount)
               \/ SetOffChainRedemptionMinimum(sender, amount)
        PROVE  Inv'
    <2>1. amount \in Nat
      BY BoundsAssumption
    <2>. QED
      BY <1>1, <1>2, <2>1, SettersTyped, ConfigureInv
         DEF SetMinimumRedemptionAmount, SetMinimumDepositAmount, SetOffChainRedemptionMinimum
  <1>3. ASSUME NEW fee \in Fees, SetMintFee(sender, fee) \/ SetRedemptionFee(sender, fee)
        PROVE  Inv'
    <2>1. fee \in 0 .. BPS_DENOMINATOR
      BY <1>3, BoundsAssumption, HubMathAssumption, SMT
         DEF SetMintFee, SetRedemptionFee, FeeIsAllowed
    <2>. QED BY <1>1, <1>3, <2>1, SettersTyped, ConfigureInv DEF SetMintFee, SetRedemptionFee
  <1>4. ASSUME NEW newPricer \in NewPricers, SetPricer(sender, newPricer) PROVE Inv'
    <2>1. newPricer \in {NullAddress, ThePricer, EmptyPricer}
      BY BoundsAssumption
    <2>. QED BY <1>1, <1>4, <2>1, SettersTyped, ConfigureInv DEF SetPricer
  <1>5. ASSUME NEW new \in NewFeeRecipients, SetFeeRecipient(sender, new) PROVE Inv'
    <2>1. new \in FeeRecipients \cup {NullAddress}
      BY BoundsAssumption
    <2>. QED BY <1>1, <1>5, <2>1, SettersTyped, ConfigureInv DEF SetFeeRecipient
  <1>6. ASSUME NEW new \in NewAssetSenders, SetAssetSender(sender, new) PROVE Inv'
    <2>1. new \in AssetSenders \cup {NullAddress}
      BY BoundsAssumption
    <2>. QED BY <1>1, <1>6, <2>1, SettersTyped, ConfigureInv DEF SetAssetSender
  <1>7. ASSUME NEW list \in Blocklists \cup {NullAddress}, SetBlocklist(sender, list)
        PROVE  Inv'
    BY <1>1, <1>7, SettersTyped, ConfigureInv DEF SetBlocklist
  <1>8. ASSUME NEW list \in SanctionsLists \cup {NullAddress}, SetSanctionsList(sender, list)
        PROVE  Inv'
    BY <1>1, <1>8, SettersTyped, ConfigureInv DEF SetSanctionsList
  <1>9. ASSUME NEW feature \in PausableFeatures, Pause(sender, feature) \/ Unpause(sender, feature)
        PROVE  Inv'
    <2>1. feature \in Features
      BY BoundsAssumption
    <2>. QED BY <1>9, <2>1, PausingInv DEF Pause, Unpause
  <1>. QED BY <1>2, <1>3, <1>4, <1>5, <1>6, <1>7, <1>8, <1>9 DEF ConfigureNext

LEMMA PricerStepInv == Inv /\ PricerStep => Inv'
  BY PricerNextInv, RestrictionsKept, DepositsKept, RedemptionsKept, SettingsKept, MoneyKept
     DEF Inv, PricerStep, managerVars

LEMMA RestrictionsStepInv == Inv /\ RestrictionsStep => Inv'
  <1>. SUFFICES ASSUME Inv, RestrictionsStep PROVE Inv'
    OBVIOUS
  <1>1. listed \in [Lists -> SUBSET Accounts] /\ allowed \in SUBSET Accounts /\ token \in TokenConfig
    BY DEF Inv, RestrictionsTypeOK
  <1>2. ASSUME NEW list \in Lists, NEW accounts \in SUBSET Listable,
               AddToList(list, accounts) \/ RemoveFromList(list, accounts)
        PROVE  RestrictionsTypeOK'
    BY <1>1, <1>2, RestrictionsAssumption
       DEF AddToList, RemoveFromList, RestrictionsTypeOK
  <1>3. ASSUME NEW accounts \in SUBSET Listable, SetAllowed(accounts)
        PROVE  RestrictionsTypeOK'
    BY <1>1, <1>3, RestrictionsAssumption DEF SetAllowed, RestrictionsTypeOK
  <1>4. ASSUME NEW flag \in BOOLEAN, SetTokenPaused(flag) PROVE RestrictionsTypeOK'
    BY <1>1, <1>4 DEF SetTokenPaused, RestrictionsTypeOK, TokenConfig
  <1>5. ASSUME NEW list \in Blocklists \cup {NullAddress}, SetTokenBlocklist(list)
        PROVE  RestrictionsTypeOK'
    BY <1>1, <1>5 DEF SetTokenBlocklist, RestrictionsTypeOK, TokenConfig
  <1>6. ASSUME NEW list \in SanctionsLists \cup {NullAddress}, SetTokenSanctionsList(list)
        PROVE  RestrictionsTypeOK'
    BY <1>1, <1>6 DEF SetTokenSanctionsList, RestrictionsTypeOK, TokenConfig
  <1>7. RestrictionsTypeOK'
    BY <1>2, <1>3, <1>4, <1>5, <1>6 DEF RestrictionsStep, RestrictionsNext
  <1>. QED
    BY <1>7, PricerKept, DepositsKept, RedemptionsKept, SettingsKept, MoneyKept
       DEF Inv, RestrictionsStep, managerVars

LEMMA TickInv == Inv /\ Tick => Inv'
  <1>. SUFFICES ASSUME Inv, Tick PROVE Inv'
    OBVIOUS
  <1>1. SettingsTypeOK'
    BY BoundsAssumption, SMT DEF Tick, Inv, SettingsTypeOK
  <1>. QED
    BY <1>1, PricerKept, RestrictionsKept, DepositsKept, RedemptionsKept, MoneyKept DEF Inv, Tick

-----------------------------------------------------------------------------
(* Every step keeps the invariant: one case per action.                    *)
LEMMA NextInv == Inv /\ [Next]_vars => Inv'
  <1>1. ASSUME Inv, NEW sender \in Users, UserNext(sender) PROVE Inv'
    BY <1>1, RequestSubscriptionInv, RequestRedemptionInv, RequestRedemptionServicedOffchainInv
       DEF UserNext
  <1>2. ASSUME Inv, AnyoneNext PROVE Inv'
    BY <1>2, ClaimMintInv, ClaimRedemptionInv DEF AnyoneNext, Batches
  <1>3. ASSUME Inv, NEW sender \in Operators, OperatorNext(sender) PROVE Inv'
    BY <1>3, AddProofInv, SetPriceIdForDepositsInv, SetClaimableTimestampInv,
       SetPriceIdForRedemptionsInv
       DEF OperatorNext, Batches
  <1>4. ASSUME Inv, NEW sender \in Operators, OverwriteNext(sender) PROVE Inv'
    BY <1>4, OverwriteDepositorInv, OverwriteRedeemerInv DEF OverwriteNext
  <1>5. ASSUME Inv, UNCHANGED vars PROVE Inv'
    BY <1>5, PricerKept, RestrictionsKept, DepositsKept, RedemptionsKept, SettingsKept, MoneyKept
       DEF Inv, vars, managerVars
  <1>. QED
    BY <1>1, <1>2, <1>3, <1>4, <1>5, ConfigureNextInv, PricerStepInv, RestrictionsStepInv, TickInv
       DEF Next

LEMMA AlwaysInv == Spec => []Inv
  BY InitInv, NextInv, PTL DEF Spec

(* The state of the manager, of the pricer and of the lists is well typed; *)
(* no balance is negative and no fee above 100%.                           *)
THEOREM ManagerTyped == Spec => []TypeOK
  <1>1. Inv => TypeOK
    BY DEF Inv, TypeOK, PricerInv, TableInv, DepositsInv, DepositsTypeOK, RedemptionsInv,
           RedemptionsTypeOK, SettingsTypeOK, MoneyTypeOK
  <1>. QED BY <1>1, AlwaysInv, PTL

(* A deposit is minted at most once for each time it was opened.           *)
THEOREM MintsHaveDeposits == Spec => []EveryMintHasItsDeposit
  <1>1. Inv => EveryMintHasItsDeposit
    BY DEF Inv, DepositsInv
  <1>. QED BY <1>1, AlwaysInv, PTL

(* The price id a mint uses was given to the deposit that it pays.         *)
THEOREM MintsHavePrices == Spec => []EveryMintHasItsPrice
  <1>1. Inv => EveryMintHasItsPrice
    BY DEF Inv, DepositsInv
  <1>. QED BY <1>1, AlwaysInv, PTL

(* No claimable time is used for two mints.                                *)
THEOREM MintsHaveTimes == Spec => []EveryMintHasItsTime
  <1>1. Inv => EveryMintHasItsTime
    BY DEF Inv, DepositsInv
  <1>. QED BY <1>1, AlwaysInv, PTL

(* On-chain and off-chain redemptions never share an id.                   *)
THEOREM RedemptionsHaveIds == Spec => []EveryRedemptionHasItsOwnId
  <1>1. Inv => EveryRedemptionHasItsOwnId
    BY DEF Inv, RedemptionsInv
  <1>. QED BY <1>1, AlwaysInv, PTL

(* A redemption is paid at most once for each time it was opened.          *)
THEOREM PayoutsHaveBurns == Spec => []EveryPayoutHasItsBurn
  <1>1. Inv => EveryPayoutHasItsBurn
    BY DEF Inv, RedemptionsInv
  <1>. QED BY <1>1, AlwaysInv, PTL

(* The price id a payout uses was given to the request that it pays, after *)
(* it was made.                                                            *)
THEOREM PayoutsHavePrices == Spec => []EveryPayoutHasItsPrice
  <1>1. Inv => EveryPayoutHasItsPrice
    BY DEF Inv, RedemptionsInv
  <1>. QED BY <1>1, AlwaysInv, PTL

(* No collateral is claimed for a redemption serviced off chain, unless    *)
(* the manager opens an entry for it.                                      *)
THEOREM OffChainNotPaid == Spec => []OffChainRedemptionsStayOffChain
  <1>1. Inv => OffChainRedemptionsStayOffChain
    BY SMT
       DEF Inv, RedemptionsInv, RedemptionsTypeOK, EveryRedemptionHasItsOwnId,
           EveryPayoutHasItsBurn, OffChainRedemptionsStayOffChain, One, RedemptionHistory
  <1>. QED BY <1>1, AlwaysInv, PTL
-----------------------------------------------------------------------------
(* Open requests are kept.                                                 *)

DepositsKeepTerms ==
  \A id \in IssuedDeposits :
    IsOpen(depositIdToDepositor[id]) =>
      \/ Minted(id)' > Minted(id)
      \/ KeepsItsTerms(depositIdToDepositor[id], depositIdToDepositor'[id])

RedemptionsKeepTerms ==
  \A id \in 1 .. redemptionRequestCounter - 1 :
    IsOpen(redemptionIdToRedeemer[id]) =>
      \/ Paid(id)' > Paid(id)
      \/ KeepsItsTerms(redemptionIdToRedeemer[id], redemptionIdToRedeemer'[id])

(* A step that leaves a table alone keeps its requests.                    *)
LEMMA SameTablesKeepTerms ==
  /\ UNCHANGED depositVars => DepositsKeepTerms
  /\ UNCHANGED redemptionVars => RedemptionsKeepTerms
  BY DEF depositVars, redemptionVars, DepositsKeepTerms, RedemptionsKeepTerms, KeepsItsTerms

(* A request for a new id, a proof for an id that is not open, a first     *)
(* price id and a claim: none changes the terms of an open deposit.        *)
LEMMA DepositStepsKeepTerms ==
  ASSUME Inv
  PROVE  /\ \A sender \in Users, amount \in DepositAmounts :
              RequestSubscription(sender, amount) => DepositsKeepTerms
         /\ \A sender, user, amount : \A txHash \in TxHashes :
              AddProof(sender, txHash, user, amount) => DepositsKeepTerms
         /\ \A sender, time, ids :
              SetClaimableTimestamp(sender, time, ids) => DepositsKeepTerms
         /\ \A sender : \A ids \in SUBSET DepositIds : \A priceIdOf \in [ids -> PriceIds] :
              SetPriceIdForDeposits(sender, priceIdOf) => DepositsKeepTerms
         /\ \A ids \in SUBSET DepositIds : ClaimMint(ids) => DepositsKeepTerms
  <1>1. /\ depositIdToDepositor \in [DepositIds -> Depositor]
        /\ depositHistory \in [DepositIds -> DepositHistory]
        /\ subscriptionRequestCounter \in Nat
    BY BoundsAssumption, SMT DEF Inv, DepositsInv, DepositsTypeOK
  <1>2. IssuedDeposits \subseteq DepositIds
    BY DEF IssuedDeposits, DepositIds
  <1>3. ASSUME NEW sender \in Users, NEW amount \in DepositAmounts,
               RequestSubscription(sender, amount)
        PROVE  DepositsKeepTerms
    <2>1. subscriptionRequestCounter \notin IssuedDeposits
      BY <1>1, <1>3, TxHashAssumption, BoundsAssumption, SMT
         DEF IssuedDeposits, RequestSubscription, Inv, DepositsInv, DepositsTypeOK
    <2>2. \A id \in IssuedDeposits : depositIdToDepositor'[id] = depositIdToDepositor[id]
      BY <1>1, <1>2, <1>3, <2>1 DEF RequestSubscription, WithRequest
    <2>. QED BY <2>2 DEF DepositsKeepTerms, KeepsItsTerms
  <1>4. ASSUME NEW sender, NEW user, NEW amount, NEW txHash \in TxHashes,
               AddProof(sender, txHash, user, amount)
        PROVE  DepositsKeepTerms
    <2>1. \A id \in DepositIds : IsOpen(depositIdToDepositor[id]) =>
             depositIdToDepositor'[id] = depositIdToDepositor[id]
      BY <1>1, <1>4 DEF AddProof, WithRequest, NoProofYet, IsOpen
    <2>. QED BY <1>2, <2>1 DEF DepositsKeepTerms, KeepsItsTerms
  <1>5. ASSUME NEW sender, NEW time, NEW ids, SetClaimableTimestamp(sender, time, ids)
        PROVE  DepositsKeepTerms
    BY <1>5 DEF SetClaimableTimestamp, DepositsKeepTerms, KeepsItsTerms
  <1>6. ASSUME NEW sender, NEW ids \in SUBSET DepositIds, NEW priceIdOf \in [ids -> PriceIds],
               SetPriceIdForDeposits(sender, priceIdOf)
        PROVE  DepositsKeepTerms
    BY <1>1, <1>2, <1>6
       DEF SetPriceIdForDeposits, PriceIdNotSet, WithPriceIds, DepositsKeepTerms, KeepsItsTerms,
           Depositor
  <1>7. ASSUME NEW ids \in SUBSET DepositIds, ClaimMint(ids) PROVE DepositsKeepTerms
    <2>1. \A id \in ids : Minted(id)' > Minted(id)
      BY <1>1, <1>7, SMT DEF ClaimMint, Minted, DepositHistory
    <2>2. \A id \in DepositIds \ ids : depositIdToDepositor'[id] = depositIdToDepositor[id]
      BY <1>1, <1>7 DEF ClaimMint, DeleteEntries
    <2>. QED BY <1>2, <2>1, <2>2 DEF DepositsKeepTerms, KeepsItsTerms
  <1>. QED BY <1>3, <1>4, <1>5, <1>6, <1>7
(* The same for the redemptions: ids are taken from the counter, so a new  *)
(* request never lands on one that is open.                                *)
LEMMA RedemptionStepsKeepTerms ==
  ASSUME Inv
  PROVE  /\ \A sender, amount : RequestRedemption(sender, amount) => RedemptionsKeepTerms
         /\ \A sender, amount :
              RequestRedemptionServicedOffchain(sender, amount) => RedemptionsKeepTerms
         /\ \A sender : \A ids \in SUBSET RedemptionIds : \A priceIdOf \in [ids -> PriceIds] :
              SetPriceIdForRedemptions(sender, priceIdOf) => RedemptionsKeepTerms
         /\ \A ids \in SUBSET RedemptionIds : ClaimRedemption(ids) => RedemptionsKeepTerms
  <1>1. /\ redemptionIdToRedeemer \in [RedemptionIds -> Redeemer]
        /\ redemptionHistory \in [RedemptionIds -> RedemptionHistory]
        /\ redemptionRequestCounter \in 1 .. MaxRedemptions + 1
    BY DEF Inv, RedemptionsInv, RedemptionsTypeOK
  <1>2. \A id \in 1 .. redemptionRequestCounter - 1 :
          id \in RedemptionIds /\ id # redemptionRequestCounter
    BY <1>1, BoundsAssumption, SMT DEF RedemptionIds
  <1>3. ASSUME NEW sender, NEW amount, RequestRedemption(sender, amount)
        PROVE  RedemptionsKeepTerms
    BY <1>1, <1>2, <1>3
       DEF RequestRedemption, WithRequest, RedemptionsKeepTerms, KeepsItsTerms
  <1>4. ASSUME NEW sender, NEW amount, RequestRedemptionServicedOffchain(sender, amount)
        PROVE  RedemptionsKeepTerms
    BY <1>4 DEF RequestRedemptionServicedOffchain, RedemptionsKeepTerms, KeepsItsTerms
  <1>5. ASSUME NEW sender, NEW ids \in SUBSET RedemptionIds, NEW priceIdOf \in [ids -> PriceIds],
               SetPriceIdForRedemptions(sender, priceIdOf)
        PROVE  RedemptionsKeepTerms
    BY <1>1, <1>2, <1>5
       DEF SetPriceIdForRedemptions, PriceIdNotSet, WithPriceIds, RedemptionsKeepTerms,
           KeepsItsTerms, Redeemer, Depositor
  <1>6. ASSUME NEW ids \in SUBSET RedemptionIds, ClaimRedemption(ids)
        PROVE  RedemptionsKeepTerms
    <2>1. \A id \in ids : Paid(id)' > Paid(id)
      BY <1>1, <1>6, SMT DEF ClaimRedemption, Paid, RedemptionHistory
    <2>2. \A id \in RedemptionIds \ ids :
             redemptionIdToRedeemer'[id] = redemptionIdToRedeemer[id]
      BY <1>1, <1>6 DEF ClaimRedemption, DeleteEntries
    <2>. QED BY <1>2, <2>1, <2>2 DEF RedemptionsKeepTerms, KeepsItsTerms
  <1>. QED BY <1>3, <1>4, <1>5, <1>6

(* The steps that touch neither table of requests.                         *)
LEMMA OtherStepsKeepTables ==
  /\ \A sender : ConfigureNext(sender) => UNCHANGED <<depositVars, redemptionVars>>
  /\ PricerStep \/ RestrictionsStep \/ Tick \/ UNCHANGED vars
       => UNCHANGED <<depositVars, redemptionVars>>
  <1>1. \A sender : ConfigureNext(sender) => UNCHANGED <<depositVars, redemptionVars>>
    BY DEF ConfigureNext, Configure, SetMinimumRedemptionAmount, SetMinimumDepositAmount,
           SetOffChainRedemptionMinimum, SetMintFee, SetRedemptionFee, SetPricer,
           SetFeeRecipient, SetAssetSender, SetBlocklist, SetSanctionsList, Pause, Unpause,
           SetPaused
  <1>2. PricerStep \/ RestrictionsStep \/ Tick \/ UNCHANGED vars
          => UNCHANGED <<depositVars, redemptionVars>>
    BY DEF PricerStep, RestrictionsStep, Tick, vars, managerVars
  <1>. QED BY <1>1, <1>2

(* Only the two overwrite functions change an open request.                *)
LEMMA NextKeepsTerms ==
  Inv /\ [Next]_vars /\ overwrites' = overwrites => DepositsKeepTerms /\ RedemptionsKeepTerms
  <1>. SUFFICES ASSUME Inv, [Next]_vars, overwrites' = overwrites
                PROVE  DepositsKeepTerms /\ RedemptionsKeepTerms
    OBVIOUS
  <1>1. ASSUME NEW sender \in Users, UserNext(sender)
        PROVE  DepositsKeepTerms /\ RedemptionsKeepTerms
    BY <1>1, SameTablesKeepTerms, DepositStepsKeepTerms, RedemptionStepsKeepTerms
       DEF UserNext, RequestSubscription, RequestRedemption, RequestRedemptionServicedOffchain
  <1>2. CASE AnyoneNext
    BY <1>2, SameTablesKeepTerms, DepositStepsKeepTerms, RedemptionStepsKeepTerms
       DEF AnyoneNext, Batches, ClaimMint, ClaimRedemption
  <1>3. ASSUME NEW sender \in Operators, OperatorNext(sender)
        PROVE  DepositsKeepTerms /\ RedemptionsKeepTerms
    <2>1. ASSUME NEW txHash \in TxHashes, NEW user, NEW amount,
                 AddProof(sender, txHash, user, amount)
          PROVE  DepositsKeepTerms /\ RedemptionsKeepTerms
      BY <2>1, SameTablesKeepTerms, DepositStepsKeepTerms DEF AddProof
    <2>2. ASSUME NEW ids \in SUBSET DepositIds, NEW priceIdOf \in [ids -> PriceIds],
                 SetPriceIdForDeposits(sender, priceIdOf)
          PROVE  DepositsKeepTerms /\ RedemptionsKeepTerms
      BY <2>2, SameTablesKeepTerms, DepositStepsKeepTerms DEF SetPriceIdForDeposits
    <2>3. ASSUME NEW time, NEW ids, SetClaimableTimestamp(sender, time, ids)
          PROVE  DepositsKeepTerms /\ RedemptionsKeepTerms
      BY <2>3, SameTablesKeepTerms, DepositStepsKeepTerms DEF SetClaimableTimestamp
    <2>4. ASSUME NEW ids \in SUBSET RedemptionIds, NEW priceIdOf \in [ids -> PriceIds],
                 SetPriceIdForRedemptions(sender, priceIdOf)
          PROVE  DepositsKeepTerms /\ RedemptionsKeepTerms
      BY <2>4, SameTablesKeepTerms, RedemptionStepsKeepTerms DEF SetPriceIdForRedemptions
    <2>. QED BY <1>3, <2>1, <2>2, <2>3, <2>4 DEF OperatorNext, Batches
  <1>4. ASSUME NEW sender \in Operators, OverwriteNext(sender) PROVE FALSE
    BY <1>4, SMT
       DEF OverwriteNext, OverwriteDepositor, OverwriteRedeemer, Inv, SettingsTypeOK
  <1>5. CASE \/ \E sender \in Operators : ConfigureNext(sender)
             \/ PricerStep \/ RestrictionsStep \/ Tick \/ UNCHANGED vars
    BY <1>5, OtherStepsKeepTables, SameTablesKeepTerms
  <1>. QED BY <1>1, <1>2, <1>3, <1>4, <1>5 DEF Next

(* An open request keeps its terms until it is claimed or overwritten.     *)
THEOREM RequestsKept == Spec => OpenRequestsAreKept
  <1>1. Inv /\ [Next]_vars =>
          [overwrites' = overwrites => DepositsKeepTerms /\ RedemptionsKeepTerms]_vars
    BY NextKeepsTerms
  <1>. QED
    BY <1>1, AlwaysInv, PTL
       DEF Spec, OpenRequestsAreKept, DepositsKeepTerms, RedemptionsKeepTerms
-----------------------------------------------------------------------------
(* A claimable deposit stays claimable.                                    *)

LaterTimestamp(id) == depositIdToClaimableTimestamp'[id] >= now

(* Time and the price ids only grow, and the time of a deposit changes by  *)
(* its claim or to one that is not in the past.                            *)
StepsForward ==
  /\ now' >= now
  /\ currentPriceId' >= currentPriceId
  /\ \A id \in DepositIds :
       \/ depositIdToClaimableTimestamp'[id] = depositIdToClaimableTimestamp[id]
       \/ LaterTimestamp(id)
       \/ Minted(id)' > Minted(id)

(* Every step that changes neither the clock nor the price ids nor a time. *)
LEMMA StandingStillIsForward ==
  Inv /\ UNCHANGED <<now, pricerVars, depositIdToClaimableTimestamp>> => StepsForward
  BY PricerAssumption, SMT
     DEF Inv, PricerInv, TableInv, PricerTypeOK, PriceIds, SettingsTypeOK, pricerVars, StepsForward

(* Time does not run backwards, whatever the step.                         *)
LEMMA NextStepsForward == Inv /\ [Next]_vars => StepsForward
  <1>. SUFFICES ASSUME Inv, [Next]_vars PROVE StepsForward
    OBVIOUS
  <1>1. ASSUME NEW sender \in Users, UserNext(sender) PROVE StepsForward
    BY <1>1, StandingStillIsForward
       DEF UserNext, RequestSubscription, RequestRedemption, RequestRedemptionServicedOffchain,
           depositVars
  <1>2. ASSUME NEW ids \in SUBSET DepositIds, ClaimMint(ids) PROVE StepsForward
    <2>1. depositHistory \in [DepositIds -> DepositHistory]
      BY DEF Inv, DepositsInv, DepositsTypeOK
    <2>2. \A id \in ids : Minted(id)' > Minted(id)
      BY <1>2, <2>1, SMT DEF ClaimMint, Minted, DepositHistory
    <2>3. \A id \in DepositIds \ ids :
             depositIdToClaimableTimestamp'[id] = depositIdToClaimableTimestamp[id]
      BY <1>2 DEF ClaimMint, DeleteTimestamps
    <2>4. now' >= now /\ currentPriceId' >= currentPriceId
      BY <1>2, PricerAssumption, BoundsAssumption, SMT
         DEF ClaimMint, pricerVars, Inv, PricerInv, TableInv, PricerTypeOK, PriceIds, SettingsTypeOK
    <2>. QED BY <2>2, <2>3, <2>4 DEF StepsForward
  <1>3. ASSUME NEW ids \in SUBSET RedemptionIds, ClaimRedemption(ids) PROVE StepsForward
    BY <1>3, StandingStillIsForward DEF ClaimRedemption, depositVars
  <1>4. ASSUME NEW sender \in Operators, NEW time \in 1 .. MaxTime,
               NEW ids \in SUBSET DepositIds, SetClaimableTimestamp(sender, time, ids)
        PROVE  StepsForward
    <2>1. \A id \in DepositIds :
             \/ depositIdToClaimableTimestamp'[id] = depositIdToClaimableTimestamp[id]
             \/ LaterTimestamp(id)
      BY <1>4 DEF SetClaimableTimestamp, LaterTimestamp
    <2>2. now' >= now /\ currentPriceId' >= currentPriceId
      BY <1>4, PricerAssumption, BoundsAssumption, SMT
         DEF SetClaimableTimestamp, pricerVars, Inv, PricerInv, TableInv, PricerTypeOK, PriceIds,
             SettingsTypeOK
    <2>. QED BY <2>1, <2>2 DEF StepsForward
  <1>5. ASSUME NEW sender, NEW txHash, NEW user, NEW amount, AddProof(sender, txHash, user, amount)
        PROVE  StepsForward
    BY <1>5, StandingStillIsForward DEF AddProof
  <1>6. ASSUME NEW sender, NEW priceIdOf,
               SetPriceIdForDeposits(sender, priceIdOf) \/ SetPriceIdForRedemptions(sender, priceIdOf)
        PROVE  StepsForward
    BY <1>6, StandingStillIsForward
       DEF SetPriceIdForDeposits, SetPriceIdForRedemptions, depositVars
  <1>7. ASSUME NEW sender \in Operators, OverwriteNext(sender) PROVE StepsForward
    BY <1>7, StandingStillIsForward
       DEF OverwriteNext, OverwriteDepositor, OverwriteRedeemer, depositVars
  <1>8. ASSUME NEW sender \in Operators, ConfigureNext(sender) PROVE StepsForward
    <2>1. UNCHANGED <<now, pricerVars>>
      BY <1>8
         DEF ConfigureNext, Configure, SetMinimumRedemptionAmount, SetMinimumDepositAmount,
             SetOffChainRedemptionMinimum, SetMintFee, SetRedemptionFee, SetPricer,
             SetFeeRecipient, SetAssetSender, SetBlocklist, SetSanctionsList, Pause, Unpause,
             SetPaused
    <2>. QED BY <1>8, <2>1, OtherStepsKeepTables, StandingStillIsForward DEF depositVars
  <1>9. CASE PricerStep
    <2>1. currentPriceId' >= currentPriceId
      <3>1. currentPriceId \in Nat
        BY PricerAssumption, SMT DEF Inv, PricerInv, TableInv, PricerTypeOK, PriceIds
      <3>2. currentPriceId' = currentPriceId + 1 \/ currentPriceId' = currentPriceId
        BY <1>9 DEF PricerStep, PricerNext, AddPrice, UpdatePrice
      <3>. QED BY <3>1, <3>2, SMT
    <2>2. UNCHANGED <<now, depositIdToClaimableTimestamp>>
      BY <1>9 DEF PricerStep, managerVars, depositVars
    <2>. QED BY <2>1, <2>2, BoundsAssumption, SMT DEF StepsForward, Inv, SettingsTypeOK
  <1>10. CASE RestrictionsStep \/ UNCHANGED vars
    BY <1>10, StandingStillIsForward
       DEF RestrictionsStep, vars, managerVars, depositVars
  <1>11. CASE Tick
    BY <1>11, PricerAssumption, BoundsAssumption, SMT
       DEF Tick, depositVars, pricerVars, StepsForward, Inv, SettingsTypeOK, PricerInv, TableInv,
           PricerTypeOK, PriceIds
  <1>12. ASSUME NEW sender \in Operators, OperatorNext(sender) PROVE StepsForward
    BY <1>4, <1>5, <1>6, <1>12 DEF OperatorNext, Batches
  <1>13. ASSUME AnyoneNext PROVE StepsForward
    BY <1>2, <1>3, <1>13 DEF AnyoneNext, Batches
  <1>. QED BY <1>1, <1>7, <1>8, <1>9, <1>10, <1>11, <1>12, <1>13 DEF Next

Undone(id) == \/ Minted(id)' > Minted(id)
              \/ overwrites' # overwrites
              \/ config'.pricer # config.pricer
              \/ depositIdToClaimableTimestamp'[id] > depositIdToClaimableTimestamp[id]

(* The price id that made a deposit claimable still has a price, its terms *)
(* are kept and its time stays reached.                                    *)
LEMMA NextKeepsClaimable ==
  ASSUME Inv, [Next]_vars, NEW id \in IssuedDeposits, Claimable(id), ~Undone(id)
  PROVE  Claimable(id)'
  <1>. DEFINE old == depositIdToDepositor[id]
              new == depositIdToDepositor'[id]
  <1>1. Inv' /\ StepsForward /\ DepositsKeepTerms
    BY NextInv, NextStepsForward, NextKeepsTerms DEF Undone
  <1>2. id \in DepositIds /\ old \in Depositor
    BY DEF IssuedDeposits, DepositIds, Inv, DepositsInv, DepositsTypeOK
  <1>3. KeepsItsTerms(old, new) /\ IsOpen(old) /\ old.priceId # 0
    BY <1>1 DEF DepositsKeepTerms, Undone, Claimable
  <1>4. IsOpen(new) /\ new.priceId = old.priceId
    BY <1>3 DEF KeepsItsTerms, IsOpen
  <1>5. config.pricer = ThePricer /\ config'.pricer = ThePricer
    BY DEF Claimable, PriceOf, Undone
  <1>6. prices'[old.priceId].price # 0
    <2>1. old.priceId \in 1 .. currentPriceId /\ old.priceId \in PriceIds
      BY <1>2, <1>5
         DEF Claimable, PriceOf, Inv, PricerInv, TableInv, PricedIdsAreIssued, Depositor
    <2>2. old.priceId \in 1 .. currentPriceId'
      BY <2>1, <1>1, PricerAssumption, SMT
         DEF StepsForward, Inv, PricerInv, TableInv, PricerTypeOK, PriceIds
    <2>. QED BY <2>1, <2>2, <1>1 DEF Inv, PricerInv, TableInv, PricedIdsAreIssued
  <1>7. TimestampReached(id)'
    <2>1. /\ depositIdToClaimableTimestamp[id] \in Nat \ {0}
          /\ depositIdToClaimableTimestamp[id] <= now
          /\ depositIdToClaimableTimestamp'[id] \in Nat /\ now \in Nat /\ now' \in Nat
      BY <1>1, <1>2, BoundsAssumption, SMT
         DEF Claimable, TimestampReached, Inv, DepositsInv, DepositsTypeOK, SettingsTypeOK
    <2>2. depositIdToClaimableTimestamp'[id] = depositIdToClaimableTimestamp[id]
      BY <1>1, <1>2, <2>1, SMT DEF StepsForward, LaterTimestamp, Undone
    <2>. QED BY <1>1, <2>1, <2>2, SMT DEF StepsForward, TimestampReached
  <1>. QED BY <1>4, <1>5, <1>6, <1>7 DEF Claimable, PriceOf, IsOpen

(* A deposit that can be claimed stays so until it is claimed, overwritten *)
(* or postponed, or the pricer is replaced.                                *)
THEOREM ClaimableKept == Spec => ClaimableUntilClaimed
  <1>1. Inv /\ [Next]_vars =>
          [\A id \in IssuedDeposits :
             Claimable(id) => \/ Claimable(id)'
                              \/ Minted(id)' > Minted(id)
                              \/ overwrites' # overwrites
                              \/ config'.pricer # config.pricer
                              \/ depositIdToClaimableTimestamp'[id]
                                   > depositIdToClaimableTimestamp[id]]_vars
    BY NextKeepsClaimable DEF Undone
  <1>. QED BY <1>1, AlwaysInv, PTL DEF Spec, ClaimableUntilClaimed

-----------------------------------------------------------------------------
(***************************************************************************)
(* Who is paid by a step.  The amounts of a batch are sums over its ids,   *)
(* which the lemmas on sums of HubMathProofs evaluate for every batch.     *)
(***************************************************************************)

(* A batch is finite, each of its ids is due an amount, and the fee taken  *)
(* from it does not exceed it.                                             *)
LEMMA RedemptionsDue ==
  ASSUME Inv, NEW ids \in SUBSET RedemptionIds
  PROVE  /\ IsFiniteSet(ids)
         /\ \A id \in ids : /\ CollateralDue(id) \in Nat
                            /\ RedemptionFeesOf(id) \in 0 .. CollateralDue(id)
  <1>1. IsFiniteSet(ids)
    <2>1. IsFiniteSet(RedemptionIds)
      BY BoundsAssumption, FS_Interval, SMT DEF RedemptionIds
    <2>. QED BY <2>1, FS_Subset
  <1>2. ASSUME NEW id \in ids
        PROVE  CollateralDue(id) \in Nat /\ RedemptionFeesOf(id) \in 0 .. CollateralDue(id)
    <2>1. redemptionIdToRedeemer[id] \in Depositor
      BY DEF Inv, RedemptionsInv, RedemptionsTypeOK, Redeemer
    <2>2. PriceOf(redemptionIdToRedeemer[id].priceId) \in Nat
      BY <2>1 DEF PriceOf, Depositor, Inv, PricerInv, TableInv, PricerTypeOK, PriceInfo
    <2>3. CollateralDue(id) \in Nat
      BY <2>1, <2>2, RedemptionAmountTyped DEF CollateralDue, Depositor
    <2>4. config.redemptionFee \in 0 .. BPS_DENOMINATOR
      BY DEF Inv, SettingsTypeOK, Config
    <2>. QED BY <2>3, <2>4, FeesWithinAmount DEF RedemptionFeesOf
  <1>. QED BY <1>1, <1>2

(* What a batch of redemptions pays to an account is not negative, and     *)
(* nothing to an account that none of them belongs to.                     *)
LEMMA RedemptionsPay ==
  ASSUME Inv, NEW ids \in SUBSET RedemptionIds, NEW a \in Accounts
  PROVE  /\ CollateralDueTo(ids)[a] \in Nat
         /\ (\A id \in ids : redemptionIdToRedeemer[id].user # a) => CollateralDueTo(ids)[a] = 0
  <1>. DEFINE mine == {id \in ids : redemptionIdToRedeemer[id].user = a}
              paid == [id \in ids |-> CollateralDue(id) - RedemptionFeesOf(id)]
  <1>1. CollateralDueTo(ids)[a] = Sum(paid, mine)
    BY DEF CollateralDueTo
  <1>2. IsFiniteSet(mine)
    BY RedemptionsDue, FS_Subset
  <1>3. \A id \in mine : paid[id] \in Nat
    BY RedemptionsDue
  <1>4. Sum(paid, mine) \in Nat
    <2>. HIDE DEF mine, paid
    <2>. QED BY <1>2, <1>3, SumNonnegative
  <1>5. (\A id \in ids : redemptionIdToRedeemer[id].user # a) => mine = {}
    OBVIOUS
  <1>. QED BY <1>1, <1>4, <1>5, SumEmpty

(* A subscription takes from its sender, who is not restricted, and pays   *)
(* no customer.                                                            *)
LEMMA RequestSubscriptionPays ==
  ASSUME Inv, NEW sender, NEW amount \in DepositAmounts, RequestSubscription(sender, amount)
  PROVE  /\ ~paused["subscription"]
         /\ usdy' = usdy
         /\ \A user \in Users : /\ usdc'[user] <= usdc[user]
                                /\ Restricted(user) => usdc'[user] = usdc[user]
  <1>. DEFINE fee  == FeesAt(config.mintFee, amount)
              from == To(sender, amount)
              to   == [a \in Accounts |-> FeesTo(fee)[a] + To(AssetRecipient, amount - fee)[a]]
  <1>1. MoveUsdc(from, to) /\ usdy' = usdy /\ ~paused["subscription"] /\ ~Restricted(sender)
    BY DEF RequestSubscription, IfNotPaused
  <1>2. ASSUME NEW user \in Users
        PROVE  usdc'[user] <= usdc[user] /\ (Restricted(user) => usdc'[user] = usdc[user])
    <2>1. user \in Accounts /\ user # AssetRecipient /\ user # config.feeRecipient
      BY ManagerAssumption, RestrictionsAssumption DEF Inv, SettingsTypeOK, Config
    <2>2. to[user] = 0
      BY <2>1 DEF FeesTo, To
    <2>3. from[user] \in Nat /\ (Restricted(user) => from[user] = 0)
      BY <1>1, <2>1, BoundsAssumption DEF To
    <2>4. usdc[user] \in Nat
      BY <2>1, BoundsAssumption, SMT DEF Inv, MoneyTypeOK, Balances
    <2>. HIDE DEF from, to
    <2>5. usdc'[user] = usdc[user] - from[user] + to[user]
      BY <1>1, <2>1 DEF MoveUsdc
    <2>. QED BY <2>2, <2>3, <2>4, <2>5, SMT
  <1>. QED BY <1>1, <1>2

(* A redemption of either kind takes from its sender, who may hold USDY.   *)
LEMMA RequestRedemptionPays ==
  ASSUME Inv, NEW sender, NEW amount \in RedemptionAmounts,
         \/ RequestRedemption(sender, amount)
         \/ RequestRedemptionServicedOffchain(sender, amount)
  PROVE  /\ \E feature \in Features : ~paused[feature]
         /\ usdc' = usdc
         /\ \A a \in Accounts : /\ usdy'[a] <= usdy[a]
                                /\ ~MayHold(a) => usdy'[a] = usdy[a]
  <1>1. /\ BurnUsdyFrom(sender, amount) /\ usdc' = usdc
        /\ sender \in Accounts /\ sender # NullAddress
    BY ManagerAssumption, RestrictionsAssumption
       DEF RequestRedemption, RequestRedemptionServicedOffchain
  <1>2. ASSUME NEW a \in Accounts
        PROVE  usdy'[a] <= usdy[a] /\ (~MayHold(a) => usdy'[a] = usdy[a])
    <2>1. MayHold(sender)
      BY <1>1 DEF BurnUsdyFrom, BeforeTokenTransfer
    <2>2. usdy'[a] <= usdy[a]
      BY <1>1, BoundsAssumption, SMT DEF BurnUsdyFrom, Inv, MoneyTypeOK, Balances
    <2>3. a # sender => usdy'[a] = usdy[a]
      BY <1>1 DEF BurnUsdyFrom, Inv, MoneyTypeOK, Balances
    <2>. QED BY <2>1, <2>2, <2>3
  <1>3. \E feature \in Features : ~paused[feature]
    BY DEF RequestRedemption, RequestRedemptionServicedOffchain, IfNotPaused, Features
  <1>. QED BY <1>1, <1>2, <1>3

(* A claim of deposits mints to users who may hold USDY, to nobody else.   *)
LEMMA ClaimMintPays ==
  ASSUME Inv, NEW ids \in SUBSET DepositIds, ClaimMint(ids)
  PROVE  /\ ~paused["subscription"]
         /\ usdc' = usdc
         /\ \A user \in Users : ~MayHold(user) => usdy'[user] = usdy[user]
  <1>1. MintUsdy(UsdyOwedTo(ids)) /\ usdc' = usdc /\ ~paused["subscription"]
    BY DEF ClaimMint, IfNotPaused
  <1>2. ASSUME NEW user \in Users, ~MayHold(user) PROVE usdy'[user] = usdy[user]
    <2>1. \A id \in ids : depositIdToDepositor[id].user # user
      BY <1>2 DEF ClaimMint, BeforeTokenTransfer
    <2>2. user \in Accounts
      BY ManagerAssumption
    <2>3. {id \in ids : depositIdToDepositor[id].user = user} = {}
      BY <2>1
    <2>4. UsdyOwedTo(ids)[user] = 0
      BY <2>2, <2>3, SumEmpty DEF UsdyOwedTo
    <2>5. usdy[user] \in Nat
      BY <2>2, BoundsAssumption, SMT DEF Inv, MoneyTypeOK, Balances
    <2>. QED BY <1>1, <2>2, <2>4, <2>5, SMT DEF MintUsdy
  <1>. QED BY <1>1, <1>2

(* A claim of redemptions takes from no user and pays no restricted one.   *)
LEMMA ClaimRedemptionPays ==
  ASSUME Inv, NEW ids \in SUBSET RedemptionIds, ClaimRedemption(ids)
  PROVE  /\ ~paused["redemption"]
         /\ usdy' = usdy
         /\ \A user \in Users : /\ usdc'[user] >= usdc[user]
                                /\ Restricted(user) => usdc'[user] = usdc[user]
  <1>. DEFINE fees  == Sum([id \in ids |-> RedemptionFeesOf(id)], ids)
              total == Sum([id \in ids |-> CollateralDue(id)], ids)
              dueTo == CollateralDueTo(ids)
              from  == To(config.assetSender, total)
              to    == [a \in Accounts |-> dueTo[a] + FeesTo(fees)[a]]
  <1>1. MoveUsdc(from, to) /\ usdy' = usdy /\ ~paused["redemption"]
    BY DEF ClaimRedemption, IfNotPaused
  <1>2. ASSUME NEW user \in Users
        PROVE  usdc'[user] >= usdc[user] /\ (Restricted(user) => usdc'[user] = usdc[user])
    <2>1. user \in Accounts /\ user # config.assetSender /\ user # config.feeRecipient
      BY ManagerAssumption, RestrictionsAssumption DEF Inv, SettingsTypeOK, Config
    <2>2. from[user] = 0 /\ to[user] = dueTo[user] + 0
      BY <2>1 DEF FeesTo, To
    <2>3. dueTo[user] \in Nat /\ (Restricted(user) => dueTo[user] = 0)
      BY <2>1, RedemptionsPay DEF ClaimRedemption, MayBePaid
    <2>4. usdc[user] \in Nat
      BY <2>1, BoundsAssumption, SMT DEF Inv, MoneyTypeOK, Balances
    <2>. HIDE DEF from, to, dueTo
    <2>5. usdc'[user] = usdc[user] - from[user] + to[user]
      BY <1>1, <2>1 DEF MoveUsdc
    <2>. QED BY <2>2, <2>3, <2>4, <2>5, SMT
  <1>. QED BY <1>1, <1>2

(* No other step moves either token.                                       *)
LEMMA MoneyMoves ==
  ASSUME [Next]_vars
  PROVE  \/ \E sender \in Users, amount \in DepositAmounts : RequestSubscription(sender, amount)
         \/ \E sender \in Users, amount \in RedemptionAmounts :
              \/ RequestRedemption(sender, amount)
              \/ RequestRedemptionServicedOffchain(sender, amount)
         \/ \E ids \in SUBSET DepositIds : ClaimMint(ids)
         \/ \E ids \in SUBSET RedemptionIds : ClaimRedemption(ids)
         \/ UNCHANGED <<usdc, usdy>>
  <1>1. ASSUME NEW sender \in Users, UserNext(sender)
        PROVE  \/ \E amount \in DepositAmounts : RequestSubscription(sender, amount)
               \/ \E amount \in RedemptionAmounts :
                    \/ RequestRedemption(sender, amount)
                    \/ RequestRedemptionServicedOffchain(sender, amount)
    BY <1>1 DEF UserNext
  <1>2. ASSUME AnyoneNext
        PROVE  \/ \E ids \in SUBSET DepositIds : ClaimMint(ids)
               \/ \E ids \in SUBSET RedemptionIds : ClaimRedemption(ids)
    BY <1>2 DEF AnyoneNext, Batches
  <1>3. ASSUME NEW sender \in Operators, OperatorNext(sender) PROVE UNCHANGED <<usdc, usdy>>
    BY <1>3 DEF OperatorNext, AddProof, SetPriceIdForDeposits, SetClaimableTimestamp,
                SetPriceIdForRedemptions
  <1>4. ASSUME NEW sender \in Operators, OverwriteNext(sender) PROVE UNCHANGED <<usdc, usdy>>
    BY <1>4 DEF OverwriteNext, OverwriteDepositor, OverwriteRedeemer
  <1>5. ASSUME NEW sender \in Operators, ConfigureNext(sender) PROVE UNCHANGED <<usdc, usdy>>
    BY <1>5 DEF ConfigureNext, Configure, SetMinimumRedemptionAmount, SetMinimumDepositAmount,
                SetOffChainRedemptionMinimum, SetMintFee, SetRedemptionFee, SetPricer,
                SetFeeRecipient, SetAssetSender, SetBlocklist, SetSanctionsList, Pause, Unpause,
                SetPaused
  <1>6. PricerStep \/ RestrictionsStep \/ Tick \/ UNCHANGED vars => UNCHANGED <<usdc, usdy>>
    BY DEF PricerStep, RestrictionsStep, Tick, vars, managerVars
  <1>. QED BY <1>1, <1>2, <1>3, <1>4, <1>5, <1>6 DEF Next

LEMMA NextSparesRestricted ==
  ASSUME Inv, [Next]_vars, NEW user \in Users
  PROVE  /\ Restricted(user) => usdc'[user] = usdc[user]
         /\ ~MayHold(user) => usdy'[user] = usdy[user]
  <1>1. user \in Accounts
    BY ManagerAssumption
  <1>2. CASE \E sender \in Users, amount \in DepositAmounts : RequestSubscription(sender, amount)
    BY <1>2, RequestSubscriptionPays
  <1>3. CASE \E sender \in Users, amount \in RedemptionAmounts :
                \/ RequestRedemption(sender, amount)
                \/ RequestRedemptionServicedOffchain(sender, amount)
    BY <1>1, <1>3, RequestRedemptionPays
  <1>4. CASE \E ids \in SUBSET DepositIds : ClaimMint(ids)
    BY <1>4, ClaimMintPays
  <1>5. CASE \E ids \in SUBSET RedemptionIds : ClaimRedemption(ids)
    BY <1>5, ClaimRedemptionPays
  <1>6. CASE UNCHANGED <<usdc, usdy>>
    BY <1>6
  <1>. QED BY <1>2, <1>3, <1>4, <1>5, <1>6, MoneyMoves

(* No request, claim, batch or fee moves collateral of a user whom the     *)
(* manager's lists name at the time, or USDY of one whom the token's lists *)
(* name or its allowlist does not.                                         *)
THEOREM RestrictedNotServed == Spec => RestrictedAreNotServed
  <1>1. Inv /\ [Next]_vars =>
          [\A user \in Users : /\ Restricted(user) => usdc'[user] = usdc[user]
                               /\ ~MayHold(user) => usdy'[user] = usdy[user]]_vars
    BY NextSparesRestricted
  <1>. QED BY <1>1, AlwaysInv, PTL DEF Spec, RestrictedAreNotServed

\* What each of the three pauses stops
PausedSubscriptions == paused["subscription"] =>
  \A a \in Accounts : usdy'[a] <= usdy[a] /\ (a \in Users => usdc'[a] >= usdc[a])
PausedRedemptions == paused["redemption"] => \A user \in Users : usdc'[user] <= usdc[user]
PausedAll == (\A feature \in Features : paused[feature]) => usdc' = usdc /\ usdy' = usdy

LEMMA NextObeysPauses ==
  ASSUME Inv, [Next]_vars
  PROVE  PausedSubscriptions /\ PausedRedemptions /\ PausedAll
  <1>1. Users \subseteq Accounts /\ \A a \in Accounts : usdc[a] \in Nat /\ usdy[a] \in Nat
    BY ManagerAssumption, BoundsAssumption, SMT DEF Inv, MoneyTypeOK, Balances
  <1>2. usdc' = usdc => \A a \in Accounts : usdc'[a] <= usdc[a] /\ usdc'[a] >= usdc[a]
    BY <1>1, SMT
  <1>3. usdy' = usdy => \A a \in Accounts : usdy'[a] <= usdy[a]
    BY <1>1, SMT
  <1>4. CASE \E sender \in Users, amount \in DepositAmounts : RequestSubscription(sender, amount)
    BY <1>4, RequestSubscriptionPays
       DEF PausedSubscriptions, PausedRedemptions, PausedAll, Features
  <1>5. CASE \E sender \in Users, amount \in RedemptionAmounts :
                \/ RequestRedemption(sender, amount)
                \/ RequestRedemptionServicedOffchain(sender, amount)
    <2>1. /\ \E feature \in Features : ~paused[feature]
          /\ usdc' = usdc
          /\ \A a \in Accounts : usdy'[a] <= usdy[a]
      BY <1>5, RequestRedemptionPays
    <2>. QED BY <1>1, <1>2, <2>1 DEF PausedSubscriptions, PausedRedemptions, PausedAll
  <1>6. CASE \E ids \in SUBSET DepositIds : ClaimMint(ids)
    <2>1. ~paused["subscription"] /\ usdc' = usdc
      BY <1>6, ClaimMintPays
    <2>. QED BY <1>1, <1>2, <2>1 DEF PausedSubscriptions, PausedRedemptions, PausedAll, Features
  <1>7. CASE \E ids \in SUBSET RedemptionIds : ClaimRedemption(ids)
    <2>1. /\ ~paused["redemption"] /\ usdy' = usdy
          /\ \A user \in Users : usdc'[user] >= usdc[user]
      BY <1>7, ClaimRedemptionPays
    <2>2. PausedSubscriptions
      BY <1>3, <2>1 DEF PausedSubscriptions
    <2>. QED BY <2>1, <2>2 DEF PausedRedemptions, PausedAll, Features
  <1>8. CASE UNCHANGED <<usdc, usdy>>
    BY <1>1, <1>2, <1>3, <1>8 DEF PausedSubscriptions, PausedRedemptions, PausedAll
  <1>. QED BY <1>4, <1>5, <1>6, <1>7, <1>8, MoneyMoves

(* What is paused moves no money, whatever else is called.                 *)
THEOREM PauseStopsMoney == Spec => PausedMovesNoMoney
  <1>1. Inv /\ [Next]_vars =>
          [/\ paused["subscription"] =>
                \A a \in Accounts : usdy'[a] <= usdy[a] /\ (a \in Users => usdc'[a] >= usdc[a])
           /\ paused["redemption"] => \A user \in Users : usdc'[user] <= usdc[user]
           /\ (\A feature \in Features : paused[feature]) => usdc' = usdc /\ usdy' = usdy]_vars
    BY NextObeysPauses DEF PausedSubscriptions, PausedRedemptions, PausedAll
  <1>. QED BY <1>1, AlwaysInv, PTL DEF Spec, PausedMovesNoMoney

-----------------------------------------------------------------------------
(***************************************************************************)
(* The fund covers its users.  The comparison of FundCovered is inductive  *)
(* together with Inv: in every step, price times the change of what the    *)
(* users hold in USDY, plus unit times the change of what they have in     *)
(* collateral above the fund, is at most 0.                                *)
(***************************************************************************)

\* The instances that FundCovered speaks of: one price, every deposit paid in
\* on chain, no entry written by hand, and a fund that pays out of other pockets.
OneMarket == /\ IsFiniteSet(Accounts)
             /\ AssetRecipient \notin AssetSenders
             /\ TxHashes = {} /\ OverwriteUsers = {}
             /\ \A p, q \in Prices \ {0} : p = q

\* The instances of UsersCovered: moreover no fee comes back to the fund, the fund
\* starts empty, and no price id is used that the pricer does not know.
ClosedMarket == /\ OneMarket
                /\ FeeRecipients \cap (AssetSenders \cup {AssetRecipient}) = {}
                /\ InitialUsdc[AssetRecipient] = 0
                /\ MaxPriceId = 1 /\ EmptyPricer \notin NewPricers

\* An id that was not given to a request yet has no amount.
UnusedIdsAreEmpty ==
  /\ \A id \in DepositIds :
       id >= subscriptionRequestCounter => depositIdToDepositor[id].amount = 0
  /\ \A id \in RedemptionIds :
       id >= redemptionRequestCounter => redemptionIdToRedeemer[id].amount = 0

PricesSubmitted == \A id \in PriceIds : prices[id].price \in Prices \cup {0}

\* The amounts of the entries of some ids, and what the asset senders paid
AmountsIn(table, ids) == Sum([id \in ids |-> table[id].amount], ids)
PaidFrom(balances)    == Sum([a \in Accounts |-> InitialUsdc[a] - balances[a]], AssetSenders)

RwaShare == Sum(usdy, Accounts) + AmountsIn(redemptionIdToRedeemer, RedemptionIds)
NetShare == AmountsIn(depositIdToDepositor, DepositIds) + PaidFrom(usdc) - usdc[AssetRecipient]

CoveredAt(price) == price * RwaShare + unit * NetShare <= 0

LEMMA MarketFacts ==
  ASSUME OneMarket
  PROVE  /\ IsFiniteSet(DepositIds) /\ IsFiniteSet(RedemptionIds) /\ IsFiniteSet(AssetSenders)
         /\ unit \in Nat
  <1>1. IsFiniteSet(1 .. MaxDeposits) /\ IsFiniteSet(1 .. MaxRedemptions)
    BY BoundsAssumption, FS_Interval, SMT
  <1>2. DepositIds = 1 .. MaxDeposits
    BY DEF OneMarket, DepositIds
  <1>3. IsFiniteSet(AssetSenders)
    BY ManagerAssumption, FS_Subset DEF OneMarket
  <1>4. unit \in Nat
    BY HubMathAssumption, SMT DEF unit
  <1>. QED BY <1>1, <1>2, <1>3, <1>4 DEF RedemptionIds

(* Amounts of a table of entries                                           *)
LEMMA AmountsInt ==
  ASSUME NEW S, IsFiniteSet(S), NEW T \in SUBSET S, NEW table \in [S -> Depositor]
  PROVE  AmountsIn(table, T) \in Int
  <1>. DEFINE f == [id \in T |-> table[id].amount]
  <1>1. IsFiniteSet(T) /\ IntOn(f, T)
    BY FS_Subset DEF IntOn, Depositor
  <1>2. Sum(f, T) \in Int
    BY <1>1, SumInt
  <1>. QED BY <1>2 DEF AmountsIn

LEMMA EntryReplaced ==
  ASSUME NEW S, IsFiniteSet(S), NEW table \in [S -> Depositor], NEW id \in S,
         NEW entry \in Depositor
  PROVE  /\ AmountsIn([table EXCEPT ![id] = entry], S)
              = AmountsIn(table, S) + (entry.amount - table[id].amount)
         /\ AmountsIn(table, S) \in Int /\ entry.amount \in Nat /\ table[id].amount \in Nat
  <1>. DEFINE f == [i \in S |-> table[i].amount]
              g == [i \in S |-> [table EXCEPT ![id] = entry][i].amount]
  <1>1. IntOn(f, S) /\ IntOn(g, S)
    BY DEF IntOn, Depositor
  <1>2. \A i \in S \ {id} : g[i] = f[i]
    OBVIOUS
  <1>3. g[id] = entry.amount /\ f[id] = table[id].amount
        /\ f[id] \in Nat /\ entry.amount \in Nat
    BY DEF Depositor
  <1>. HIDE DEF f, g
  <1>4. Sum(g, S) = Sum(f, S) + (g[id] - f[id]) /\ Sum(f, S) \in Int
    BY <1>1, <1>2, SumChange, SumInt
  <1>. QED BY <1>3, <1>4 DEF f, g, AmountsIn

LEMMA EntriesDeleted ==
  ASSUME NEW S, IsFiniteSet(S), NEW table \in [S -> Depositor], NEW T \in SUBSET S
  PROVE  AmountsIn(DeleteEntries(table, T), S) = AmountsIn(table, S) - AmountsIn(table, T)
  <1>. DEFINE f == [i \in S |-> table[i].amount]
              h == [i \in T |-> table[i].amount]
              g == [i \in S |-> DeleteEntries(table, T)[i].amount]
  <1>1. IntOn(f, S)
    BY DEF IntOn, Depositor
  <1>2. \A i \in S : g[i] = IF i \in T THEN 0 ELSE f[i]
    BY DEF DeleteEntries, NoEntry
  <1>3. \A i \in T : h[i] = f[i]
    OBVIOUS
  <1>. HIDE DEF f, g, h
  <1>4. Sum(g, S) = Sum(f, S) - Sum(f, T)
    BY <1>1, <1>2, SumCleared
  <1>5. Sum(h, T) = Sum(f, T)
    BY <1>3, FS_Subset, SumSame
  <1>. QED BY <1>4, <1>5 DEF f, g, h, AmountsIn

LEMMA EntriesPriced ==
  ASSUME NEW S, NEW table \in [S -> Depositor], NEW priceIdOf
  PROVE  AmountsIn(WithPriceIds(table, priceIdOf), S) = AmountsIn(table, S)
  <1>1. \A id \in S : WithPriceIds(table, priceIdOf)[id].amount = table[id].amount
    BY DEF WithPriceIds, Depositor
  <1>2. [id \in S |-> WithPriceIds(table, priceIdOf)[id].amount] = [id \in S |-> table[id].amount]
    BY <1>1
  <1>. QED BY <1>2 DEF AmountsIn

(* What the asset senders paid is at most what they paid before when none  *)
(* of them has less.                                                       *)
LEMMA PaidFromInt ==
  ASSUME OneMarket, NEW balances \in Balances
  PROVE  PaidFrom(balances) \in Int
  <1>. DEFINE f == [a \in Accounts |-> InitialUsdc[a] - balances[a]]
  <1>1. IntOn(f, AssetSenders)
    BY ManagerAssumption, BoundsAssumption DEF IntOn, Balances
  <1>2. Sum(f, AssetSenders) \in Int
    BY <1>1, MarketFacts, SumInt
  <1>. QED BY <1>2 DEF PaidFrom

LEMMA PaidFromAtMost ==
  ASSUME OneMarket, NEW before \in Balances, NEW after \in Balances,
         \A a \in AssetSenders : after[a] >= before[a]
  PROVE  PaidFrom(after) <= PaidFrom(before)
  <1>. DEFINE f == [a \in Accounts |-> InitialUsdc[a] - before[a]]
              g == [a \in Accounts |-> InitialUsdc[a] - after[a]]
  <1>1. IntOn(f, AssetSenders) /\ IntOn(g, AssetSenders)
    BY ManagerAssumption, BoundsAssumption DEF IntOn, Balances
  <1>2. \A a \in AssetSenders : g[a] <= f[a]
    BY ManagerAssumption, BoundsAssumption DEF Balances
  <1>. HIDE DEF f, g
  <1>3. Sum(g, AssetSenders) <= Sum(f, AssetSenders)
    BY <1>1, <1>2, MarketFacts, SumAtMost
  <1>. QED BY <1>3 DEF f, g, PaidFrom

LEMMA PaidFromOne ==
  ASSUME OneMarket, NEW before \in Balances, NEW after \in Balances,
         NEW payer \in AssetSenders, NEW amount \in Int,
         after[payer] >= before[payer] - amount,
         \A a \in AssetSenders \ {payer} : after[a] >= before[a]
  PROVE  /\ PaidFrom(after) <= PaidFrom(before) + amount
         /\ /\ after[payer] = before[payer] - amount
            /\ \A a \in AssetSenders \ {payer} : after[a] = before[a]
            => PaidFrom(after) = PaidFrom(before) + amount
  <1>. DEFINE f == [a \in Accounts |-> InitialUsdc[a] - before[a]]
              g == [a \in Accounts |-> InitialUsdc[a] - after[a]]
              h == [f EXCEPT ![payer] = @ + amount]
  <1>0. payer \in Accounts /\ AssetSenders \subseteq Accounts
    BY ManagerAssumption
  <1>1. \A a \in Accounts : f[a] \in Int /\ g[a] \in Int
    BY BoundsAssumption DEF Balances
  <1>2. /\ IntOn(f, AssetSenders) /\ IntOn(g, AssetSenders) /\ IntOn(h, AssetSenders)
        /\ h[payer] - f[payer] = amount
        /\ \A a \in AssetSenders \ {payer} : h[a] = f[a]
    BY <1>0, <1>1 DEF IntOn
  <1>3. \A a \in AssetSenders : g[a] <= h[a]
    BY <1>0, BoundsAssumption DEF Balances
  <1>. DEFINE exact == /\ after[payer] = before[payer] - amount
                       /\ \A a \in AssetSenders \ {payer} : after[a] = before[a]
  <1>7. exact => \A a \in AssetSenders : g[a] = h[a]
    BY <1>0, BoundsAssumption DEF Balances
  <1>. HIDE DEF f, g, h
  <1>8. exact => Sum(g, AssetSenders) = Sum(h, AssetSenders)
    BY <1>7, MarketFacts, SumSame
  <1>4. Sum(g, AssetSenders) <= Sum(h, AssetSenders)
    BY <1>2, <1>3, MarketFacts, SumAtMost
  <1>5. Sum(h, AssetSenders) = Sum(f, AssetSenders) + (h[payer] - f[payer])
    BY <1>2, MarketFacts, SumChange
  <1>6. Sum(g, AssetSenders) <= Sum(f, AssetSenders) + amount
    BY <1>2, <1>4, <1>5
  <1>9. exact => Sum(g, AssetSenders) = Sum(f, AssetSenders) + amount
    BY <1>2, <1>5, <1>8
  <1>. QED BY <1>6, <1>9 DEF f, g, PaidFrom

LEMMA SharesInt ==
  ASSUME Inv, Inv', OneMarket
  PROVE  /\ Sum(usdy, Accounts) \in Int /\ Sum(usdy', Accounts) \in Int
         /\ RwaShare \in Int /\ RwaShare' \in Int
         /\ NetShare \in Int /\ NetShare' \in Int
  <1>1. /\ usdc \in Balances /\ usdc' \in Balances /\ usdy \in Balances /\ usdy' \in Balances
        /\ depositIdToDepositor \in [DepositIds -> Depositor]
        /\ depositIdToDepositor' \in [DepositIds -> Depositor]
        /\ redemptionIdToRedeemer \in [RedemptionIds -> Depositor]
        /\ redemptionIdToRedeemer' \in [RedemptionIds -> Depositor]
    BY DEF Inv, MoneyTypeOK, DepositsInv, DepositsTypeOK, RedemptionsInv, RedemptionsTypeOK,
           Redeemer
  <1>2. \A balances \in Balances : IntOn(balances, Accounts) /\ balances[AssetRecipient] \in Int
    BY ManagerAssumption, BoundsAssumption DEF IntOn, Balances
  <1>3. \A balances \in Balances : Sum(balances, Accounts) \in Int
    BY <1>2, SumInt DEF OneMarket
  <1>4. /\ AmountsIn(redemptionIdToRedeemer, RedemptionIds) \in Int
        /\ AmountsIn(redemptionIdToRedeemer', RedemptionIds) \in Int
        /\ AmountsIn(depositIdToDepositor, DepositIds) \in Int
        /\ AmountsIn(depositIdToDepositor', DepositIds) \in Int
    BY <1>1, MarketFacts, AmountsInt
  <1>5. PaidFrom(usdc) \in Int /\ PaidFrom(usdc') \in Int
    BY <1>1, PaidFromInt
  <1>6. RwaShare \in Int /\ RwaShare' \in Int
    BY <1>1, <1>3, <1>4 DEF RwaShare
  <1>7. NetShare \in Int /\ NetShare' \in Int
    BY <1>1, <1>2, <1>4, <1>5 DEF NetShare
  <1>. QED BY <1>1, <1>3, <1>6, <1>7

(* The changes of the two shares that keep the comparison                  *)
LEMMA ShareStep ==
  ASSUME NEW p \in Nat, NEW q \in Nat, NEW a \in Int, NEW b \in Int, NEW c \in Int, NEW d \in Int,
         NEW x \in Int, NEW y \in Int, p * a + q * b <= 0,
         c <= a + x, d <= b + y, p * x + q * y <= 0
  PROVE  p * c + q * d <= 0
  <1>1. p * c <= p * (a + x) /\ q * d <= q * (b + y)
    BY SMT
  <1>2. p * (a + x) = p * a + p * x /\ q * (b + y) = q * b + q * y
    BY Distributes
  <1>3. /\ p * a \in Int /\ p * x \in Int /\ q * b \in Int /\ q * y \in Int
        /\ p * c \in Int /\ q * d \in Int
    BY SMT
  <1>. QED BY <1>1, <1>2, <1>3, SMT

LEMMA SharesCover ==
  ASSUME Inv, Inv', OneMarket, NEW price \in Nat, CoveredAt(price),
         NEW x \in Int, NEW y \in Int,
         RwaShare' <= RwaShare + x, NetShare' <= NetShare + y, price * x + unit * y <= 0
  PROVE  CoveredAt(price)'
  <1>1. unit \in Nat /\ unit' = unit
    BY MarketFacts DEF unit
  <1>2. price * RwaShare' + unit * NetShare' <= 0
    BY <1>1, SharesInt, ShareStep DEF CoveredAt
  <1>. QED BY <1>1, <1>2 DEF CoveredAt

(* A request adds to what waits at most what it takes from the balances.   *)
LEMMA RequestSubscriptionMoves ==
  ASSUME Inv, Inv', OneMarket, NEW sender, NEW amount \in DepositAmounts,
         RequestSubscription(sender, amount)
  PROVE  /\ RwaShare' = RwaShare
         /\ NetShare' <= NetShare
         /\ ClosedMarket /\ UnusedIdsAreEmpty => NetShare' = NetShare
  <1>. DEFINE fee   == FeesAt(config.mintFee, amount)
              net   == amount - fee
              id    == subscriptionRequestCounter
              entry == [user |-> sender, amount |-> net, priceId |-> 0]
              from  == To(sender, amount)
              to    == [a \in Accounts |-> FeesTo(fee)[a] + To(AssetRecipient, net)[a]]
  <1>1. /\ MoveUsdc(from, to) /\ sender \in Users
        /\ depositIdToDepositor' = [depositIdToDepositor EXCEPT ![id] = entry]
        /\ UNCHANGED <<usdy, redemptionIdToRedeemer>>
    BY DEF RequestSubscription, WithRequest, redemptionVars, AmountAfterFee
  <1>2. fee \in 0 .. amount /\ amount \in Nat
    BY BoundsAssumption, FeesWithinAmount DEF Inv, SettingsTypeOK, Config
  <1>3. net \in Nat /\ fee \in Nat
    BY <1>2, SMT
  <1>4. entry \in Depositor
    BY <1>1, <1>3, PricerAssumption, SMT DEF Depositor, AnyUser, PriceIds
  <1>5. id \in DepositIds
    BY BoundsAssumption, SMT DEF RequestSubscription, Inv, DepositsInv, DepositsTypeOK, DepositIds
  <1>6. /\ AmountsIn(depositIdToDepositor', DepositIds)
              <= AmountsIn(depositIdToDepositor, DepositIds) + net
        /\ UnusedIdsAreEmpty => AmountsIn(depositIdToDepositor', DepositIds)
                                  = AmountsIn(depositIdToDepositor, DepositIds) + net
    <2>1. depositIdToDepositor \in [DepositIds -> Depositor] /\ entry.amount = net
      BY DEF Inv, DepositsInv, DepositsTypeOK
    <2>2. UnusedIdsAreEmpty => depositIdToDepositor[id].amount = 0
      <3>1. subscriptionRequestCounter \in Nat
        BY SMT DEF Inv, DepositsInv, DepositsTypeOK
      <3>. QED BY <1>5, <3>1, SMT DEF UnusedIdsAreEmpty
    <2>. HIDE DEF entry, id, net
    <2>3. /\ AmountsIn(depositIdToDepositor', DepositIds)
               = AmountsIn(depositIdToDepositor, DepositIds)
                   + (net - depositIdToDepositor[id].amount)
          /\ AmountsIn(depositIdToDepositor, DepositIds) \in Int
          /\ depositIdToDepositor[id].amount \in Nat
      BY <1>1, <1>4, <1>5, <2>1, MarketFacts, EntryReplaced
    <2>. QED BY <1>3, <2>2, <2>3
  <1>7. usdc \in Balances /\ usdc' \in Balances /\ usdc'[AssetRecipient] \in Int
        /\ usdc[AssetRecipient] \in Int
    BY ManagerAssumption, BoundsAssumption DEF Inv, MoneyTypeOK, Balances
  <1>8. \A a \in Accounts : FeesTo(fee)[a] \in Nat
    BY <1>3 DEF FeesTo, To
  <1>9. \A a \in AssetSenders : /\ usdc'[a] >= usdc[a]
                                /\ ClosedMarket => usdc'[a] = usdc[a]
    <2>. SUFFICES ASSUME NEW a \in AssetSenders
                  PROVE  usdc'[a] >= usdc[a] /\ (ClosedMarket => usdc'[a] = usdc[a])
      OBVIOUS
    <2>1. a \in Accounts /\ a # sender /\ usdc[a] \in Int
      BY <1>1, ManagerAssumption, BoundsAssumption DEF Inv, MoneyTypeOK, Balances
    <2>2. from[a] = 0 /\ to[a] \in Nat
      BY <1>3, <1>8, <2>1 DEF To
    <2>3. usdc'[a] = usdc[a] - from[a] + to[a]
      BY <1>1, <2>1 DEF MoveUsdc
    <2>4. ClosedMarket => to[a] = 0
      <3>1. ClosedMarket => a # config.feeRecipient
        BY <2>1, RestrictionsAssumption DEF ClosedMarket, Inv, SettingsTypeOK, Config
      <3>2. a # AssetRecipient
        BY DEF OneMarket
      <3>. QED BY <2>1, <3>1, <3>2 DEF FeesTo, To
    <2>. HIDE DEF from, to
    <2>. QED BY <2>1, <2>2, <2>3, <2>4
  <1>10. /\ usdc'[AssetRecipient] >= usdc[AssetRecipient] + net
         /\ ClosedMarket => usdc'[AssetRecipient] = usdc[AssetRecipient] + net
    <2>1. AssetRecipient \in Accounts /\ AssetRecipient # sender
      BY <1>1, ManagerAssumption
    <2>2. from[AssetRecipient] = 0 /\ to[AssetRecipient] = FeesTo(fee)[AssetRecipient] + net
      BY <2>1 DEF To
    <2>3. usdc'[AssetRecipient] = usdc[AssetRecipient] - from[AssetRecipient] + to[AssetRecipient]
      BY <1>1, <2>1 DEF MoveUsdc
    <2>4. ClosedMarket => FeesTo(fee)[AssetRecipient] = 0
      <3>1. ClosedMarket => AssetRecipient # config.feeRecipient
        BY <2>1, RestrictionsAssumption DEF ClosedMarket, Inv, SettingsTypeOK, Config
      <3>. QED BY <2>1, <3>1 DEF FeesTo, To
    <2>. HIDE DEF from, to, net
    <2>. QED BY <1>3, <1>7, <1>8, <2>1, <2>2, <2>3, <2>4
  <1>11. /\ PaidFrom(usdc') <= PaidFrom(usdc)
         /\ ClosedMarket => PaidFrom(usdc) <= PaidFrom(usdc')
    <2>1. ClosedMarket => \A a \in AssetSenders : usdc[a] >= usdc'[a]
      BY <1>7, <1>9, ManagerAssumption, BoundsAssumption DEF Balances
    <2>. QED BY <1>7, <1>9, <2>1, PaidFromAtMost
  <1>12. /\ AmountsIn(depositIdToDepositor', DepositIds) \in Int
         /\ AmountsIn(depositIdToDepositor, DepositIds) \in Int
         /\ PaidFrom(usdc') \in Int /\ PaidFrom(usdc) \in Int
    BY <1>7, MarketFacts, AmountsInt, PaidFromInt DEF Inv, DepositsInv, DepositsTypeOK
  <1>13. /\ NetShare' <= NetShare
         /\ ClosedMarket /\ UnusedIdsAreEmpty => NetShare' = NetShare
    <2>. HIDE DEF net
    <2>. QED BY <1>3, <1>6, <1>7, <1>10, <1>11, <1>12 DEF NetShare
  <1>14. RwaShare' = RwaShare
    BY <1>1 DEF RwaShare
  <1>. QED BY <1>13, <1>14

(* A redemption moves an amount from what is held to what waits, or away.  *)
LEMMA RequestRedemptionMoves ==
  ASSUME Inv, Inv', OneMarket, NEW sender, NEW amount \in RedemptionAmounts,
         \/ RequestRedemption(sender, amount)
         \/ RequestRedemptionServicedOffchain(sender, amount)
  PROVE  /\ RwaShare' <= RwaShare
         /\ UnusedIdsAreEmpty /\ offChainIds' = {} => RwaShare' = RwaShare
         /\ NetShare' = NetShare
  <1>. DEFINE id    == redemptionRequestCounter
              entry == [user |-> sender, amount |-> amount, priceId |-> 0]
  <1>1. BurnUsdyFrom(sender, amount) /\ sender \in Users /\ id \in RedemptionIds
        /\ UNCHANGED <<usdc, depositIdToDepositor>>
    BY BoundsAssumption, SMT
       DEF RequestRedemption, RequestRedemptionServicedOffchain, depositVars, Inv,
           RedemptionsInv, RedemptionsTypeOK, RedemptionIds
  <1>2. amount \in Nat /\ sender \in Accounts
    BY <1>1, BoundsAssumption, ManagerAssumption
  <1>3. redemptionIdToRedeemer \in [RedemptionIds -> Depositor] /\ entry \in Depositor
    BY <1>1, <1>2, PricerAssumption, SMT
       DEF Inv, RedemptionsInv, RedemptionsTypeOK, Redeemer, Depositor, AnyUser, PriceIds
  <1>4. Sum(usdy', Accounts) = Sum(usdy, Accounts) - amount
    <2>1. /\ usdy' = [usdy EXCEPT ![sender] = @ - amount]
          /\ usdy \in [Accounts -> Int]
      BY <1>1, BoundsAssumption, SMT DEF BurnUsdyFrom, Inv, MoneyTypeOK, Balances
    <2>2. /\ IntOn(usdy, Accounts) /\ IntOn(usdy', Accounts)
          /\ \A a \in Accounts \ {sender} : usdy'[a] = usdy[a]
          /\ usdy'[sender] - usdy[sender] = 0 - amount
      BY <1>2, <2>1 DEF IntOn
    <2>3. Sum(usdy', Accounts) = Sum(usdy, Accounts) + (usdy'[sender] - usdy[sender])
      BY <1>2, <2>2, SumChange DEF OneMarket
    <2>. QED BY <1>2, <2>2, <2>3, SharesInt
  <1>5. /\ AmountsIn(redemptionIdToRedeemer', RedemptionIds)
              <= AmountsIn(redemptionIdToRedeemer, RedemptionIds) + amount
        /\ UnusedIdsAreEmpty /\ offChainIds' = {} =>
             AmountsIn(redemptionIdToRedeemer', RedemptionIds)
               = AmountsIn(redemptionIdToRedeemer, RedemptionIds) + amount
    <2>1. CASE RequestRedemption(sender, amount)
      <3>1. redemptionIdToRedeemer' = [redemptionIdToRedeemer EXCEPT ![id] = entry]
            /\ entry.amount = amount
        BY <2>1 DEF RequestRedemption, WithRequest
      <3>2. UnusedIdsAreEmpty => redemptionIdToRedeemer[id].amount = 0
        <4>1. redemptionRequestCounter \in Nat
          BY SMT DEF Inv, RedemptionsInv, RedemptionsTypeOK
        <4>. QED BY <1>1, <4>1, SMT DEF UnusedIdsAreEmpty
      <3>. HIDE DEF id, entry
      <3>3. /\ AmountsIn(redemptionIdToRedeemer', RedemptionIds)
                 = AmountsIn(redemptionIdToRedeemer, RedemptionIds)
                     + (amount - redemptionIdToRedeemer[id].amount)
            /\ AmountsIn(redemptionIdToRedeemer, RedemptionIds) \in Int
            /\ redemptionIdToRedeemer[id].amount \in Nat
        BY <1>1, <1>3, <3>1, MarketFacts, EntryReplaced
      <3>. QED BY <1>2, <3>2, <3>3
    <2>2. CASE RequestRedemptionServicedOffchain(sender, amount)
      <3>1. redemptionIdToRedeemer' = redemptionIdToRedeemer
        BY <2>2 DEF RequestRedemptionServicedOffchain
      <3>2. AmountsIn(redemptionIdToRedeemer, RedemptionIds) \in Int
        BY <1>3, MarketFacts, AmountsInt
      <3>3. offChainIds' # {}
        BY <2>2 DEF RequestRedemptionServicedOffchain
      <3>. QED BY <1>2, <3>1, <3>2, <3>3
    <2>. QED BY <2>1, <2>2
  <1>6. /\ AmountsIn(redemptionIdToRedeemer, RedemptionIds) \in Int
        /\ AmountsIn(redemptionIdToRedeemer', RedemptionIds) \in Int
    BY MarketFacts, AmountsInt DEF Inv, RedemptionsInv, RedemptionsTypeOK, Redeemer
  <1>7. /\ RwaShare' <= RwaShare
        /\ UnusedIdsAreEmpty /\ offChainIds' = {} => RwaShare' = RwaShare
    BY <1>2, <1>4, <1>5, <1>6, SharesInt DEF RwaShare
  <1>8. NetShare' = NetShare
    BY <1>1 DEF NetShare
  <1>. QED BY <1>7, <1>8

(* The price that a claim reads is the one price there is, or 0.           *)
LEMMA OnePrice ==
  ASSUME OneMarket, PricesSubmitted, NEW price \in Prices \ {0}, NEW priceId \in PriceIds
  PROVE  PriceOf(priceId) \in {0, price} /\ price \in Nat \ {0}
  BY PricerAssumption DEF PriceOf, OneMarket, PricesSubmitted

(* What a claim mints is, at the price, not more than the deposits claimed. *)
LEMMA MintsWithinDeposits ==
  ASSUME Inv, OneMarket, PricesSubmitted, NEW ids \in SUBSET DepositIds, ClaimMint(ids),
         NEW price \in Prices \ {0}
  PROVE  LET owed == [id \in ids |-> UsdyOwed(id)]
         IN  /\ IntOn(owed, ids)
             /\ price * Sum(owed, ids) <= unit * AmountsIn(depositIdToDepositor, ids)
  <1>. DEFINE owed   == [id \in ids |-> UsdyOwed(id)]
              amount == [id \in ids |-> depositIdToDepositor[id].amount]
  <1>1. ASSUME NEW id \in ids
        PROVE  owed[id] \in Nat /\ amount[id] \in Nat /\ price * owed[id] <= unit * amount[id]
    <2>1. depositIdToDepositor[id] \in Depositor
      BY DEF Inv, DepositsInv, DepositsTypeOK
    <2>2. depositIdToDepositor[id].priceId \in PriceIds /\ amount[id] \in Nat
      BY <2>1 DEF Depositor
    <2>3. PriceOf(depositIdToDepositor[id].priceId) = price /\ price \in Nat \ {0}
      BY <2>2, OnePrice DEF ClaimMint
    <2>4. owed[id] = MintAmountForPrice(amount[id], price)
      BY <2>3 DEF UsdyOwed
    <2>. HIDE DEF owed, amount
    <2>5. owed[id] \in Nat /\ owed[id] * price <= amount[id] * decimalsMultiplier * ONE
      BY <2>2, <2>3, <2>4, MintAmountTyped
    <2>6. /\ owed[id] * price = price * owed[id]
          /\ amount[id] * decimalsMultiplier * ONE = unit * amount[id]
      BY <2>2, <2>3, <2>5, HubMathAssumption, SMT DEF unit
    <2>. QED BY <2>2, <2>5, <2>6
  <1>2. IsFiniteSet(ids) /\ price \in Int /\ unit \in Int
    BY MarketFacts, FS_Subset, PricerAssumption DEF OneMarket
  <1>3. IntOn(owed, ids) /\ IntOn(amount, ids)
    <2>. HIDE DEF owed, amount
    <2>. QED BY <1>1 DEF IntOn
  <1>4. price * Sum(owed, ids) <= unit * Sum(amount, ids)
    <2>. HIDE DEF owed, amount
    <2>. QED BY <1>1, <1>2, <1>3, SumScaledAtMost
  <1>. QED BY <1>3, <1>4 DEF AmountsIn

\* A claim of deposits turns their amounts into what it mints.
LEMMA ClaimMintMoves ==
  ASSUME Inv, Inv', OneMarket, PricesSubmitted, NEW ids \in SUBSET DepositIds, ClaimMint(ids),
         NEW price \in Prices \ {0}
  PROVE  LET minted == Sum([id \in ids |-> UsdyOwed(id)], ids)
             spent  == AmountsIn(depositIdToDepositor, ids)
         IN  /\ minted \in Int /\ spent \in Int
             /\ RwaShare' = RwaShare + minted
             /\ NetShare' = NetShare - spent
  <1>. DEFINE owed  == [id \in ids |-> UsdyOwed(id)]
              user  == [id \in ids |-> depositIdToDepositor[id].user]
              minted == Sum(owed, ids)
              spent  == AmountsIn(depositIdToDepositor, ids)
              owedTo == UsdyOwedTo(ids)
  <1>1. /\ usdy' = [a \in Accounts |-> usdy[a] + owedTo[a]]
        /\ depositIdToDepositor' = DeleteEntries(depositIdToDepositor, ids)
        /\ UNCHANGED <<usdc, redemptionIdToRedeemer>>
    BY DEF ClaimMint, MintUsdy, redemptionVars
  <1>2. IsFiniteSet(ids) /\ IsFiniteSet(Accounts) /\ IntOn(owed, ids)
    BY MarketFacts, FS_Subset, MintsWithinDeposits DEF OneMarket
  <1>3. \A id \in ids : user[id] \in Accounts
    <2>1. \A id \in ids : depositIdToDepositor[id] \in Depositor
      BY DEF Inv, DepositsInv, DepositsTypeOK
    <2>. QED BY <2>1, ManagerAssumption DEF ClaimMint, Depositor, AnyUser
  <1>4. Sum(owedTo, Accounts) = minted /\ IntOn(owedTo, Accounts)
    <2>1. \A a \in Accounts : {id \in ids : depositIdToDepositor[id].user = a}
                                = {id \in ids : user[id] = a}
      OBVIOUS
    <2>2. owedTo = [a \in Accounts |-> Sum(owed, {id \in ids : depositIdToDepositor[id].user = a})]
      BY DEF UsdyOwedTo
    <2>. HIDE DEF owed, user, owedTo
    <2>3. owedTo = [a \in Accounts |-> Sum(owed, {id \in ids : user[id] = a})]
      BY <2>1, <2>2
    <2>4. Sum(owedTo, Accounts) = Sum(owed, ids)
      BY <1>2, <1>3, <2>3, SumGathered
    <2>5. \A a \in Accounts : Sum(owed, {id \in ids : user[id] = a}) \in Int
      BY <1>2, SumInt
    <2>. QED BY <2>3, <2>4, <2>5 DEF IntOn
  <1>5. minted \in Int
    <2>. HIDE DEF owed
    <2>. QED BY <1>2, SumInt
  <1>6. Sum(usdy', Accounts) = Sum(usdy, Accounts) + minted
    <2>1. IntOn(usdy, Accounts)
      BY BoundsAssumption DEF IntOn, Inv, MoneyTypeOK, Balances
    <2>2. \A a \in Accounts : usdy'[a] = usdy[a] + owedTo[a]
      BY <1>1
    <2>. HIDE DEF owedTo, minted
    <2>. QED BY <1>2, <1>4, <2>1, <2>2, SumPlus
  <1>7. /\ AmountsIn(depositIdToDepositor', DepositIds)
             = AmountsIn(depositIdToDepositor, DepositIds) - spent
        /\ spent \in Int /\ AmountsIn(depositIdToDepositor, DepositIds) \in Int
    BY <1>1, MarketFacts, EntriesDeleted, AmountsInt DEF Inv, DepositsInv, DepositsTypeOK
  <1>8. RwaShare' = RwaShare + minted
    <2>1. AmountsIn(redemptionIdToRedeemer, RedemptionIds) \in Int
      BY MarketFacts, AmountsInt DEF Inv, RedemptionsInv, RedemptionsTypeOK, Redeemer
    <2>. HIDE DEF minted
    <2>. QED BY <1>1, <1>5, <1>6, <2>1, SharesInt DEF RwaShare
  <1>9. NetShare' = NetShare - spent
    <2>1. PaidFrom(usdc) \in Int /\ usdc[AssetRecipient] \in Int
      BY PaidFromInt, ManagerAssumption, BoundsAssumption DEF Inv, MoneyTypeOK, Balances
    <2>. HIDE DEF spent
    <2>. QED BY <1>1, <1>7, <2>1 DEF NetShare
  <1>. QED BY <1>5, <1>7, <1>8, <1>9

LEMMA ClaimMintCovers ==
  ASSUME Inv, Inv', OneMarket, PricesSubmitted, NEW ids \in SUBSET DepositIds, ClaimMint(ids),
         NEW price \in Prices \ {0}, CoveredAt(price)
  PROVE  CoveredAt(price)'
  <1>. DEFINE minted == Sum([id \in ids |-> UsdyOwed(id)], ids)
              spent  == AmountsIn(depositIdToDepositor, ids)
  <1>1. /\ minted \in Int /\ spent \in Int
        /\ RwaShare' = RwaShare + minted
        /\ NetShare' = NetShare - spent
    BY ClaimMintMoves
  <1>2. price * minted <= unit * spent /\ price \in Nat /\ unit \in Nat
    BY MintsWithinDeposits, MarketFacts, PricerAssumption
  <1>. HIDE DEF minted, spent
  <1>3. RwaShare' <= RwaShare + minted /\ NetShare' <= NetShare + (0 - spent)
    BY <1>1, SharesInt
  <1>4. price * minted + unit * (0 - spent) <= 0
    BY <1>1, <1>2, SMT
  <1>. QED BY <1>1, <1>2, <1>3, <1>4, SharesCover

(* What a claim pays is, at the price, not more than the USDY redeemed.    *)
LEMMA PayoutsWithinRedemptions ==
  ASSUME Inv, OneMarket, PricesSubmitted, NEW ids \in SUBSET RedemptionIds,
         NEW price \in Prices \ {0}
  PROVE  LET due == [id \in ids |-> CollateralDue(id)]
         IN  /\ Sum(due, ids) \in Int
             /\ unit * Sum(due, ids) <= price * AmountsIn(redemptionIdToRedeemer, ids)
  <1>. DEFINE due    == [id \in ids |-> CollateralDue(id)]
              amount == [id \in ids |-> redemptionIdToRedeemer[id].amount]
  <1>1. ASSUME NEW id \in ids
        PROVE  due[id] \in Nat /\ amount[id] \in Nat /\ unit * due[id] <= price * amount[id]
    <2>. DEFINE read == PriceOf(redemptionIdToRedeemer[id].priceId)
    <2>1. redemptionIdToRedeemer[id] \in Depositor
      BY DEF Inv, RedemptionsInv, RedemptionsTypeOK, Redeemer
    <2>2. redemptionIdToRedeemer[id].priceId \in PriceIds /\ amount[id] \in Nat
      BY <2>1 DEF Depositor
    <2>3. read \in {0, price} /\ price \in Nat \ {0}
      BY <2>2, OnePrice
    <2>4. due[id] = RedemptionAmountForRwa(amount[id], read)
      BY DEF CollateralDue
    <2>. HIDE DEF due, amount, read
    <2>5. due[id] \in Nat /\ due[id] * decimalsMultiplier * ONE <= amount[id] * read
      BY <2>2, <2>3, <2>4, RedemptionAmountTyped
    <2>6. /\ due[id] * decimalsMultiplier * ONE = unit * due[id]
          /\ amount[id] * price = price * amount[id] /\ amount[id] * price \in Nat
          /\ amount[id] * 0 = 0 /\ unit * due[id] \in Nat
      BY <2>2, <2>3, <2>5, HubMathAssumption, SMT DEF unit
    <2>7. CASE read = price
      BY <2>2, <2>5, <2>6, <2>7
    <2>8. CASE read = 0
      BY <2>2, <2>5, <2>6, <2>8
    <2>. QED BY <2>3, <2>7, <2>8
  <1>2. IsFiniteSet(ids) /\ price \in Int /\ unit \in Int
    BY MarketFacts, FS_Subset, PricerAssumption
  <1>3. IntOn(due, ids) /\ IntOn(amount, ids)
    <2>. HIDE DEF due, amount
    <2>. QED BY <1>1 DEF IntOn
  <1>4. unit * Sum(due, ids) <= price * Sum(amount, ids) /\ Sum(due, ids) \in Int
    <2>. HIDE DEF due, amount
    <2>. QED BY <1>1, <1>2, <1>3, SumScaledAtMost, SumInt
  <1>. QED BY <1>4 DEF AmountsIn

\* A claim of redemptions turns their amounts into what it pays.
LEMMA ClaimRedemptionMoves ==
  ASSUME Inv, Inv', OneMarket, PricesSubmitted, NEW ids \in SUBSET RedemptionIds,
         ClaimRedemption(ids), NEW price \in Prices \ {0}
  PROVE  LET spent == AmountsIn(redemptionIdToRedeemer, ids)
             total == Sum([id \in ids |-> CollateralDue(id)], ids)
         IN  /\ total \in Int /\ spent \in Int
             /\ RwaShare' = RwaShare - spent
             /\ NetShare' <= NetShare + total
             /\ ClosedMarket => NetShare' = NetShare + total
  <1>. DEFINE fees  == Sum([id \in ids |-> RedemptionFeesOf(id)], ids)
              total == Sum([id \in ids |-> CollateralDue(id)], ids)
              spent == AmountsIn(redemptionIdToRedeemer, ids)
              payer == config.assetSender
              from  == To(payer, total)
              to    == [a \in Accounts |-> CollateralDueTo(ids)[a] + FeesTo(fees)[a]]
  <1>1. /\ MoveUsdc(from, to)
        /\ redemptionIdToRedeemer' = DeleteEntries(redemptionIdToRedeemer, ids)
        /\ UNCHANGED <<usdy, depositIdToDepositor>>
    BY DEF ClaimRedemption, depositVars
  <1>2. payer \in AssetSenders /\ payer # AssetRecipient
    BY DEF ClaimRedemption, Inv, SettingsTypeOK, Config, OneMarket
  <1>3. total \in Int /\ spent \in Int /\ unit * total <= price * spent
    BY PayoutsWithinRedemptions, MarketFacts, AmountsInt
       DEF Inv, RedemptionsInv, RedemptionsTypeOK, Redeemer
  <1>4. fees \in Nat
    <2>. DEFINE feeOf == [id \in ids |-> RedemptionFeesOf(id)]
    <2>1. IsFiniteSet(ids) /\ \A id \in ids : feeOf[id] \in Nat
      <3>1. ASSUME NEW id \in ids PROVE RedemptionFeesOf(id) \in Nat
        <4>1. CollateralDue(id) \in Nat /\ RedemptionFeesOf(id) \in 0 .. CollateralDue(id)
          BY RedemptionsDue
        <4>. QED BY <4>1, SMT
      <3>. QED BY <3>1, RedemptionsDue
    <2>2. Sum(feeOf, ids) \in Nat
      <3>. HIDE DEF feeOf
      <3>. QED BY <2>1, SumNonnegative
    <2>. QED BY <2>2
  <1>5. \A a \in Accounts : to[a] \in Nat
    <2>1. \A a \in Accounts : FeesTo(fees)[a] \in Nat
      <3>. HIDE DEF fees
      <3>. QED BY <1>4 DEF FeesTo, To
    <2>2. \A a \in Accounts : CollateralDueTo(ids)[a] \in Nat
      BY RedemptionsPay
    <2>3. \A a \in Accounts : to[a] = CollateralDueTo(ids)[a] + FeesTo(fees)[a]
      OBVIOUS
    <2>. HIDE DEF to, fees
    <2>. QED BY <2>1, <2>2, <2>3
  <1>6. \A a \in Accounts : usdc'[a] = usdc[a] - from[a] + to[a]
    BY <1>1 DEF MoveUsdc
  <1>7. usdc \in Balances /\ usdc' \in Balances /\ AssetSenders \subseteq Accounts
        /\ AssetRecipient \in Accounts
        /\ \A a \in Accounts : usdc[a] \in Int /\ usdc'[a] \in Int
    BY ManagerAssumption, BoundsAssumption DEF Inv, MoneyTypeOK, Balances
  <1>8. from[payer] = total /\ \A a \in Accounts \ {payer} : from[a] = 0
    BY <1>2, <1>7 DEF To
  <1>16. ASSUME ClosedMarket, NEW a \in AssetSenders \cup {AssetRecipient} PROVE to[a] = 0
    <2>1. a \in Accounts /\ a \notin Users /\ a # config.feeRecipient
      BY <1>7, <1>16, ManagerAssumption, RestrictionsAssumption
         DEF ClosedMarket, Inv, SettingsTypeOK, Config
    <2>2. \A id \in ids : redemptionIdToRedeemer[id].user \in Users
      <3>1. \A id \in ids : redemptionIdToRedeemer[id] \in Depositor
        BY DEF Inv, RedemptionsInv, RedemptionsTypeOK, Redeemer
      <3>. QED BY <3>1 DEF ClaimRedemption, MayBePaid, Depositor, AnyUser
    <2>3. CollateralDueTo(ids)[a] = 0
      BY <2>1, <2>2, RedemptionsPay
    <2>4. FeesTo(fees)[a] = 0
      <3>. HIDE DEF fees
      <3>. QED BY <2>1 DEF FeesTo, To
    <2>5. to[a] = CollateralDueTo(ids)[a] + FeesTo(fees)[a]
      BY <2>1
    <2>. HIDE DEF to, fees
    <2>. QED BY <2>3, <2>4, <2>5
  <1>. HIDE DEF from, to, total, spent, payer
  <1>9. /\ usdc'[payer] >= usdc[payer] - total
        /\ \A a \in Accounts \ {payer} : usdc'[a] >= usdc[a]
    BY <1>2, <1>3, <1>5, <1>6, <1>7, <1>8
  <1>17. ClosedMarket =>
           /\ usdc'[payer] = usdc[payer] - total
           /\ \A a \in AssetSenders \ {payer} : usdc'[a] = usdc[a]
           /\ usdc'[AssetRecipient] = usdc[AssetRecipient]
    BY <1>2, <1>3, <1>6, <1>7, <1>8, <1>16
  <1>10. /\ PaidFrom(usdc') <= PaidFrom(usdc) + total
         /\ ClosedMarket => PaidFrom(usdc') = PaidFrom(usdc) + total
    BY <1>2, <1>3, <1>7, <1>9, <1>17, PaidFromOne
  <1>11. usdc'[AssetRecipient] >= usdc[AssetRecipient]
    BY <1>2, <1>7, <1>9
  <1>12. /\ AmountsIn(redemptionIdToRedeemer', RedemptionIds)
              = AmountsIn(redemptionIdToRedeemer, RedemptionIds) - spent
         /\ AmountsIn(redemptionIdToRedeemer, RedemptionIds) \in Int
    BY <1>1, MarketFacts, EntriesDeleted, AmountsInt
       DEF Inv, RedemptionsInv, RedemptionsTypeOK, Redeemer, spent
  <1>13. RwaShare' = RwaShare - spent
    <2>1. Sum(usdy, Accounts) \in Int
      BY SharesInt
    <2>. QED BY <1>1, <1>3, <1>12, <2>1 DEF RwaShare
  <1>14. /\ NetShare' <= NetShare + total
         /\ ClosedMarket => NetShare' = NetShare + total
    <2>1. /\ PaidFrom(usdc) \in Int /\ PaidFrom(usdc') \in Int
          /\ AmountsIn(depositIdToDepositor, DepositIds) \in Int
      BY <1>7, PaidFromInt, MarketFacts, AmountsInt DEF Inv, DepositsInv, DepositsTypeOK
    <2>. QED BY <1>1, <1>3, <1>7, <1>10, <1>11, <1>17, <2>1 DEF NetShare
  <1>. QED BY <1>3, <1>13, <1>14 DEF total, spent

LEMMA ClaimRedemptionCovers ==
  ASSUME Inv, Inv', OneMarket, PricesSubmitted, NEW ids \in SUBSET RedemptionIds,
         ClaimRedemption(ids), NEW price \in Prices \ {0}, CoveredAt(price)
  PROVE  CoveredAt(price)'
  <1>. DEFINE spent == AmountsIn(redemptionIdToRedeemer, ids)
              total == Sum([id \in ids |-> CollateralDue(id)], ids)
  <1>1. /\ total \in Int /\ spent \in Int
        /\ RwaShare' = RwaShare - spent
        /\ NetShare' <= NetShare + total
    BY ClaimRedemptionMoves
  <1>2. unit * total <= price * spent /\ price \in Nat /\ unit \in Nat
    BY PayoutsWithinRedemptions, MarketFacts, PricerAssumption
  <1>. HIDE DEF total, spent
  <1>3. RwaShare' <= RwaShare + (0 - spent)
    BY <1>1, SharesInt
  <1>4. price * (0 - spent) + unit * total <= 0
    BY <1>1, <1>2, SMT
  <1>. QED BY <1>1, <1>2, <1>3, <1>4, SharesCover

(* Every other step leaves the balances and the amounts as they are.       *)
LEMMA OtherStepsCover ==
  ASSUME Inv, Inv', OneMarket, NEW price \in Nat, CoveredAt(price), UNCHANGED <<usdc, usdy>>,
         \/ UNCHANGED depositIdToDepositor
         \/ \E priceIdOf : depositIdToDepositor' = WithPriceIds(depositIdToDepositor, priceIdOf),
         \/ UNCHANGED redemptionIdToRedeemer
         \/ \E priceIdOf : redemptionIdToRedeemer' = WithPriceIds(redemptionIdToRedeemer, priceIdOf)
  PROVE  CoveredAt(price)'
  <1>1. AmountsIn(depositIdToDepositor', DepositIds) = AmountsIn(depositIdToDepositor, DepositIds)
    BY EntriesPriced DEF Inv, DepositsInv, DepositsTypeOK
  <1>2. AmountsIn(redemptionIdToRedeemer', RedemptionIds)
          = AmountsIn(redemptionIdToRedeemer, RedemptionIds)
    BY EntriesPriced DEF Inv, RedemptionsInv, RedemptionsTypeOK, Redeemer
  <1>3. RwaShare' <= RwaShare + 0
    BY <1>2, SharesInt DEF RwaShare
  <1>4. NetShare' <= NetShare + 0
    BY <1>1, SharesInt DEF NetShare
  <1>5. price * 0 + unit * 0 <= 0
    BY MarketFacts, SMT
  <1>. QED BY <1>3, <1>4, <1>5, SharesCover

LEMMA OtherStepsTouchNoAmount ==
  ASSUME OneMarket, NEW sender \in Operators,
         OperatorNext(sender) \/ OverwriteNext(sender) \/ ConfigureNext(sender)
  PROVE  /\ UNCHANGED <<usdc, usdy, pricerVars>>
         /\ \/ UNCHANGED depositIdToDepositor
            \/ \E priceIdOf : depositIdToDepositor' = WithPriceIds(depositIdToDepositor, priceIdOf)
         /\ \/ UNCHANGED redemptionIdToRedeemer
            \/ \E priceIdOf :
                 redemptionIdToRedeemer' = WithPriceIds(redemptionIdToRedeemer, priceIdOf)
  <1>1. ASSUME NEW priceIdOf, SetPriceIdForDeposits(sender, priceIdOf)
        PROVE  /\ UNCHANGED <<usdc, usdy, pricerVars, redemptionIdToRedeemer>>
               /\ depositIdToDepositor' = WithPriceIds(depositIdToDepositor, priceIdOf)
    BY <1>1 DEF SetPriceIdForDeposits, redemptionVars
  <1>2. ASSUME NEW priceIdOf, SetPriceIdForRedemptions(sender, priceIdOf)
        PROVE  /\ UNCHANGED <<usdc, usdy, pricerVars, depositIdToDepositor>>
               /\ redemptionIdToRedeemer' = WithPriceIds(redemptionIdToRedeemer, priceIdOf)
    BY <1>2 DEF SetPriceIdForRedemptions, depositVars
  <1>3. ASSUME NEW time, NEW ids, SetClaimableTimestamp(sender, time, ids)
        PROVE  UNCHANGED <<usdc, usdy, pricerVars, depositIdToDepositor, redemptionIdToRedeemer>>
    BY <1>3 DEF SetClaimableTimestamp, redemptionVars
  <1>4. ASSUME ConfigureNext(sender)
        PROVE  UNCHANGED <<usdc, usdy, pricerVars, depositIdToDepositor, redemptionIdToRedeemer>>
    BY <1>4 DEF ConfigureNext, Configure, SetMinimumRedemptionAmount, SetMinimumDepositAmount,
                SetOffChainRedemptionMinimum, SetMintFee, SetRedemptionFee, SetPricer,
                SetFeeRecipient, SetAssetSender, SetBlocklist, SetSanctionsList, Pause, Unpause,
                SetPaused, depositVars, redemptionVars
  <1>5. ~OverwriteNext(sender)
    BY DEF OverwriteNext, OneMarket
  <1>6. CASE OperatorNext(sender)
    BY <1>1, <1>2, <1>3, <1>6 DEF OperatorNext, OneMarket
  <1>. QED BY <1>4, <1>5, <1>6

LEMMA NextCovers ==
  ASSUME Inv, Inv', OneMarket, PricesSubmitted, [Next]_vars,
         NEW price \in Prices \ {0}, CoveredAt(price)
  PROVE  CoveredAt(price)'
  <1>0. price \in Nat /\ price * 0 + unit * 0 <= 0
    BY MarketFacts, PricerAssumption, SMT
  <1>1. ASSUME NEW sender \in Users, UserNext(sender) PROVE CoveredAt(price)'
    <2>1. RwaShare' <= RwaShare /\ NetShare' <= NetShare
      BY <1>1, RequestSubscriptionMoves, RequestRedemptionMoves, SharesInt DEF UserNext
    <2>2. RwaShare' <= RwaShare + 0 /\ NetShare' <= NetShare + 0
      BY <2>1, SharesInt
    <2>. QED BY <1>0, <2>2, SharesCover
  <1>2. CASE AnyoneNext
    BY <1>2, ClaimMintCovers, ClaimRedemptionCovers DEF AnyoneNext, Batches
  <1>3. ASSUME NEW sender \in Operators,
               OperatorNext(sender) \/ OverwriteNext(sender) \/ ConfigureNext(sender)
        PROVE  CoveredAt(price)'
    BY <1>0, <1>3, OtherStepsTouchNoAmount, OtherStepsCover
  <1>4. CASE PricerStep \/ RestrictionsStep \/ Tick \/ UNCHANGED vars
    <2>1. UNCHANGED <<usdc, usdy, depositIdToDepositor, redemptionIdToRedeemer>>
      BY <1>4 DEF PricerStep, RestrictionsStep, Tick, vars, managerVars, depositVars,
                  redemptionVars
    <2>. QED BY <1>0, <2>1, OtherStepsCover
  <1>. QED BY <1>1, <1>2, <1>3, <1>4 DEF Next

(* The prices of the table are prices that were submitted.                 *)
LEMMA NextSubmits == Inv /\ PricesSubmitted /\ [Next]_vars => PricesSubmitted'
  <1>. SUFFICES ASSUME Inv, PricesSubmitted, [Next]_vars PROVE PricesSubmitted'
    OBVIOUS
  <1>0. prices \in [PriceIds -> PriceInfo]
    BY DEF Inv, PricerInv, TableInv, PricerTypeOK
  <1>1. CASE PricerStep
    <2>1. ASSUME NEW sender, NEW price \in Prices, NEW timestamp \in Timestamps,
                 AddPrice(sender, price, timestamp)
          PROVE  PricesSubmitted'
      BY <1>0, <2>1 DEF AddPrice, PricesSubmitted, PriceInfo
    <2>2. ASSUME NEW sender, NEW price \in Prices, NEW priceId \in PriceIds,
                 UpdatePrice(sender, priceId, price)
          PROVE  PricesSubmitted'
      BY <1>0, <2>2 DEF UpdatePrice, PricesSubmitted, PriceInfo
    <2>. QED BY <1>1, <2>1, <2>2 DEF PricerStep, PricerNext
  <1>2. CASE UNCHANGED prices
    BY <1>2 DEF PricesSubmitted
  <1>3. ASSUME NEW sender \in Users, UserNext(sender) PROVE UNCHANGED prices
    BY <1>3 DEF UserNext, RequestSubscription, RequestRedemption,
                RequestRedemptionServicedOffchain, pricerVars
  <1>4. CASE AnyoneNext
    BY <1>2, <1>4 DEF AnyoneNext, ClaimMint, ClaimRedemption, pricerVars
  <1>5. ASSUME NEW sender \in Operators,
               OperatorNext(sender) \/ OverwriteNext(sender) \/ ConfigureNext(sender)
        PROVE  UNCHANGED prices
    <2>1. CASE OperatorNext(sender)
      BY <2>1 DEF OperatorNext, AddProof, SetPriceIdForDeposits, SetClaimableTimestamp,
                  SetPriceIdForRedemptions, pricerVars
    <2>2. CASE OverwriteNext(sender)
      BY <2>2 DEF OverwriteNext, OverwriteDepositor, OverwriteRedeemer, pricerVars
    <2>3. CASE ConfigureNext(sender)
      BY <2>3 DEF ConfigureNext, Configure, SetMinimumRedemptionAmount, SetMinimumDepositAmount,
                  SetOffChainRedemptionMinimum, SetMintFee, SetRedemptionFee, SetPricer,
                  SetFeeRecipient, SetAssetSender, SetBlocklist, SetSanctionsList, Pause,
                  Unpause, SetPaused, pricerVars
    <2>. QED BY <1>5, <2>1, <2>2, <2>3
  <1>6. RestrictionsStep \/ Tick \/ UNCHANGED vars => UNCHANGED prices
    BY DEF RestrictionsStep, Tick, vars, pricerVars
  <1>. QED BY <1>1, <1>2, <1>3, <1>4, <1>5, <1>6 DEF Next

CoveredInv == PricesSubmitted /\ \A price \in Prices \ {0} : CoveredAt(price)

LEMMA InitShares ==
  ASSUME OneMarket, Init
  PROVE  /\ RwaShare = 0 /\ NetShare = 0 - usdc[AssetRecipient]
         /\ usdc[AssetRecipient] \in Nat
  <1>2. Sum(usdy, Accounts) = 0
    <2>1. \A a \in Accounts : usdy[a] = 0
      BY DEF Init
    <2>. QED BY <2>1, SumOfZeros DEF OneMarket
  <1>3. AmountsIn(redemptionIdToRedeemer, RedemptionIds) = 0
    <2>. DEFINE f == [id \in RedemptionIds |-> redemptionIdToRedeemer[id].amount]
    <2>1. \A id \in RedemptionIds : f[id] = 0
      BY DEF Init, NoEntry
    <2>2. Sum(f, RedemptionIds) = 0
      <3>. HIDE DEF f
      <3>. QED BY <2>1, MarketFacts, SumOfZeros
    <2>. QED BY <2>2 DEF AmountsIn
  <1>4. AmountsIn(depositIdToDepositor, DepositIds) = 0
    <2>. DEFINE f == [id \in DepositIds |-> depositIdToDepositor[id].amount]
    <2>1. \A id \in DepositIds : f[id] = 0
      BY DEF Init, NoEntry
    <2>2. Sum(f, DepositIds) = 0
      <3>. HIDE DEF f
      <3>. QED BY <2>1, MarketFacts, SumOfZeros
    <2>. QED BY <2>2 DEF AmountsIn
  <1>5. PaidFrom(usdc) = 0
    <2>. DEFINE f == [a \in Accounts |-> InitialUsdc[a] - usdc[a]]
    <2>1. \A a \in AssetSenders : f[a] = 0
      BY ManagerAssumption, BoundsAssumption DEF Init
    <2>2. Sum(f, AssetSenders) = 0
      <3>. HIDE DEF f
      <3>. QED BY <2>1, MarketFacts, SumOfZeros
    <2>. QED BY <2>2 DEF PaidFrom
  <1>6. usdc[AssetRecipient] \in Nat
    BY ManagerAssumption, BoundsAssumption DEF Init
  <1>7. RwaShare = 0 /\ NetShare = 0 - usdc[AssetRecipient]
    BY <1>2, <1>3, <1>4, <1>5, <1>6 DEF RwaShare, NetShare
  <1>. QED BY <1>6, <1>7

LEMMA InitCovers == ASSUME OneMarket, Init PROVE CoveredInv
  <1>1. PricesSubmitted
    BY DEF Init, PricerInit, PricesSubmitted, NoPrice
  <1>2. ASSUME NEW price \in Prices \ {0} PROVE CoveredAt(price)
    BY InitShares, MarketFacts, PricerAssumption, SMT DEF CoveredAt
  <1>. QED BY <1>1, <1>2 DEF CoveredInv

LEMMA AmountsTyped ==
  ASSUME Inv, OneMarket
  PROVE  /\ Sum(usdy, Accounts) \in Int /\ usdc[AssetRecipient] \in Int
         /\ AmountsIn(redemptionIdToRedeemer, RedemptionIds) \in Int
         /\ AmountsIn(depositIdToDepositor, DepositIds) \in Int
         /\ PaidFrom(usdc) \in Int
  <1>1. IntOn(usdy, Accounts)
    BY BoundsAssumption DEF IntOn, Inv, MoneyTypeOK, Balances
  <1>2. Sum(usdy, Accounts) \in Int
    BY <1>1, SumInt DEF OneMarket
  <1>. QED
    BY <1>2, MarketFacts, AmountsInt, PaidFromInt, ManagerAssumption, BoundsAssumption
       DEF Inv, MoneyTypeOK, Balances, DepositsInv, DepositsTypeOK, RedemptionsInv,
           RedemptionsTypeOK, Redeemer

(* The comparison as FundCovered writes it                                 *)
LEMMA CoveredMeans ==
  ASSUME Inv, OneMarket, CoveredInv
  PROVE  FundCovered
  <1>. DEFINE held   == Sum(usdy, Accounts)
              burned == AmountsIn(redemptionIdToRedeemer, RedemptionIds)
              open   == AmountsIn(depositIdToDepositor, DepositIds)
              paid   == PaidFrom(usdc)
              fund   == usdc[AssetRecipient]
  <1>1. held \in Int /\ burned \in Int /\ open \in Int /\ paid \in Int /\ fund \in Int
    BY AmountsTyped
  <1>2. ASSUME NEW price \in Prices \ {0} PROVE UsersShare(price) <= unit * fund
    <2>1. UsersShare(price) = price * (held + burned) + unit * (open + paid)
      BY DEF UsersShare, AmountsIn, PaidFrom
    <2>2. price * (held + burned) + unit * (open + paid - fund) <= 0
      BY DEF CoveredInv, CoveredAt, RwaShare, NetShare
    <2>3. price \in Int /\ unit \in Int
      BY MarketFacts, PricerAssumption
    <2>. HIDE DEF held, burned, open, paid, fund
    <2>4. unit * (open + paid - fund) = unit * (open + paid) - unit * fund
      BY <1>1, <2>3, SMT
    <2>5. /\ price * (held + burned) \in Int /\ unit * (open + paid) \in Int
          /\ unit * fund \in Int
      BY <1>1, <2>3, SMT
    <2>. QED BY <2>1, <2>2, <2>4, <2>5
  <1>. QED BY <1>2 DEF FundCovered

(***************************************************************************)
(* Solvency: for any number of users, requests and claims, in any order    *)
(* and in batches of any size, at any single price and with any fees, the  *)
(* deposits brought in cover all that the users hold, wait for and were    *)
(* paid.                                                                   *)
(***************************************************************************)
THEOREM FundAlwaysCovers == ASSUME OneMarket PROVE Spec => []FundCovered
  <1>1. Init => CoveredInv
    BY InitCovers
  <1>2. Inv /\ Inv' /\ CoveredInv /\ [Next]_vars => CoveredInv'
    BY NextCovers, NextSubmits DEF CoveredInv
  <1>3. Inv /\ CoveredInv => FundCovered
    BY CoveredMeans
  <1>. QED BY <1>1, <1>2, <1>3, AlwaysInv, PTL DEF Spec
-----------------------------------------------------------------------------
(***************************************************************************)
(* The users are covered.  The same comparison from the other side: what a *)
(* claim takes from its user by rounding is counted with the claim.        *)
(***************************************************************************)

\* The claims made so far
Mints   == Sum([id \in DepositIds |-> depositHistory[id].minted], DepositIds)
Payouts == Sum([id \in RedemptionIds |-> redemptionHistory[id].paid], RedemptionIds)

ReturnedAt(price) ==
  0 <= price * RwaShare + unit * NetShare + Mints * (price - 1) + Payouts * (unit - 1)

\* Before there is a price nobody holds or redeems any USDY.
HeldIsPriced == currentPriceId = 0 => /\ \A a \in Accounts : usdy[a] = 0
                                      /\ \A id \in RedemptionIds :
                                           redemptionIdToRedeemer[id].amount = 0

ClosedInv == /\ PricesSubmitted
             /\ UnusedIdsAreEmpty
             /\ HeldIsPriced
             /\ config.pricer # EmptyPricer
             /\ offChainIds = {} => \A price \in Prices \ {0} : ReturnedAt(price)

\* What every step but the requests and the claims leaves alone
QuietStep == /\ UNCHANGED <<usdc, usdy, subscriptionRequestCounter, redemptionRequestCounter,
                            offChainIds>>
             /\ \A id \in DepositIds :
                  /\ depositIdToDepositor'[id].amount = depositIdToDepositor[id].amount
                  /\ depositHistory'[id].minted = depositHistory[id].minted
             /\ \A id \in RedemptionIds :
                  /\ redemptionIdToRedeemer'[id].amount = redemptionIdToRedeemer[id].amount
                  /\ redemptionHistory'[id].paid = redemptionHistory[id].paid
             /\ currentPriceId' = 0 => currentPriceId = 0
             /\ config'.pricer \in {config.pricer} \cup NewPricers

LEMMA HistoriesTyped ==
  Inv => /\ depositIdToDepositor \in [DepositIds -> Depositor]
         /\ redemptionIdToRedeemer \in [RedemptionIds -> Depositor]
         /\ depositHistory \in [DepositIds -> DepositHistory]
         /\ redemptionHistory \in [RedemptionIds -> RedemptionHistory]
         /\ subscriptionRequestCounter \in Nat /\ redemptionRequestCounter \in Nat
         /\ currentPriceId \in Nat /\ config \in Config
  <1>. SUFFICES ASSUME Inv
                PROVE  /\ depositIdToDepositor \in [DepositIds -> Depositor]
                       /\ redemptionIdToRedeemer \in [RedemptionIds -> Depositor]
                       /\ depositHistory \in [DepositIds -> DepositHistory]
                       /\ redemptionHistory \in [RedemptionIds -> RedemptionHistory]
                       /\ subscriptionRequestCounter \in Nat /\ redemptionRequestCounter \in Nat
                       /\ currentPriceId \in Nat /\ config \in Config
    OBVIOUS
  <1>1. /\ depositIdToDepositor \in [DepositIds -> Depositor]
        /\ redemptionIdToRedeemer \in [RedemptionIds -> Depositor]
        /\ depositHistory \in [DepositIds -> DepositHistory]
        /\ redemptionHistory \in [RedemptionIds -> RedemptionHistory]
        /\ config \in Config
    BY DEF Inv, DepositsInv, DepositsTypeOK, RedemptionsInv, RedemptionsTypeOK, Redeemer,
           SettingsTypeOK
  <1>2. subscriptionRequestCounter \in Nat /\ redemptionRequestCounter \in Nat
    BY SMT DEF Inv, DepositsInv, DepositsTypeOK, RedemptionsInv, RedemptionsTypeOK
  <1>3. currentPriceId \in Nat
    BY PricerAssumption, SMT DEF Inv, PricerInv, TableInv, PricerTypeOK, PriceIds
  <1>. QED BY <1>1, <1>2, <1>3

LEMMA OperatorStepsAreQuiet ==
  ASSUME Inv, OneMarket, NEW sender \in Operators,
         OperatorNext(sender) \/ OverwriteNext(sender) \/ ConfigureNext(sender)
  PROVE  QuietStep
  <1>1. ASSUME NEW priceIdOf, SetPriceIdForDeposits(sender, priceIdOf) PROVE QuietStep
    <2>1. /\ UNCHANGED <<usdc, usdy, subscriptionRequestCounter, redemptionVars, pricerVars, config>>
          /\ depositIdToDepositor' = WithPriceIds(depositIdToDepositor, priceIdOf)
          /\ depositHistory' = DepositsPriced(priceIdOf)
      BY <1>1 DEF SetPriceIdForDeposits
    <2>2. \A id \in DepositIds :
            /\ depositIdToDepositor'[id].amount = depositIdToDepositor[id].amount
            /\ depositHistory'[id].minted = depositHistory[id].minted
      BY <2>1, HistoriesTyped DEF WithPriceIds, DepositsPriced, Depositor, DepositHistory
    <2>. QED BY <2>1, <2>2 DEF QuietStep, redemptionVars, pricerVars
  <1>2. ASSUME NEW priceIdOf, SetPriceIdForRedemptions(sender, priceIdOf) PROVE QuietStep
    <2>1. /\ UNCHANGED <<usdc, usdy, depositVars, redemptionRequestCounter, offChainIds,
                         pricerVars, config>>
          /\ redemptionIdToRedeemer' = WithPriceIds(redemptionIdToRedeemer, priceIdOf)
          /\ redemptionHistory' = RedemptionsPriced(priceIdOf)
      BY <1>2 DEF SetPriceIdForRedemptions
    <2>2. \A id \in RedemptionIds :
            /\ redemptionIdToRedeemer'[id].amount = redemptionIdToRedeemer[id].amount
            /\ redemptionHistory'[id].paid = redemptionHistory[id].paid
      BY <2>1, HistoriesTyped DEF WithPriceIds, RedemptionsPriced, Depositor, RedemptionHistory
    <2>. QED BY <2>1, <2>2 DEF QuietStep, depositVars, pricerVars
  <1>3. ASSUME NEW time, NEW ids, SetClaimableTimestamp(sender, time, ids) PROVE QuietStep
    <2>1. /\ UNCHANGED <<usdc, usdy, depositIdToDepositor, subscriptionRequestCounter,
                         redemptionVars, pricerVars, config>>
          /\ \A id \in DepositIds : depositHistory'[id].minted = depositHistory[id].minted
      BY <1>3, HistoriesTyped DEF SetClaimableTimestamp, DepositHistory
    <2>. QED BY <2>1 DEF QuietStep, redemptionVars, pricerVars
  <1>4. CASE ConfigureNext(sender)
    <2>1. /\ UNCHANGED <<usdc, usdy, depositVars, redemptionVars, pricerVars>>
          /\ config'.pricer \in {config.pricer} \cup NewPricers
      BY <1>4, HistoriesTyped
         DEF ConfigureNext, Configure, SetMinimumRedemptionAmount, SetMinimumDepositAmount,
             SetOffChainRedemptionMinimum, SetMintFee, SetRedemptionFee, SetPricer,
             SetFeeRecipient, SetAssetSender, SetBlocklist, SetSanctionsList, Pause, Unpause,
             SetPaused, Config
    <2>. QED BY <2>1 DEF QuietStep, depositVars, redemptionVars, pricerVars
  <1>5. ~OverwriteNext(sender)
    BY DEF OverwriteNext, OneMarket
  <1>6. CASE OperatorNext(sender)
    BY <1>1, <1>2, <1>3, <1>6 DEF OperatorNext, OneMarket
  <1>. QED BY <1>4, <1>5, <1>6

LEMMA OtherStepsAreQuiet ==
  ASSUME Inv, PricerStep \/ RestrictionsStep \/ Tick \/ UNCHANGED vars
  PROVE  QuietStep
  <1>1. /\ UNCHANGED <<usdc, usdy, depositVars, redemptionVars, config>>
        /\ currentPriceId' = currentPriceId \/ PricerStep
    BY DEF PricerStep, RestrictionsStep, Tick, vars, managerVars, pricerVars
  <1>2. PricerStep => currentPriceId' \in {currentPriceId, currentPriceId + 1}
    BY DEF PricerStep, PricerNext, AddPrice, UpdatePrice
  <1>3. currentPriceId' = 0 => currentPriceId = 0
    BY <1>1, <1>2, HistoriesTyped, SMT
  <1>. QED BY <1>1, <1>3 DEF QuietStep, depositVars, redemptionVars

\* Requests and claims are the only steps that are not quiet.
LEMMA MarketSteps ==
  ASSUME Inv, OneMarket, [Next]_vars
  PROVE  \/ \E sender \in Users, amount \in DepositAmounts : RequestSubscription(sender, amount)
         \/ \E sender \in Users, amount \in RedemptionAmounts :
              \/ RequestRedemption(sender, amount)
              \/ RequestRedemptionServicedOffchain(sender, amount)
         \/ \E ids \in Batches(DepositIds) : ClaimMint(ids)
         \/ \E ids \in SUBSET RedemptionIds : ClaimRedemption(ids)
         \/ QuietStep
  <1>1. ASSUME NEW sender \in Users, UserNext(sender)
        PROVE  \/ \E amount \in DepositAmounts : RequestSubscription(sender, amount)
               \/ \E amount \in RedemptionAmounts :
                    \/ RequestRedemption(sender, amount)
                    \/ RequestRedemptionServicedOffchain(sender, amount)
    BY <1>1 DEF UserNext
  <1>2. AnyoneNext => \/ \E ids \in Batches(DepositIds) : ClaimMint(ids)
                      \/ \E ids \in SUBSET RedemptionIds : ClaimRedemption(ids)
    BY DEF AnyoneNext, Batches
  <1>. QED BY <1>1, <1>2, OperatorStepsAreQuiet, OtherStepsAreQuiet DEF Next

LEMMA NextLeavesUnusedEmpty ==
  ASSUME Inv, OneMarket, [Next]_vars, UnusedIdsAreEmpty
  PROVE  UnusedIdsAreEmpty'
  <1>1. /\ depositIdToDepositor \in [DepositIds -> Depositor]
        /\ redemptionIdToRedeemer \in [RedemptionIds -> Depositor]
        /\ subscriptionRequestCounter \in Nat /\ redemptionRequestCounter \in Nat
        /\ \A id \in DepositIds \cup RedemptionIds : id \in Nat
    BY HistoriesTyped, BoundsAssumption, SMT DEF OneMarket, DepositIds, RedemptionIds
  <1>2. ASSUME NEW sender, NEW amount, RequestSubscription(sender, amount)
        PROVE  UnusedIdsAreEmpty'
    <2>1. /\ subscriptionRequestCounter' = subscriptionRequestCounter + 1
          /\ \A id \in DepositIds \ {subscriptionRequestCounter} :
               depositIdToDepositor'[id] = depositIdToDepositor[id]
          /\ UNCHANGED redemptionVars
      BY <1>1, <1>2 DEF RequestSubscription, WithRequest, NextDepositId
    <2>. QED BY <1>1, <2>1, SMT DEF UnusedIdsAreEmpty, redemptionVars
  <1>3. ASSUME NEW sender, NEW amount,
               \/ RequestRedemption(sender, amount)
               \/ RequestRedemptionServicedOffchain(sender, amount)
        PROVE  UnusedIdsAreEmpty'
    <2>1. /\ redemptionRequestCounter' = redemptionRequestCounter + 1
          /\ \A id \in RedemptionIds \ {redemptionRequestCounter} :
               redemptionIdToRedeemer'[id] = redemptionIdToRedeemer[id]
          /\ UNCHANGED depositVars
      BY <1>1, <1>3
         DEF RequestRedemption, RequestRedemptionServicedOffchain, WithRequest, NextRedemptionId
    <2>. QED BY <1>1, <2>1, SMT DEF UnusedIdsAreEmpty, depositVars
  <1>4. ASSUME NEW ids \in Batches(DepositIds), ClaimMint(ids) PROVE UnusedIdsAreEmpty'
    <2>1. /\ depositIdToDepositor' = DeleteEntries(depositIdToDepositor, ids)
          /\ UNCHANGED <<subscriptionRequestCounter, redemptionVars>>
      BY <1>4 DEF ClaimMint
    <2>. QED BY <1>1, <2>1 DEF UnusedIdsAreEmpty, redemptionVars, DeleteEntries, NoEntry
  <1>5. ASSUME NEW ids \in SUBSET RedemptionIds, ClaimRedemption(ids) PROVE UnusedIdsAreEmpty'
    <2>1. /\ redemptionIdToRedeemer' = DeleteEntries(redemptionIdToRedeemer, ids)
          /\ UNCHANGED <<redemptionRequestCounter, depositVars>>
      BY <1>5 DEF ClaimRedemption
    <2>. QED BY <1>1, <2>1 DEF UnusedIdsAreEmpty, depositVars, DeleteEntries, NoEntry
  <1>6. CASE QuietStep
    BY <1>6 DEF QuietStep, UnusedIdsAreEmpty
  <1>. QED BY <1>2, <1>3, <1>4, <1>5, <1>6, MarketSteps

LEMMA NextHoldsPriced ==
  ASSUME Inv, OneMarket, [Next]_vars, HeldIsPriced
  PROVE  HeldIsPriced'
  <1>1. /\ usdy \in [Accounts -> Nat]
        /\ depositIdToDepositor \in [DepositIds -> Depositor]
        /\ redemptionIdToRedeemer \in [RedemptionIds -> Depositor]
    BY HistoriesTyped, BoundsAssumption, SMT DEF Inv, MoneyTypeOK, Balances
  <1>2. ASSUME NEW sender, NEW amount, RequestSubscription(sender, amount) PROVE HeldIsPriced'
    BY <1>2 DEF RequestSubscription, redemptionVars, pricerVars, HeldIsPriced
  <1>3. ASSUME NEW sender \in Users, NEW amount \in RedemptionAmounts,
               \/ RequestRedemption(sender, amount)
               \/ RequestRedemptionServicedOffchain(sender, amount),
               currentPriceId' = 0
        PROVE  /\ \A a \in Accounts : usdy'[a] = 0
               /\ \A id \in RedemptionIds : redemptionIdToRedeemer'[id].amount = 0
    <2>1. /\ currentPriceId = 0 /\ sender \in Accounts /\ amount \in Nat
          /\ BurnUsdyFrom(sender, amount)
          /\ \/ redemptionIdToRedeemer' = redemptionIdToRedeemer
             \/ redemptionIdToRedeemer' = [redemptionIdToRedeemer EXCEPT
                  ![redemptionRequestCounter] = [user |-> sender, amount |-> amount, priceId |-> 0]]
      BY <1>3, ManagerAssumption, BoundsAssumption
         DEF RequestRedemption, RequestRedemptionServicedOffchain, WithRequest, pricerVars
    <2>2. /\ \A a \in Accounts : usdy[a] = 0
          /\ \A id \in RedemptionIds : redemptionIdToRedeemer[id].amount = 0
      BY <2>1 DEF HeldIsPriced
    <2>3. amount = 0
      BY <2>1, <2>2, SMT DEF BurnUsdyFrom
    <2>4. \A a \in Accounts : usdy'[a] = 0
      BY <1>1, <2>1, <2>2, <2>3 DEF BurnUsdyFrom
    <2>5. \A id \in RedemptionIds : redemptionIdToRedeemer'[id].amount = 0
      BY <1>1, <2>1, <2>2, <2>3
    <2>. QED BY <2>4, <2>5
  <1>4. ASSUME NEW ids \in Batches(DepositIds), ClaimMint(ids) PROVE HeldIsPriced'
    <2>1. PICK id \in ids : id \in DepositIds
      BY DEF Batches
    <2>2. depositIdToDepositor[id].priceId \in PriceIds
      BY <1>1, <2>1 DEF Depositor
    <2>3. prices[depositIdToDepositor[id].priceId].price # 0
      BY <1>4, <2>1 DEF ClaimMint, PriceOf
    <2>4. depositIdToDepositor[id].priceId \in 1 .. currentPriceId
      BY <2>2, <2>3 DEF Inv, PricerInv, TableInv, PricedIdsAreIssued
    <2>5. currentPriceId # 0 /\ currentPriceId' = currentPriceId
      BY <1>4, <2>4, HistoriesTyped, SMT DEF ClaimMint, pricerVars
    <2>. QED BY <2>5 DEF HeldIsPriced
  <1>5. ASSUME NEW ids \in SUBSET RedemptionIds, ClaimRedemption(ids) PROVE HeldIsPriced'
    BY <1>1, <1>5 DEF ClaimRedemption, DeleteEntries, NoEntry, pricerVars, HeldIsPriced
  <1>6. CASE QuietStep
    BY <1>6 DEF QuietStep, HeldIsPriced
  <1>7. \/ HeldIsPriced'
        \/ \E sender \in Users, amount \in RedemptionAmounts :
             \/ RequestRedemption(sender, amount)
             \/ RequestRedemptionServicedOffchain(sender, amount)
    BY <1>2, <1>4, <1>5, <1>6, MarketSteps
  <1>. QED BY <1>3, <1>7 DEF HeldIsPriced

LEMMA NextKeepsPricer ==
  ASSUME Inv, ClosedMarket, [Next]_vars, config.pricer # EmptyPricer
  PROVE  config'.pricer # EmptyPricer
  <1>1. CASE QuietStep
    BY <1>1 DEF QuietStep, ClosedMarket
  <1>2. OneMarket
    BY DEF ClosedMarket
  <1>. QED BY <1>1, <1>2, MarketSteps
              DEF RequestSubscription, RequestRedemption, RequestRedemptionServicedOffchain,
                  ClaimMint, ClaimRedemption

(* The counts of claims                                                    *)
LEMMA CountsTyped ==
  ASSUME Inv, OneMarket
  PROVE  /\ IntOn([id \in DepositIds |-> depositHistory[id].minted], DepositIds)
         /\ IntOn([id \in RedemptionIds |-> redemptionHistory[id].paid], RedemptionIds)
         /\ Mints \in Int /\ Payouts \in Int
  <1>. DEFINE minted == [id \in DepositIds |-> depositHistory[id].minted]
              paid   == [id \in RedemptionIds |-> redemptionHistory[id].paid]
  <1>1. IntOn(minted, DepositIds) /\ IntOn(paid, RedemptionIds)
    BY HistoriesTyped DEF IntOn, DepositHistory, RedemptionHistory
  <1>2. Sum(minted, DepositIds) \in Int /\ Sum(paid, RedemptionIds) \in Int
    BY <1>1, MarketFacts, SumInt
  <1>. QED BY <1>1, <1>2 DEF Mints, Payouts

LEMMA MintsKept ==
  ASSUME \A id \in DepositIds : depositHistory'[id].minted = depositHistory[id].minted
  PROVE  Mints' = Mints
  <1>1. [id \in DepositIds |-> depositHistory'[id].minted]
          = [id \in DepositIds |-> depositHistory[id].minted]
    OBVIOUS
  <1>. QED BY <1>1 DEF Mints

LEMMA PayoutsKept ==
  ASSUME \A id \in RedemptionIds : redemptionHistory'[id].paid = redemptionHistory[id].paid
  PROVE  Payouts' = Payouts
  <1>1. [id \in RedemptionIds |-> redemptionHistory'[id].paid]
          = [id \in RedemptionIds |-> redemptionHistory[id].paid]
    OBVIOUS
  <1>. QED BY <1>1 DEF Payouts

LEMMA ClaimsCounted ==
  ASSUME Inv, OneMarket
  PROVE  /\ \A ids \in SUBSET DepositIds :
              ClaimMint(ids) => Mints' = Mints + Count(ids) /\ Payouts' = Payouts
         /\ \A ids \in SUBSET RedemptionIds :
              ClaimRedemption(ids) => Payouts' = Payouts + Count(ids) /\ Mints' = Mints
  <1>1. ASSUME NEW ids \in SUBSET DepositIds, ClaimMint(ids)
        PROVE  Mints' = Mints + Count(ids) /\ Payouts' = Payouts
    <2>. DEFINE f   == [id \in DepositIds |-> depositHistory[id].minted]
                g   == [id \in DepositIds |-> depositHistory'[id].minted]
                one == [id \in ids |-> 1]
    <2>1. /\ UNCHANGED redemptionVars
          /\ depositHistory' = [id \in DepositIds |->
                IF id \in ids THEN [depositHistory[id] EXCEPT !.minted = @ + 1]
                              ELSE depositHistory[id]]
      BY <1>1 DEF ClaimMint
    <2>2. \A id \in DepositIds : g[id] = IF id \in ids THEN f[id] + one[id] ELSE f[id]
      BY <2>1, HistoriesTyped DEF DepositHistory
    <2>3. IntOn(f, DepositIds) /\ IntOn(one, ids)
      BY CountsTyped DEF IntOn
    <2>. HIDE DEF f, g, one
    <2>4. Sum(g, DepositIds) = Sum(f, DepositIds) + Sum(one, ids)
      BY <2>2, <2>3, MarketFacts, SumAdded
    <2>5. Mints' = Mints + Count(ids)
      BY <2>4 DEF f, g, one, Mints, Count
    <2>. QED BY <2>1, <2>5, PayoutsKept DEF redemptionVars
  <1>2. ASSUME NEW ids \in SUBSET RedemptionIds, ClaimRedemption(ids)
        PROVE  Payouts' = Payouts + Count(ids) /\ Mints' = Mints
    <2>. DEFINE f   == [id \in RedemptionIds |-> redemptionHistory[id].paid]
                g   == [id \in RedemptionIds |-> redemptionHistory'[id].paid]
                one == [id \in ids |-> 1]
    <2>1. /\ UNCHANGED depositVars
          /\ redemptionHistory' = [id \in RedemptionIds |->
                IF id \in ids THEN [redemptionHistory[id] EXCEPT !.paid = @ + 1]
                              ELSE redemptionHistory[id]]
      BY <1>2 DEF ClaimRedemption
    <2>2. \A id \in RedemptionIds : g[id] = IF id \in ids THEN f[id] + one[id] ELSE f[id]
      BY <2>1, HistoriesTyped DEF RedemptionHistory
    <2>3. IntOn(f, RedemptionIds) /\ IntOn(one, ids)
      BY CountsTyped DEF IntOn
    <2>. HIDE DEF f, g, one
    <2>4. Sum(g, RedemptionIds) = Sum(f, RedemptionIds) + Sum(one, ids)
      BY <2>2, <2>3, MarketFacts, SumAdded
    <2>5. Payouts' = Payouts + Count(ids)
      BY <2>4 DEF f, g, one, Payouts, Count
    <2>. QED BY <2>1, <2>5, MintsKept DEF depositVars
  <1>. QED BY <1>1, <1>2

(* The changes that keep the comparison                                    *)
LEMMA ReturnStep ==
  ASSUME NEW p \in Int, NEW q \in Int, NEW a \in Int, NEW b \in Int, NEW m \in Int, NEW n \in Int,
         NEW x \in Int, NEW y \in Int, NEW u \in Int, NEW v \in Int,
         0 <= p * a + q * b + m * (p - 1) + n * (q - 1),
         0 <= p * x + q * y + u * (p - 1) + v * (q - 1)
  PROVE  0 <= p * (a + x) + q * (b + y) + (m + u) * (p - 1) + (n + v) * (q - 1)
  <1>1. /\ p * (a + x) = p * a + p * x
        /\ q * (b + y) = q * b + q * y
    BY Distributes
  <1>2. /\ (m + u) * (p - 1) = m * (p - 1) + u * (p - 1)
        /\ (n + v) * (q - 1) = n * (q - 1) + v * (q - 1)
    BY SMT
  <1>3. /\ p * a \in Int /\ p * x \in Int /\ q * b \in Int /\ q * y \in Int
        /\ m * (p - 1) \in Int /\ u * (p - 1) \in Int
        /\ n * (q - 1) \in Int /\ v * (q - 1) \in Int
    BY SMT
  <1>. QED BY <1>1, <1>2, <1>3, SMT

LEMMA SharesReturn ==
  ASSUME Inv, Inv', OneMarket, NEW price \in Nat, ReturnedAt(price),
         NEW x \in Int, NEW y \in Int, NEW u \in Int, NEW v \in Int,
         RwaShare' = RwaShare + x, NetShare' = NetShare + y,
         Mints' = Mints + u, Payouts' = Payouts + v,
         0 <= price * x + unit * y + u * (price - 1) + v * (unit - 1)
  PROVE  ReturnedAt(price)'
  <1>1. unit \in Int /\ unit' = unit /\ price \in Int
    BY MarketFacts DEF unit
  <1>2. RwaShare \in Int /\ NetShare \in Int /\ Mints \in Int /\ Payouts \in Int
    BY SharesInt, CountsTyped
  <1>3. 0 <= price * RwaShare + unit * NetShare + Mints * (price - 1) + Payouts * (unit - 1)
    BY DEF ReturnedAt
  <1>4. 0 <= price * (RwaShare + x) + unit * (NetShare + y)
               + (Mints + u) * (price - 1) + (Payouts + v) * (unit - 1)
    BY <1>1, <1>2, <1>3, ReturnStep
  <1>. QED BY <1>1, <1>4 DEF ReturnedAt

(* A mint falls short of its deposit by less than one unit of RWA.         *)
LEMMA MintsNearDeposits ==
  ASSUME Inv, OneMarket, PricesSubmitted, NEW ids \in SUBSET DepositIds, ClaimMint(ids),
         NEW price \in Prices \ {0}
  PROVE  unit * AmountsIn(depositIdToDepositor, ids)
           <= price * Sum([id \in ids |-> UsdyOwed(id)], ids) + (price - 1) * Count(ids)
  <1>. DEFINE owed   == [id \in ids |-> UsdyOwed(id)]
              amount == [id \in ids |-> depositIdToDepositor[id].amount]
  <1>1. ASSUME NEW id \in ids
        PROVE  owed[id] \in Nat /\ amount[id] \in Nat
               /\ unit * amount[id] <= price * owed[id] + (price - 1)
    <2>1. depositIdToDepositor[id] \in Depositor
      BY HistoriesTyped
    <2>2. depositIdToDepositor[id].priceId \in PriceIds /\ amount[id] \in Nat
      BY <2>1 DEF Depositor
    <2>3. PriceOf(depositIdToDepositor[id].priceId) = price /\ price \in Nat \ {0}
      BY <2>2, OnePrice DEF ClaimMint
    <2>4. owed[id] = MintAmountForPrice(amount[id], price)
      BY <2>3 DEF UsdyOwed
    <2>. HIDE DEF owed, amount
    <2>5. /\ owed[id] \in Nat
          /\ amount[id] * decimalsMultiplier * ONE <= owed[id] * price + (price - 1)
      BY <2>2, <2>3, <2>4, MintAmountTyped, MintAmountNear
    <2>6. /\ owed[id] * price = price * owed[id]
          /\ amount[id] * decimalsMultiplier * ONE = unit * amount[id]
      BY <2>2, <2>3, <2>5, HubMathAssumption, SMT DEF unit
    <2>. QED BY <2>2, <2>5, <2>6
  <1>2. IsFiniteSet(ids) /\ price \in Int /\ unit \in Int /\ price - 1 \in Int
    BY MarketFacts, FS_Subset, PricerAssumption DEF OneMarket
  <1>. HIDE DEF owed, amount
  <1>3. IntOn(owed, ids) /\ IntOn(amount, ids)
    BY <1>1 DEF IntOn
  <1>4. unit * Sum(amount, ids) <= price * Sum(owed, ids) + (price - 1) * Count(ids)
    BY <1>1, <1>2, <1>3, SumNear
  <1>. QED BY <1>4 DEF AmountsIn, owed, amount

(* A payout falls short of its redemption by less than one unit of the     *)
(* collateral, because the price read for it is one that was submitted.    *)
LEMMA PayoutsNearRedemptions ==
  ASSUME Inv, ClosedMarket, PricesSubmitted, HeldIsPriced, config.pricer # EmptyPricer,
         NEW ids \in SUBSET RedemptionIds, ClaimRedemption(ids), NEW price \in Prices \ {0}
  PROVE  price * AmountsIn(redemptionIdToRedeemer, ids)
           <= unit * Sum([id \in ids |-> CollateralDue(id)], ids) + (unit - 1) * Count(ids)
  <1>. DEFINE due    == [id \in ids |-> CollateralDue(id)]
              amount == [id \in ids |-> redemptionIdToRedeemer[id].amount]
  <1>0. OneMarket /\ config.pricer = ThePricer
    BY HistoriesTyped DEF ClosedMarket, ClaimRedemption, HasPricer, Config
  <1>1. ASSUME NEW id \in ids
        PROVE  due[id] \in Nat /\ amount[id] \in Nat
               /\ price * amount[id] <= unit * due[id] + (unit - 1)
    <2>. DEFINE priceId == redemptionIdToRedeemer[id].priceId
                read    == PriceOf(priceId)
    <2>1. redemptionIdToRedeemer[id] \in Depositor
      BY HistoriesTyped
    <2>2. priceId \in PriceIds /\ amount[id] \in Nat
      BY <2>1 DEF Depositor
    <2>3. read \in {0, price} /\ price \in Nat \ {0}
      BY <1>0, <2>2, OnePrice
    <2>4. due[id] = RedemptionAmountForRwa(amount[id], read)
      BY DEF CollateralDue
    <2>5. read # 0 \/ amount[id] = 0
      <3>1. priceId = 1
        BY <2>2, SMT DEF ClaimRedemption, ClosedMarket, PriceIds
      <3>2. CASE currentPriceId = 0
        BY <3>2 DEF HeldIsPriced
      <3>3. CASE currentPriceId # 0
        <4>1. priceId \in 1 .. currentPriceId
          BY <3>1, <3>3, HistoriesTyped, SMT
        <4>. QED BY <1>0, <2>2, <4>1 DEF PriceOf, Inv, PricerInv, TableInv, PricedIdsAreIssued
      <3>. QED BY <3>2, <3>3
    <2>. HIDE DEF due, amount, read
    <2>6. /\ due[id] \in Nat
          /\ amount[id] * read <= due[id] * decimalsMultiplier * ONE
                                    + (ONE * decimalsMultiplier - 1)
      BY <2>2, <2>3, <2>4, RedemptionAmountTyped, RedemptionAmountNear
    <2>7. /\ due[id] * decimalsMultiplier * ONE = unit * due[id] /\ unit * due[id] \in Nat
          /\ amount[id] * price = price * amount[id] /\ 0 * price = 0
          /\ ONE * decimalsMultiplier = unit /\ unit \in Nat \ {0}
      BY <2>2, <2>3, <2>6, HubMathAssumption, SMT DEF unit
    <2>8. CASE read = price
      BY <2>2, <2>6, <2>7, <2>8
    <2>9. CASE amount[id] = 0
      BY <2>3, <2>6, <2>7, <2>9
    <2>. QED BY <2>3, <2>5, <2>8, <2>9
  <1>2. IsFiniteSet(ids) /\ price \in Int /\ unit \in Int /\ unit - 1 \in Int
    BY <1>0, MarketFacts, FS_Subset, PricerAssumption
  <1>. HIDE DEF due, amount
  <1>3. IntOn(due, ids) /\ IntOn(amount, ids)
    BY <1>1 DEF IntOn
  <1>4. price * Sum(amount, ids) <= unit * Sum(due, ids) + (unit - 1) * Count(ids)
    BY <1>1, <1>2, <1>3, SumNear
  <1>. QED BY <1>4 DEF AmountsIn, due, amount

LEMMA NextReturns ==
  ASSUME Inv, Inv', ClosedMarket, [Next]_vars, ClosedInv, offChainIds' = {},
         NEW price \in Prices \ {0}
  PROVE  ReturnedAt(price)'
  <1>0. /\ OneMarket /\ PricesSubmitted /\ UnusedIdsAreEmpty /\ HeldIsPriced
        /\ config.pricer # EmptyPricer
        /\ price \in Int /\ price \in Nat /\ unit \in Int
    BY MarketFacts, PricerAssumption DEF ClosedMarket, ClosedInv
  <1>1. RwaShare \in Int /\ NetShare \in Int /\ Mints \in Int /\ Payouts \in Int
    BY <1>0, SharesInt, CountsTyped
  <1>2. 0 <= price * 0 + unit * 0 + 0 * (price - 1) + 0 * (unit - 1)
    BY <1>0, SMT
  <1>3. offChainIds = {} => ReturnedAt(price)
    BY DEF ClosedInv
  <1>4. ASSUME offChainIds = {}, RwaShare' = RwaShare, NetShare' = NetShare,
               Mints' = Mints, Payouts' = Payouts
        PROVE  ReturnedAt(price)'
    <2>1. /\ RwaShare' = RwaShare + 0 /\ NetShare' = NetShare + 0
          /\ Mints' = Mints + 0 /\ Payouts' = Payouts + 0
      BY <1>1, <1>4
    <2>. QED BY <1>0, <1>2, <1>3, <1>4, <2>1, SharesReturn
  <1>5. ASSUME NEW sender, NEW amount \in DepositAmounts, RequestSubscription(sender, amount)
        PROVE  ReturnedAt(price)'
    <2>1. RwaShare' = RwaShare /\ NetShare' = NetShare
      BY <1>0, <1>5, RequestSubscriptionMoves
    <2>2. /\ \A id \in DepositIds : depositHistory'[id].minted = depositHistory[id].minted
          /\ UNCHANGED redemptionVars
      BY <1>5, HistoriesTyped DEF RequestSubscription, Opens, DepositHistory
    <2>. QED BY <1>4, <2>1, <2>2, MintsKept, PayoutsKept DEF redemptionVars
  <1>6. ASSUME NEW sender, NEW amount \in RedemptionAmounts,
               \/ RequestRedemption(sender, amount)
               \/ RequestRedemptionServicedOffchain(sender, amount)
        PROVE  ReturnedAt(price)'
    <2>1. RwaShare' = RwaShare /\ NetShare' = NetShare
      BY <1>0, <1>6, RequestRedemptionMoves
    <2>2. RequestRedemption(sender, amount)
      BY <1>6 DEF RequestRedemptionServicedOffchain
    <2>3. /\ \A id \in RedemptionIds : redemptionHistory'[id].paid = redemptionHistory[id].paid
          /\ UNCHANGED <<depositVars, offChainIds>>
      BY <2>2, HistoriesTyped DEF RequestRedemption, RedemptionHistory
    <2>. QED BY <1>4, <2>1, <2>3, MintsKept, PayoutsKept DEF depositVars
  <1>7. ASSUME NEW ids \in SUBSET DepositIds, ClaimMint(ids) PROVE ReturnedAt(price)'
    <2>. DEFINE minted == Sum([id \in ids |-> UsdyOwed(id)], ids)
                spent  == AmountsIn(depositIdToDepositor, ids)
    <2>1. /\ minted \in Int /\ spent \in Int
          /\ RwaShare' = RwaShare + minted /\ NetShare' = NetShare - spent
          /\ unit * spent <= price * minted + (price - 1) * Count(ids)
      BY <1>0, <1>7, ClaimMintMoves, MintsNearDeposits
    <2>2. Mints' = Mints + Count(ids) /\ Payouts' = Payouts
      BY <1>0, <1>7, ClaimsCounted
    <2>3. UNCHANGED offChainIds
      BY <1>7 DEF ClaimMint, redemptionVars
    <2>4. Count(ids) \in Int
      BY <1>0, MarketFacts, FS_Subset, CountTyped
    <2>. HIDE DEF minted, spent
    <2>5. /\ NetShare' = NetShare + (0 - spent) /\ Payouts' = Payouts + 0
          /\ 0 - spent \in Int
      BY <1>1, <2>1, <2>2
    <2>6. 0 <= price * minted + unit * (0 - spent) + Count(ids) * (price - 1) + 0 * (unit - 1)
      BY <1>0, <2>1, <2>4, SMT
    <2>. QED BY <1>0, <1>3, <2>1, <2>2, <2>3, <2>4, <2>5, <2>6, SharesReturn
  <1>8. ASSUME NEW ids \in SUBSET RedemptionIds, ClaimRedemption(ids) PROVE ReturnedAt(price)'
    <2>. DEFINE spent == AmountsIn(redemptionIdToRedeemer, ids)
                total == Sum([id \in ids |-> CollateralDue(id)], ids)
    <2>1. /\ total \in Int /\ spent \in Int
          /\ RwaShare' = RwaShare - spent /\ NetShare' = NetShare + total
          /\ price * spent <= unit * total + (unit - 1) * Count(ids)
      BY <1>0, <1>8, ClaimRedemptionMoves, PayoutsNearRedemptions
    <2>2. Payouts' = Payouts + Count(ids) /\ Mints' = Mints
      BY <1>0, <1>8, ClaimsCounted
    <2>3. UNCHANGED offChainIds
      BY <1>8 DEF ClaimRedemption
    <2>4. Count(ids) \in Int
      BY <1>0, MarketFacts, FS_Subset, CountTyped
    <2>. HIDE DEF total, spent
    <2>5. /\ RwaShare' = RwaShare + (0 - spent) /\ Mints' = Mints + 0
          /\ 0 - spent \in Int
      BY <1>1, <2>1, <2>2
    <2>6. 0 <= price * (0 - spent) + unit * total + 0 * (price - 1) + Count(ids) * (unit - 1)
      BY <1>0, <2>1, <2>4, SMT
    <2>. QED BY <1>0, <1>3, <2>1, <2>2, <2>3, <2>4, <2>5, <2>6, SharesReturn
  <1>9. CASE QuietStep
    <2>1. /\ UNCHANGED <<usdc, usdy, offChainIds>>
          /\ [id \in DepositIds |-> depositIdToDepositor'[id].amount]
               = [id \in DepositIds |-> depositIdToDepositor[id].amount]
          /\ [id \in RedemptionIds |-> redemptionIdToRedeemer'[id].amount]
               = [id \in RedemptionIds |-> redemptionIdToRedeemer[id].amount]
      BY <1>9 DEF QuietStep
    <2>2. RwaShare' = RwaShare /\ NetShare' = NetShare
      BY <2>1 DEF RwaShare, NetShare, AmountsIn
    <2>3. Mints' = Mints /\ Payouts' = Payouts
      BY <1>9, MintsKept, PayoutsKept DEF QuietStep
    <2>. QED BY <1>4, <2>1, <2>2, <2>3
  <1>. QED BY <1>0, <1>5, <1>6, <1>7, <1>8, <1>9, MarketSteps DEF Batches

LEMMA NextCloses ==
  ASSUME Inv, Inv', ClosedMarket, [Next]_vars, ClosedInv
  PROVE  ClosedInv'
  <1>1. OneMarket /\ PricesSubmitted' /\ UnusedIdsAreEmpty' /\ HeldIsPriced'
        /\ config'.pricer # EmptyPricer
    BY NextSubmits, NextLeavesUnusedEmpty, NextHoldsPriced, NextKeepsPricer
       DEF ClosedMarket, ClosedInv
  <1>. QED BY <1>1, NextReturns DEF ClosedInv

LEMMA InitCloses == ASSUME ClosedMarket, Init PROVE ClosedInv
  <1>1. OneMarket /\ PricesSubmitted /\ Inv
    BY InitCovers, InitInv DEF ClosedMarket, CoveredInv
  <1>2. UnusedIdsAreEmpty /\ HeldIsPriced
    BY DEF Init, NoEntry, UnusedIdsAreEmpty, HeldIsPriced
  <1>3. config.pricer # EmptyPricer
    BY ManagerAssumption DEF Init
  <1>4. RwaShare = 0 /\ NetShare = 0
    <2>1. RwaShare = 0 /\ NetShare = 0 - usdc[AssetRecipient]
      BY <1>1, InitShares
    <2>. QED BY <2>1 DEF Init, ClosedMarket
  <1>5. Mints = 0 /\ Payouts = 0
    <2>. DEFINE minted == [id \in DepositIds |-> depositHistory[id].minted]
                paid   == [id \in RedemptionIds |-> redemptionHistory[id].paid]
    <2>1. (\A id \in DepositIds : minted[id] = 0) /\ (\A id \in RedemptionIds : paid[id] = 0)
      BY DEF Init
    <2>2. Sum(minted, DepositIds) = 0 /\ Sum(paid, RedemptionIds) = 0
      <3>. HIDE DEF minted, paid
      <3>. QED BY <1>1, <2>1, MarketFacts, SumOfZeros
    <2>. QED BY <2>2 DEF Mints, Payouts
  <1>6. ASSUME NEW price \in Prices \ {0} PROVE ReturnedAt(price)
    <2>1. price \in Nat /\ unit \in Nat
      BY <1>1, MarketFacts, PricerAssumption
    <2>. QED BY <1>4, <1>5, <2>1, SMT DEF ReturnedAt
  <1>. QED BY <1>1, <1>2, <1>3, <1>6 DEF ClosedInv

(* The comparison as UsersCovered writes it                                *)
LEMMA ReturnedMeans ==
  ASSUME Inv, ClosedMarket, ClosedInv
  PROVE  UsersCovered
  <1>. DEFINE held   == Sum(usdy, Accounts)
              burned == AmountsIn(redemptionIdToRedeemer, RedemptionIds)
              open   == AmountsIn(depositIdToDepositor, DepositIds)
              paid   == PaidFrom(usdc)
              fund   == usdc[AssetRecipient]
  <1>0. OneMarket
    BY DEF ClosedMarket
  <1>1. held \in Int /\ burned \in Int /\ open \in Int /\ paid \in Int /\ fund \in Int
        /\ Mints \in Int /\ Payouts \in Int
    BY <1>0, AmountsTyped, CountsTyped
  <1>2. ASSUME offChainIds = {}, NEW price \in Prices \ {0}
        PROVE  unit * fund <= UsersShare(price) + Mints * (price - 1) + Payouts * (unit - 1)
    <2>1. UsersShare(price) = price * (held + burned) + unit * (open + paid)
      BY DEF UsersShare, AmountsIn, PaidFrom
    <2>2. 0 <= price * (held + burned) + unit * (open + paid - fund)
                 + Mints * (price - 1) + Payouts * (unit - 1)
      BY <1>2 DEF ClosedInv, ReturnedAt, RwaShare, NetShare
    <2>3. price \in Int /\ unit \in Int
      BY <1>0, MarketFacts, PricerAssumption
    <2>. HIDE DEF held, burned, open, paid, fund
    <2>4. unit * (open + paid - fund) = unit * (open + paid) - unit * fund
      BY <1>1, <2>3, SMT
    <2>5. /\ price * (held + burned) \in Int /\ unit * (open + paid) \in Int
          /\ unit * fund \in Int /\ Mints * (price - 1) \in Int /\ Payouts * (unit - 1) \in Int
      BY <1>1, <2>3, SMT
    <2>. QED BY <2>1, <2>2, <2>4, <2>5
  <1>. QED BY <1>2 DEF UsersCovered, Mints, Payouts

(***************************************************************************)
(* And the reverse: in the same markets, as long as no fee comes back to   *)
(* the fund and nothing is redeemed off chain, all that the deposits       *)
(* brought in is owed or was paid to the users, but for less than one unit *)
(* of RWA for each mint and one of collateral for each payout.  No request *)
(* is lost and no fee is taken twice, in any order and batch of claims.    *)
(***************************************************************************)
THEOREM UsersAlwaysCovered == ASSUME ClosedMarket PROVE Spec => []UsersCovered
  <1>1. Init => ClosedInv
    BY InitCloses
  <1>2. Inv /\ Inv' /\ ClosedInv /\ [Next]_vars => ClosedInv'
    BY NextCloses
  <1>3. Inv /\ ClosedInv => UsersCovered
    BY ReturnedMeans
  <1>. QED BY <1>1, <1>2, <1>3, AlwaysInv, PTL DEF Spec
==============================================================================
