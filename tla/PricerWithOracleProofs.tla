------------------------ MODULE PricerWithOracleProofs ------------------------
(* Theorems about PricerWithOracle, for any number of prices, every window *)
(* and any oracle that keeps the promises of RWAOracle.                    *)
EXTENDS PricerWithOracle, PricerProofs

OracleInv == OracleTypeOK /\ TableInv

LEMMA OracleNextTyped == OracleTypeOK /\ [OracleNext]_oracleVars => OracleTypeOK'
  <1>. SUFFICES ASSUME OracleTypeOK, [OracleNext]_oracleVars PROVE OracleTypeOK'
    OBVIOUS
  <1>1. ASSUME NEW setter \in Setters, NEW newPrice \in OraclePrices,
               SetOraclePrice(setter, newPrice)
        PROVE  OracleTypeOK'
    BY <1>1, RWAOracleAssumption, SMT DEF SetOraclePrice, ValidOraclePrice, OracleTypeOK
  <1>2. CASE OracleTick
    BY <1>2, RWAOracleAssumption, SMT DEF OracleTick, OracleTypeOK
  <1>3. CASE UNCHANGED oracleVars
    BY <1>3 DEF oracleVars, OracleTypeOK
  <1>. QED BY <1>1, <1>2, <1>3 DEF OracleNext

LEMMA TableKept == TableInv /\ UNCHANGED pricerVars => TableInv'
  BY DEF TableInv, pricerVars, PricerTypeOK, PricedIdsAreIssued, NoPrice

(* What the oracle holds can be recorded: a price and a time of the table. *)
LEMMA OraclePriceFits ==
  ASSUME OracleTypeOK
  PROVE  rwaPrice \in Prices \ {0} /\ priceTimestamp \in Timestamps /\ priceTimestamp \in Nat
  BY PricerWithOracleAssumption, RWAOracleAssumption, SMT DEF OracleTypeOK

LEMMA InitInv == Init => OracleInv
  <1>. SUFFICES ASSUME Init PROVE OracleInv
    OBVIOUS
  <1>1. OracleTypeOK
    BY DEF Init, OracleInit
  <1>2. rwaPrice \in Nat /\ rwaPrice # 0 /\ priceTimestamp \in Nat
    BY <1>1, RWAOracleAssumption DEF OracleTypeOK
  <1>3. 0 \in PriceIds /\ 1 \in PriceIds /\ \A id \in PriceIds : id \in Nat
    BY PricerAssumption, PricerWithOracleAssumption, SMT DEF PriceIds
  <1>4. PricerTypeOK
    BY <1>2, <1>3, SMT DEF Init, PricerTypeOK, PriceInfo, NoPrice
  <1>5. PricedIdsAreIssued /\ prices[0] = NoPrice
    BY <1>2, <1>3, SMT DEF Init, PricedIdsAreIssued, NoPrice
  <1>6. latestPriceId <= currentPriceId
    BY SMT DEF Init
  <1>. QED BY <1>1, <1>4, <1>5, <1>6 DEF OracleInv, TableInv

-----------------------------------------------------------------------------
(* One lemma per action.                                                   *)
LEMMA AddPriceToBothInv ==
  ASSUME OracleInv, NEW sender \in PriceUpdaters, NEW price \in Prices,
         NEW timestamp \in Timestamps, AddPriceToBoth(sender, price, timestamp)
  PROVE  OracleInv'
  <1>1. TableInv'
    BY AddPriceTable DEF AddPriceToBoth, OracleInv
  <1>2. IsNewer(timestamp) => SetOraclePrice(ThisPricer, price) /\ ThisPricer \in Setters
    BY DEF AddPriceToBoth, UpdateOraclePrice, SetOraclePrice
  <1>3. [OracleNext]_oracleVars
    BY <1>2, PricerWithOracleAssumption DEF AddPriceToBoth, OracleNext
  <1>. QED BY <1>1, <1>3, OracleNextTyped DEF OracleInv

LEMMA AddLatestGains ==
  ASSUME OracleTypeOK, NEW sender, AddLatestOraclePrice(sender)
  PROVE  LET entry == [price |-> rwaPrice, timestamp |-> priceTimestamp]
         IN  entry \in PriceInfo /\ entry.price # 0 /\ Gains(entry)
  BY OraclePriceFits, PricerAssumption
     DEF AddLatestOraclePrice, OracleTimestamp, Gains, PriceInfo

LEMMA AddLatestOraclePriceInv ==
  ASSUME OracleInv, NEW sender, AddLatestOraclePrice(sender)
  PROVE  OracleInv'
  <1>1. TableInv'
    BY AddLatestGains, EntryTable DEF OracleInv
  <1>2. OracleTypeOK'
    BY OracleNextTyped DEF AddLatestOraclePrice, OracleInv
  <1>. QED BY <1>1, <1>2 DEF OracleInv

LEMMA NextInv == OracleInv /\ [Next]_vars => OracleInv'
  <1>. SUFFICES ASSUME OracleInv, [Next]_vars PROVE OracleInv'
    OBVIOUS
  <1>1. ASSUME NEW sender \in PriceUpdaters, NEW priceId \in PriceIds, NEW price \in Prices,
               UpdatePrice(sender, priceId, price), UNCHANGED oracleVars
        PROVE  OracleInv'
    BY <1>1, UpdatePriceTable, OracleNextTyped DEF OracleInv
  <1>2. CASE OracleNext /\ UNCHANGED pricerVars
    BY <1>2, OracleNextTyped, TableKept DEF OracleInv
  <1>3. CASE UNCHANGED vars
    BY <1>3, OracleNextTyped, TableKept DEF OracleInv, vars
  <1>. QED BY <1>1, <1>2, <1>3, AddPriceToBothInv, AddLatestOraclePriceInv DEF Next

LEMMA AlwaysOracleInv == Spec => []OracleInv
  BY InitInv, NextInv, PTL DEF Spec

(* The table and the oracle keep their types; prices stay positive.        *)
THEOREM PricerWithOracleTyped == Spec => []TypeOK
  <1>1. OracleInv => TypeOK
    BY DEF OracleInv, TypeOK, TableInv
  <1>. QED BY <1>1, AlwaysOracleInv, PTL

(* Exactly the issued ids carry a price, also of those the oracle supplied.*)
THEOREM OracleIdsIssued == Spec => []PricedIdsAreIssued
  <1>1. OracleInv => PricedIdsAreIssued
    BY DEF OracleInv, TableInv
  <1>. QED BY <1>1, AlwaysOracleInv, PTL

-----------------------------------------------------------------------------
(***************************************************************************)
(* A new latest price of the pricer is the oracle's price.                 *)
(***************************************************************************)
THEOREM LatestIsTheOracles == Spec => NewLatestIsOraclePrice
  <1>. DEFINE Same == latestPriceId' # latestPriceId => prices'[latestPriceId'].price = rwaPrice'
  <1>1. ASSUME OracleInv, NEW sender, NEW price \in Prices, NEW timestamp,
               AddPriceToBoth(sender, price, timestamp)
        PROVE  Same
    <2>1. currentPriceId + 1 \in PriceIds /\ prices \in [PriceIds -> PriceInfo]
      BY <1>1, PricerAssumption, SMT
         DEF AddPriceToBoth, AddPrice, OracleInv, TableInv, PricerTypeOK, PriceIds
    <2>2. CASE IsNewer(timestamp)
      <3>1. latestPriceId' = currentPriceId + 1 /\ rwaPrice' = price
        BY <1>1, <2>2 DEF AddPriceToBoth, AddPrice, UpdateOraclePrice, SetOraclePrice
      <3>2. prices'[currentPriceId + 1].price = price
        BY <1>1, <2>1 DEF AddPriceToBoth, AddPrice
      <3>. QED BY <3>1, <3>2
    <2>3. CASE ~IsNewer(timestamp)
      BY <1>1, <2>3 DEF AddPriceToBoth, AddPrice
    <2>. QED BY <2>2, <2>3
  <1>2. ASSUME OracleInv, NEW sender, AddLatestOraclePrice(sender)
        PROVE  Same
    <2>1. currentPriceId + 1 \in PriceIds /\ prices \in [PriceIds -> PriceInfo]
      BY <1>2, PricerAssumption, SMT
         DEF AddLatestOraclePrice, OracleInv, TableInv, PricerTypeOK, PriceIds
    <2>. QED BY <1>2, <2>1 DEF AddLatestOraclePrice, oracleVars
  <1>3. OracleInv /\ [Next]_vars => [Same]_vars
    BY <1>1, <1>2 DEF Next, UpdatePrice, pricerVars
  <1>. QED BY <1>3, AlwaysOracleInv, PTL DEF Spec, NewLatestIsOraclePrice

(***************************************************************************)
(* An oracle that disagrees with the pricer is never overwritten by it.    *)
(***************************************************************************)
THEOREM DisagreementStops == Spec => DisagreementStopsThePricer
  <1>. DEFINE Stops == prices[latestPriceId].price # rwaPrice /\ rwaPrice' # rwaPrice
                         => UNCHANGED pricerVars
  <1>1. ASSUME NEW sender, NEW price, NEW timestamp, AddPriceToBoth(sender, price, timestamp)
        PROVE  Stops
    BY <1>1 DEF AddPriceToBoth, UpdateOraclePrice, PricesMatch, oracleVars
  <1>2. [Next]_vars => [Stops]_vars
    BY <1>1 DEF Next, AddLatestOraclePrice, oracleVars
  <1>. QED BY <1>2, PTL DEF Spec, DisagreementStopsThePricer

-----------------------------------------------------------------------------
(* With timestamps of the past only, the latest price is never ahead of    *)
(* the oracle's, which is stamped with the present.                        *)
PunctualInv == OracleInv /\ LatestNotAheadOfOracle

LEMMA PunctualInitInv == Init => PunctualInv
  <1>. SUFFICES ASSUME Init PROVE PunctualInv
    OBVIOUS
  <1>1. OracleInv /\ priceTimestamp \in Nat
    BY InitInv, OraclePriceFits DEF OracleInv
  <1>2. 1 \in PriceIds
    BY PricerAssumption, PricerWithOracleAssumption, SMT DEF PriceIds
  <1>3. prices[latestPriceId].timestamp = priceTimestamp
    BY <1>2 DEF Init
  <1>. QED BY <1>1, <1>3, SMT DEF PunctualInv, LatestNotAheadOfOracle

LEMMA PunctualNextInv ==
  PunctualInv /\ [Next /\ TimestampsArePast]_vars => PunctualInv'
  <1>. SUFFICES ASSUME PunctualInv, [Next /\ TimestampsArePast]_vars
                PROVE  LatestNotAheadOfOracle'
    BY NextInv DEF PunctualInv
  <1>. USE DEF LatestNotAheadOfOracle
  <1>1. /\ currentPriceId \in PriceIds /\ latestPriceId \in PriceIds
        /\ prices \in [PriceIds -> PriceInfo]
        /\ prices[latestPriceId].timestamp \in Nat
        /\ priceTimestamp \in Nat /\ oracleNow \in Nat /\ priceTimestamp <= oracleNow
        /\ prices[latestPriceId].timestamp <= priceTimestamp
        /\ \A id \in PriceIds : id \in Nat
    BY RWAOracleAssumption, PricerAssumption, SMT
       DEF PunctualInv, OracleInv, TableInv, PricerTypeOK, PriceInfo, OracleTypeOK, PriceIds
  <1>2. ASSUME NEW sender \in PriceUpdaters, NEW price \in Prices, NEW timestamp \in Timestamps,
               AddPriceToBoth(sender, price, timestamp), TimestampsArePast
        PROVE  LatestNotAheadOfOracle'
    <2>1. /\ currentPriceId + 1 \in PriceIds /\ currentPriceId' = currentPriceId + 1
          /\ prices'[currentPriceId + 1].timestamp = timestamp
      BY <1>1, <1>2, PricerAssumption, SMT DEF AddPriceToBoth, AddPrice, PriceIds
    <2>2. timestamp <= oracleNow
      BY <1>1, <1>2, <2>1 DEF TimestampsArePast
    <2>3. CASE IsNewer(timestamp)
      <3>1. latestPriceId' = currentPriceId + 1 /\ priceTimestamp' = oracleNow
        BY <1>2, <2>3 DEF AddPriceToBoth, AddPrice, UpdateOraclePrice, SetOraclePrice
      <3>. QED BY <2>1, <2>2, <3>1
    <2>4. CASE ~IsNewer(timestamp)
      <3>1. latestPriceId' = latestPriceId /\ priceTimestamp' = priceTimestamp
        BY <1>2, <2>4 DEF AddPriceToBoth, AddPrice, oracleVars
      <3>2. latestPriceId # currentPriceId + 1
        BY <1>1, SMT DEF PunctualInv, OracleInv, TableInv
      <3>3. prices'[latestPriceId] = prices[latestPriceId]
        BY <1>1, <1>2, <3>2 DEF AddPriceToBoth, AddPrice
      <3>. QED BY <1>1, <3>1, <3>3
    <2>. QED BY <2>3, <2>4
  <1>3. ASSUME NEW sender, AddLatestOraclePrice(sender)
        PROVE  LatestNotAheadOfOracle'
    <2>1. currentPriceId + 1 \in PriceIds
      BY <1>1, <1>3, PricerAssumption, SMT DEF AddLatestOraclePrice, PriceIds
    <2>2. prices'[latestPriceId'].timestamp = priceTimestamp /\ priceTimestamp' = priceTimestamp
      BY <1>1, <1>3, <2>1 DEF AddLatestOraclePrice, OracleTimestamp, oracleVars
    <2>. QED BY <1>1, <2>2, SMT
  <1>4. ASSUME NEW sender, NEW priceId \in PriceIds, NEW price \in Prices,
               UpdatePrice(sender, priceId, price), UNCHANGED oracleVars
        PROVE  LatestNotAheadOfOracle'
    <2>1. \A id \in PriceIds : prices'[id].timestamp = prices[id].timestamp
      BY <1>4, UpdatePriceTable DEF PunctualInv, OracleInv
    <2>. QED BY <1>1, <1>4, <2>1 DEF UpdatePrice, oracleVars
  <1>5. CASE OracleNext /\ UNCHANGED pricerVars
    <2>1. prices' = prices /\ latestPriceId' = latestPriceId
      BY <1>5 DEF pricerVars
    <2>2. priceTimestamp' = priceTimestamp \/ priceTimestamp' = oracleNow
      BY <1>5 DEF OracleNext, SetOraclePrice, OracleTick
    <2>. QED BY <1>1, <2>1, <2>2, SMT
  <1>6. CASE UNCHANGED vars
    BY <1>1, <1>6 DEF vars, pricerVars, oracleVars
  <1>. QED BY <1>2, <1>3, <1>4, <1>5, <1>6 DEF Next

LEMMA AlwaysPunctualInv == PunctualSpec => []PunctualInv
  BY PunctualInitInv, PunctualNextInv, PTL DEF PunctualSpec

(***************************************************************************)
(* What the comment at PricerWithOracle.sol:101 says holds if no updater   *)
(* attaches a timestamp of the future.                                     *)
(***************************************************************************)
THEOREM PunctualLatestNotAhead == PunctualSpec => []LatestNotAheadOfOracle
  BY AlwaysPunctualInv, PTL DEF PunctualInv

(***************************************************************************)
(* With such updaters PricerWithOracle, too, keeps what IPricer promises:  *)
(* skipping the comparison in addLatestOraclePrice does no harm.           *)
(***************************************************************************)
THEOREM PunctualImplementsFeed == PunctualSpec => ImplementsPriceFeed
  <1>1. Init => Feed!FeedInit
    <2>. SUFFICES ASSUME Init PROVE Feed!FeedInit
      OBVIOUS
    <2>. DEFINE entry == [price |-> rwaPrice, timestamp |-> priceTimestamp]
    <2>1. entry \in Feed!FeedEntries
      BY OraclePriceFits DEF Init, OracleInit, Feed!FeedEntries
    <2>2. 1 \in PriceIds
      BY PricerAssumption, PricerWithOracleAssumption, SMT DEF PriceIds
    <2>3. FeedOfTable = [id \in 1 .. 1 |-> entry]
      BY <2>2, SMT DEF Init, FeedOfTable
    <2>4. FeedOfTable = <<entry>>
      BY <2>3, SMT
    <2>. QED BY <2>1, <2>4 DEF Feed!FeedInit, Init
  <1>2. PunctualInv /\ [Next /\ TimestampsArePast]_vars => [Feed!FeedNext]_(Feed!feedVars)
    <2>1. ASSUME PunctualInv, NEW sender, AddLatestOraclePrice(sender)
          PROVE  Feed!FeedNext
      <3>1. /\ rwaPrice \in Prices \ {0} /\ priceTimestamp \in Timestamps
            /\ Gains([price |-> rwaPrice, timestamp |-> priceTimestamp])
        BY <2>1, OraclePriceFits, AddLatestGains DEF PunctualInv, OracleInv
      <3>2. prices[latestPriceId].timestamp \in Nat /\ priceTimestamp \in Nat
        BY <2>1, OraclePriceFits, SMT
           DEF PunctualInv, OracleInv, TableInv, PricerTypeOK, PriceInfo
      <3>3. priceTimestamp >= prices[latestPriceId].timestamp
        BY <2>1, <3>2, SMT DEF PunctualInv, LatestNotAheadOfOracle
      <3>4. latestPriceId' = currentPriceId + 1
        BY <2>1 DEF AddLatestOraclePrice
      <3>. QED BY <2>1, <3>1, <3>3, <3>4, EntryPublishes DEF PunctualInv, OracleInv
    <2>2. UNCHANGED pricerVars => UNCHANGED Feed!feedVars
      BY DEF pricerVars, Feed!feedVars, FeedOfTable
    <2>. QED BY <2>1, <2>2, AddPricePublishes, UpdatePriceCorrects
             DEF Next, AddPriceToBoth, PunctualInv, OracleInv, vars
  <1>. QED BY <1>1, <1>2, AlwaysPunctualInv, PTL
           DEF PunctualSpec, ImplementsPriceFeed, Feed!FeedSpec
=============================================================================
