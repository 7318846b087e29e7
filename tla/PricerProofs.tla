---------------------------- MODULE PricerProofs ----------------------------
(* Theorems about module Pricer, for every set of prices and timestamps    *)
(* and any number of price ids.                                            *)
EXTENDS Pricer, Sequences, TLAPS

\* What holds of the table whatever latestPriceId points to
TableInv == /\ PricerTypeOK
            /\ PricedIdsAreIssued
            /\ latestPriceId <= currentPriceId
            /\ prices[0] = NoPrice

PricerInv == TableInv /\ LatestIsNewest

(* The table starts empty, with both pointers at the unused id 0.          *)
LEMMA PricerInitInv == PricerInit => PricerInv
  BY PricerAssumption, SMT
     DEF PricerInit, PricerInv, TableInv, PricerTypeOK, PricedIdsAreIssued,
         LatestIsNewest, PriceInfo, NoPrice, PriceIds

\* The table gains an entry, which may become the latest.
Gains(entry) == /\ currentPriceId < MaxPriceId
                /\ currentPriceId' = currentPriceId + 1
                /\ prices' = [prices EXCEPT ![currentPriceId + 1] = entry]
                /\ latestPriceId' \in {latestPriceId, currentPriceId + 1}

(* A new entry gets an id of its own, past all others.                     *)
LEMMA EntryTable ==
  ASSUME TableInv, NEW entry \in PriceInfo, entry.price # 0, Gains(entry)
  PROVE  TableInv'
  <1>1. PricerTypeOK' /\ (latestPriceId <= currentPriceId)'
    BY PricerAssumption, SMT DEF Gains, TableInv, PricerTypeOK, PriceInfo, PriceIds
  <1>2. PricedIdsAreIssued'
    BY PricerAssumption, SMT
       DEF Gains, TableInv, PricerTypeOK, PricedIdsAreIssued, PriceInfo, PriceIds
  <1>3. (prices[0] = NoPrice)'
    BY PricerAssumption, SMT DEF Gains, TableInv, PricerTypeOK, PriceInfo, PriceIds, NoPrice
  <1>. QED BY <1>1, <1>2, <1>3 DEF TableInv

LEMMA AddPriceGains ==
  ASSUME NEW sender, NEW price \in Prices, NEW timestamp \in Timestamps,
         AddPrice(sender, price, timestamp)
  PROVE  LET entry == [price |-> price, timestamp |-> timestamp]
         IN  entry \in PriceInfo /\ entry.price # 0 /\ Gains(entry)
  BY PricerAssumption DEF AddPrice, ValidPrice, Gains, PriceInfo

LEMMA AddPriceTable ==
  ASSUME TableInv, NEW sender, NEW price \in Prices, NEW timestamp \in Timestamps,
         AddPrice(sender, price, timestamp)
  PROVE  TableInv'
  BY AddPriceGains, EntryTable

LEMMA AddPriceInv ==
  ASSUME PricerInv, NEW sender, NEW price \in Prices, NEW timestamp \in Timestamps,
         AddPrice(sender, price, timestamp)
  PROVE  PricerInv'
  <1>1. TableInv'
    BY AddPriceTable DEF PricerInv
  <1>2. LatestIsNewest'
    BY PricerAssumption, SMT
       DEF AddPrice, PricerInv, TableInv, PricerTypeOK, LatestIsNewest, PricedIdsAreIssued,
           PriceInfo, PriceIds, IsNewer
  <1>. QED BY <1>1, <1>2 DEF PricerInv

(* A correction touches the price of an issued id and nothing else.        *)
LEMMA UpdatePriceTable ==
  ASSUME TableInv, NEW sender, NEW priceId \in PriceIds, NEW price \in Prices,
         UpdatePrice(sender, priceId, price)
  PROVE  TableInv' /\ \A id \in PriceIds : prices'[id].timestamp = prices[id].timestamp
  <1>1. PricerTypeOK' /\ (latestPriceId <= currentPriceId)'
    BY PricerAssumption, SMT DEF UpdatePrice, TableInv, PricerTypeOK, PriceInfo, PriceIds
  <1>2. PricedIdsAreIssued'
    BY PricerAssumption, SMT
       DEF UpdatePrice, TableInv, PricerTypeOK, PricedIdsAreIssued, PriceInfo, PriceIds, ValidPrice
  <1>3. (prices[0] = NoPrice)'
    BY SMT DEF UpdatePrice, TableInv, PricerTypeOK, PriceInfo, PriceIds, NoPrice
  <1>4. \A id \in PriceIds : prices'[id].timestamp = prices[id].timestamp
    BY SMT DEF UpdatePrice, TableInv, PricerTypeOK, PriceInfo
  <1>. QED BY <1>1, <1>2, <1>3, <1>4 DEF TableInv

LEMMA UpdatePriceInv ==
  ASSUME PricerInv, NEW sender, NEW priceId \in PriceIds, NEW price \in Prices,
         UpdatePrice(sender, priceId, price)
  PROVE  PricerInv'
  <1>1. TableInv' /\ \A id \in PriceIds : prices'[id].timestamp = prices[id].timestamp
    BY UpdatePriceTable DEF PricerInv
  <1>2. LatestIsNewest'
    BY <1>1, PricerAssumption, SMT
       DEF UpdatePrice, PricerInv, TableInv, PricerTypeOK, LatestIsNewest, PriceIds
  <1>. QED BY <1>1, <1>2 DEF PricerInv

(***************************************************************************)
(* Every step of the pricer keeps the invariant; the manager's             *)
(* specification cites this for the pricer's steps.                        *)
(***************************************************************************)
LEMMA PricerNextInv == PricerInv /\ [PricerNext]_pricerVars => PricerInv'
  <1>1. ASSUME PricerInv, PricerNext PROVE PricerInv'
    BY <1>1, AddPriceInv, UpdatePriceInv DEF PricerNext
  <1>2. ASSUME PricerInv, UNCHANGED pricerVars PROVE PricerInv'
    BY <1>2 DEF PricerInv, TableInv, pricerVars, PricerTypeOK, PricedIdsAreIssued,
                LatestIsNewest, NoPrice
  <1>. QED BY <1>1, <1>2

LEMMA PricerAlwaysInv == PricerSpec => []PricerInv
  BY PricerInitInv, PricerNextInv, PTL DEF PricerSpec

(* The state of the pricer is always well typed.                           *)
THEOREM PricerTyped == PricerSpec => []PricerTypeOK
  BY PricerAlwaysInv, PTL DEF PricerInv, TableInv

(* The ids that carry a price are exactly those issued.                    *)
THEOREM PricerIdsIssued == PricerSpec => []PricedIdsAreIssued
  BY PricerAlwaysInv, PTL DEF PricerInv, TableInv

(* latestPriceId points to the newest price, however they were added.      *)
THEOREM PricerLatestNewest == PricerSpec => []LatestIsNewest
  BY PricerAlwaysInv, PTL DEF PricerInv, TableInv

(* The latest price never goes back in time.                               *)
THEOREM PricerLatestMovesForward == PricerSpec => LatestMovesForward
  <1>. DEFINE Forward ==
         /\ latestPriceId' # latestPriceId =>
              prices'[latestPriceId'].timestamp > prices[latestPriceId].timestamp
         /\ \A id \in 1 .. currentPriceId : prices'[id].timestamp = prices[id].timestamp
  <1>1. ASSUME PricerInv, NEW sender, NEW price \in Prices, NEW timestamp \in Timestamps,
               AddPrice(sender, price, timestamp)
        PROVE  Forward
    BY <1>1, PricerAssumption, SMT
       DEF AddPrice, PricerInv, TableInv, PricerTypeOK, PriceInfo, PriceIds, IsNewer
  <1>2. ASSUME PricerInv, NEW sender, NEW priceId \in PriceIds, NEW price \in Prices,
               UpdatePrice(sender, priceId, price)
        PROVE  Forward
    BY <1>2, SMT DEF UpdatePrice, PricerInv, TableInv, PricerTypeOK, PriceInfo, PriceIds
  <1>3. PricerInv /\ [PricerNext]_pricerVars => [Forward]_pricerVars
    BY <1>1, <1>2 DEF PricerNext
  <1>. QED BY <1>3, PricerAlwaysInv, PTL DEF PricerSpec, LatestMovesForward
-----------------------------------------------------------------------------
(* The list grows by exactly the entry the table gains.                    *)
LEMMA EntryAppends ==
  ASSUME TableInv, NEW entry \in PriceInfo, Gains(entry)
  PROVE  FeedOfTable' = Append(FeedOfTable, entry)
  <1>. DEFINE n     == currentPriceId
              grown == [id \in 1 .. n + 1 |-> IF id = n + 1 THEN entry ELSE prices[id]]
  <1>1. /\ n \in Nat /\ n + 1 \in PriceIds /\ 1 .. n \subseteq PriceIds
        /\ currentPriceId' = n + 1
        /\ prices' = [prices EXCEPT ![n + 1] = entry]
    BY PricerAssumption, SMT DEF Gains, TableInv, PricerTypeOK, PriceIds
  <1>2. FeedOfTable \in Seq(PriceInfo) /\ Len(FeedOfTable) = n
    BY <1>1, SMT DEF FeedOfTable, TableInv, PricerTypeOK
  <1>3. Append(FeedOfTable, entry) = grown
    BY <1>1, <1>2, SMT DEF FeedOfTable
  <1>4. FeedOfTable' = grown
    BY <1>1, SMT DEF FeedOfTable, TableInv, PricerTypeOK
  <1>. QED BY <1>3, <1>4

(* A gain is a publication, if the latest moves only to what is not older. *)
LEMMA EntryPublishes ==
  ASSUME TableInv, NEW price \in Prices \ {0}, NEW timestamp \in Timestamps,
         Gains([price |-> price, timestamp |-> timestamp]),
         \/ timestamp >= prices[latestPriceId].timestamp /\ latestPriceId' = currentPriceId + 1
         \/ timestamp <= prices[latestPriceId].timestamp /\ latestPriceId' = latestPriceId
  PROVE  Feed!FeedNext
  <1>. DEFINE entry == [price |-> price, timestamp |-> timestamp]
  <1>1. entry \in PriceInfo /\ entry \in Feed!FeedEntries /\ entry.timestamp = timestamp
    BY PricerAssumption DEF PriceInfo, Feed!FeedEntries
  <1>2. FeedOfTable' = Append(FeedOfTable, entry)
    BY <1>1, EntryAppends
  <1>3. Len(FeedOfTable) = currentPriceId
    BY SMT DEF FeedOfTable, TableInv, PricerTypeOK, PriceIds
  <1>4. Feed!LatestTimestamp = prices[latestPriceId].timestamp
    BY SMT DEF Feed!LatestTimestamp, FeedOfTable, TableInv, PricerTypeOK, PriceIds, NoPrice
  <1>. HIDE DEF entry
  <1>5. \/ entry.timestamp >= Feed!LatestTimestamp /\ latestPriceId' = Len(FeedOfTable) + 1
        \/ entry.timestamp <= Feed!LatestTimestamp /\ latestPriceId' = latestPriceId
    BY <1>1, <1>3, <1>4
  <1>. QED BY <1>1, <1>2, <1>5 DEF Feed!Publish, Feed!FeedNext

LEMMA AddPricePublishes ==
  ASSUME TableInv, NEW sender, NEW price \in Prices, NEW timestamp \in Timestamps,
         AddPrice(sender, price, timestamp)
  PROVE  Feed!FeedNext
  <1>1. Gains([price |-> price, timestamp |-> timestamp]) /\ price \in Prices \ {0}
    BY AddPriceGains DEF AddPrice, ValidPrice
  <1>2. prices[latestPriceId].timestamp \in Nat /\ timestamp \in Nat
    BY PricerAssumption, SMT DEF TableInv, PricerTypeOK, PriceInfo
  <1>3. latestPriceId' = IF timestamp > prices[latestPriceId].timestamp
                           THEN currentPriceId + 1 ELSE latestPriceId
    BY DEF AddPrice, IsNewer
  <1>4. CASE timestamp > prices[latestPriceId].timestamp
    BY <1>1, <1>2, <1>3, <1>4, EntryPublishes
  <1>5. CASE timestamp <= prices[latestPriceId].timestamp
    BY <1>1, <1>2, <1>3, <1>5, EntryPublishes
  <1>. QED BY <1>2, <1>4, <1>5

(* A correction changes the price of one entry and nothing else.           *)
LEMMA UpdatePriceCorrects ==
  ASSUME TableInv, NEW sender, NEW priceId \in PriceIds, NEW price \in Prices,
         UpdatePrice(sender, priceId, price)
  PROVE  Feed!FeedNext
  <1>1. priceId \in 1 .. currentPriceId
    BY DEF UpdatePrice, TableInv, PricedIdsAreIssued
  <1>2. priceId \in DOMAIN FeedOfTable /\ price \in Prices \ {0}
    BY <1>1 DEF FeedOfTable, UpdatePrice, ValidPrice
  <1>3. FeedOfTable' = [FeedOfTable EXCEPT ![priceId].price = price]
    <2>1. /\ currentPriceId' = currentPriceId
          /\ prices' = [prices EXCEPT ![priceId].price = price]
          /\ 1 .. currentPriceId \subseteq PriceIds /\ PriceIds = DOMAIN prices
      BY PricerAssumption DEF UpdatePrice, TableInv, PricerTypeOK, PriceIds
    <2>2. \A id \in 1 .. currentPriceId :
            prices'[id] = IF id = priceId THEN [prices[id] EXCEPT !.price = price] ELSE prices[id]
      BY <1>1, <2>1
    <2>. QED BY <1>1, <2>1, <2>2 DEF FeedOfTable
  <1>. QED BY <1>2, <1>3 DEF Feed!Correct, Feed!FeedNext, UpdatePrice

(***************************************************************************)
(* Pricer keeps what IPricer promises: the table implements a list that    *)
(* only grows, with a latest entry that nothing in it is newer than.       *)
(***************************************************************************)
THEOREM PricerImplementsFeed == PricerSpec => ImplementsPriceFeed
  <1>1. PricerInit => Feed!FeedInit
    BY SMT DEF PricerInit, Feed!FeedInit, FeedOfTable
  <1>2. PricerInv /\ [PricerNext]_pricerVars => [Feed!FeedNext]_(Feed!feedVars)
    <2>1. ASSUME PricerInv, PricerNext PROVE Feed!FeedNext
      BY <2>1, AddPricePublishes, UpdatePriceCorrects DEF PricerNext, PricerInv
    <2>2. ASSUME UNCHANGED pricerVars PROVE UNCHANGED Feed!feedVars
      BY <2>2 DEF pricerVars, Feed!feedVars, FeedOfTable
    <2>. QED BY <2>1, <2>2
  <1>. QED BY <1>1, <1>2, PricerAlwaysInv, PTL DEF PricerSpec, ImplementsPriceFeed, Feed!FeedSpec
=============================================================================
