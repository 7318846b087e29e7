------------------------------- MODULE Pricer -------------------------------
(***************************************************************************)
(* contracts/Pricer.sol: the append-only table of prices that RWAHub reads *)
(* by price id, and the pointer to the newest of them.                     *)
(*                                                                         *)
(* Prices arrive in any order of their timestamps (the deposits of one day *)
(* may be priced after those of the next), so the last id issued,          *)
(* currentPriceId, and the id of the newest price, latestPriceId, are      *)
(* different pointers.  The array priceIds of the source only lists 1 ..   *)
(* currentPriceId and is read by no function; it is left out.              *)
(***************************************************************************)
EXTENDS Integers

CONSTANTS Prices,         \* the prices an updater may submit (0 is refused)
          Timestamps,     \* the timestamps an updater may attach to a price
          MaxPriceId,     \* bound: the number of prices ever added
          PriceUpdaters   \* the holders of PRICE_UPDATE_ROLE

ASSUME PricerAssumption == /\ Prices \subseteq Nat
                           /\ Timestamps \subseteq Nat
                           /\ MaxPriceId \in Nat

VARIABLES prices,         \* priceId -> PriceInfo; an id never added maps to NoPrice
          currentPriceId, \* the last id issued
          latestPriceId   \* the id of the price with the newest timestamp

pricerVars == <<prices, currentPriceId, latestPriceId>>

PriceInfo == [price : Nat, timestamp : Nat]
NoPrice   == [price |-> 0, timestamp |-> 0]
PriceIds  == 0 .. MaxPriceId

PricerTypeOK == /\ prices \in [PriceIds -> PriceInfo]
                /\ currentPriceId \in PriceIds
                /\ latestPriceId \in PriceIds

PricerInit == /\ prices = [id \in PriceIds |-> NoPrice]
              /\ currentPriceId = 0
              /\ latestPriceId = 0

-----------------------------------------------------------------------------
(* Mutation: a price as old as the latest one takes its place.             *)
TiesMoveLatest(timestamp) == timestamp >= prices[latestPriceId].timestamp

(* Mutation: the newest id is taken for the newest price.                  *)
EveryPriceIsLatest(timestamp) == TRUE

\* Is a price of this timestamp newer than the latest one?
IsNewer(timestamp) == timestamp > prices[latestPriceId].timestamp

ValidPrice(price) == price # 0

AddPrice(sender, price, timestamp) ==
  /\ currentPriceId < MaxPriceId
  /\ sender \in PriceUpdaters
  /\ ValidPrice(price)
  /\ currentPriceId' = currentPriceId + 1
  /\ prices' = [prices EXCEPT ![currentPriceId + 1] =
                  [price |-> price, timestamp |-> timestamp]]
  /\ latestPriceId' = IF IsNewer(timestamp) THEN currentPriceId + 1
                                            ELSE latestPriceId

(* Mutation: any id may be updated, also one no price was added for.       *)
UpdateAnyId(sender, priceId, price) ==
  /\ sender \in PriceUpdaters
  /\ ValidPrice(price)
  /\ prices' = [prices EXCEPT ![priceId].price = price]
  /\ UNCHANGED <<currentPriceId, latestPriceId>>

\* A correction of a price: it keeps the timestamp, so the pointers stay.
UpdatePrice(sender, priceId, price) ==
  /\ sender \in PriceUpdaters
  /\ ValidPrice(price)
  /\ prices[priceId].price # 0
  /\ prices' = [prices EXCEPT ![priceId].price = price]
  /\ UNCHANGED <<currentPriceId, latestPriceId>>

PricerNext ==
  \E sender \in PriceUpdaters, price \in Prices :
    \/ \E timestamp \in Timestamps : AddPrice(sender, price, timestamp)
    \/ \E priceId \in PriceIds : UpdatePrice(sender, priceId, price)

PricerSpec == PricerInit /\ [][PricerNext]_pricerVars

-----------------------------------------------------------------------------
(***************************************************************************)
(* The ids that carry a price are exactly those issued, and stay so: no    *)
(* sequence of additions and corrections leaves a gap, revives an unused   *)
(* id, or takes a price away from a deposit that was given its id.         *)
(***************************************************************************)
PricedIdsAreIssued ==
  \A id \in PriceIds : prices[id].price # 0 <=> id \in 1 .. currentPriceId

(***************************************************************************)
(* latestPriceId points to the newest price, whatever the order in which   *)
(* prices were added, and among prices of the same timestamp to the one    *)
(* added first (addPrice compares strictly; updatePrice never reorders).   *)
(***************************************************************************)
LatestIsNewest ==
  \A id \in 1 .. currentPriceId :
    /\ prices[id].timestamp <= prices[latestPriceId].timestamp
    /\ prices[id].timestamp = prices[latestPriceId].timestamp => latestPriceId <= id

(***************************************************************************)
(* The latest price only ever moves to a strictly newer timestamp, and the *)
(* timestamp of a price in the table is never rewritten: getLatestPrice    *)
(* cannot go back in time.                                                 *)
(***************************************************************************)
LatestMovesForward ==
  [][ /\ latestPriceId' # latestPriceId =>
           prices'[latestPriceId'].timestamp > prices[latestPriceId].timestamp
      /\ \A id \in 1 .. currentPriceId :
           prices'[id].timestamp = prices[id].timestamp ]_pricerVars

\* The list of prices that the table stands for
FeedOfTable == [id \in 1 .. currentPriceId |-> prices[id]]

Feed == INSTANCE PriceFeed WITH feed           <- FeedOfTable,
                                latest         <- latestPriceId,
                                FeedPrices     <- Prices,
                                FeedTimestamps <- Timestamps

(***************************************************************************)
(* Pricer keeps what IPricer promises: read through its ids, the table is  *)
(* a list that only grows, with a latest entry that nothing is newer than. *)
(***************************************************************************)
ImplementsPriceFeed == Feed!FeedSpec
=============================================================================
