--------------------------- MODULE PricerWithOracle ---------------------------
(***************************************************************************)
(* contracts/PricerWithOracle.sol: a Pricer whose latest price is written  *)
(* to an oracle, composed with what any oracle of the repository promises  *)
(* (RWAOracle).  The oracle has other setters, so its price may move       *)
(* without the pricer, and updatePrice, inherited unchanged, may move the  *)
(* pricer's without the oracle.  The pricer casts its prices to int256 for *)
(* the oracle, and the oracle's to uint256: the identity for the positive  *)
(* prices below 2^255 of the model.                                        *)
(***************************************************************************)
EXTENDS Pricer, RWAOracle

CONSTANT ThisPricer   \* the address of the pricer, one of the oracle's setters

ASSUME PricerWithOracleAssumption == /\ Prices = OraclePrices \cap Nat
                                     /\ Times \subseteq Timestamps
                                     /\ 1 <= MaxPriceId

vars == <<pricerVars, oracleVars>>

TypeOK == PricerTypeOK /\ OracleTypeOK

\* The constructor records the oracle's price, whatever its age, under id 1.
Init == /\ OracleInit
        /\ prices = [id \in PriceIds |-> IF id = 1
                       THEN [price |-> rwaPrice, timestamp |-> priceTimestamp] ELSE NoPrice]
        /\ currentPriceId = 1
        /\ latestPriceId = 1

-----------------------------------------------------------------------------
(* Mutation: the oracle is written without a look at its price.            *)
AnyOraclePrice == TRUE

\* _updateOraclePrice: does the oracle still have the pricer's latest price?
PricesMatch == prices[latestPriceId].price = rwaPrice

(* Mutation: the oracle is compared, not written.                          *)
CompareOraclePrice(price) == PricesMatch /\ UNCHANGED oracleVars

UpdateOraclePrice(price) == PricesMatch /\ SetOraclePrice(ThisPricer, price)

\* addPrice: a newer price also goes to the oracle, and fails if that does.
AddPriceToBoth(sender, price, timestamp) ==
  /\ AddPrice(sender, price, timestamp)
  /\ IF IsNewer(timestamp) THEN UpdateOraclePrice(price) ELSE UNCHANGED oracleVars

(* Mutation: the price is recorded as of now.                              *)
RecordedAt == oracleNow

OracleTimestamp == priceTimestamp

\* addLatestOraclePrice: the oracle's price becomes the latest, unasked of its age.
AddLatestOraclePrice(sender) ==
  /\ sender \in PriceUpdaters
  /\ currentPriceId < MaxPriceId
  /\ prices[latestPriceId] # [price |-> rwaPrice, timestamp |-> priceTimestamp]
  /\ currentPriceId' = currentPriceId + 1
  /\ prices' = [prices EXCEPT ![currentPriceId + 1] =
                  [price |-> rwaPrice, timestamp |-> OracleTimestamp]]
  /\ latestPriceId' = currentPriceId + 1
  /\ UNCHANGED oracleVars

Next ==
  \/ \E sender \in PriceUpdaters, price \in Prices, timestamp \in Timestamps :
       AddPriceToBoth(sender, price, timestamp)
  \/ \E sender \in PriceUpdaters : AddLatestOraclePrice(sender)
  \/ \E sender \in PriceUpdaters, priceId \in PriceIds, price \in Prices :
       UpdatePrice(sender, priceId, price) /\ UNCHANGED oracleVars
  \/ OracleNext /\ UNCHANGED pricerVars

Spec == Init /\ [][Next]_vars

\* An updater who attaches no timestamp of the future to a price
TimestampsArePast == currentPriceId' # currentPriceId =>
                       prices'[currentPriceId'].timestamp <= oracleNow

PunctualSpec == Init /\ [][Next /\ TimestampsArePast]_vars

-----------------------------------------------------------------------------
(***************************************************************************)
(* Whenever the pricer gets a new latest price, by addPrice or by          *)
(* addLatestOraclePrice, it is the price the oracle has after that step;   *)
(* whoever reads the one or the other pays the same.                       *)
(***************************************************************************)
NewLatestIsOraclePrice ==
  [][ latestPriceId' # latestPriceId => prices'[latestPriceId'].price = rwaPrice' ]_vars

(***************************************************************************)
(* addPrice never overwrites an oracle that another setter moved, or that  *)
(* a correction left behind: while the two disagree, the oracle's price    *)
(* changes only in steps that leave the pricer alone.                      *)
(***************************************************************************)
DisagreementStopsThePricer ==
  [][ prices[latestPriceId].price # rwaPrice /\ rwaPrice' # rwaPrice
        => UNCHANGED pricerVars ]_vars

(***************************************************************************)
(* PricerWithOracle.sol:101: "latestPriceInfo.timestamp is always <=       *)
(* latestOraclePriceTimestamp, so we can skip a check".  True of punctual  *)
(* updaters only: addPrice takes any timestamp, the oracle stamps now.     *)
(***************************************************************************)
LatestNotAheadOfOracle == prices[latestPriceId].timestamp <= priceTimestamp
=============================================================================
