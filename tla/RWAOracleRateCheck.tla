------------------------- MODULE RWAOracleRateCheck -------------------------
(***************************************************************************)
(* contracts/rwaOracles/RWAOracleRateCheck.sol: the price of an RWA token, *)
(* which a setter may change once in a window of time and by a limited     *)
(* number of basis points.                                                 *)
(***************************************************************************)
EXTENDS RWAOracle

CONSTANTS InitialPrice,            \* the constructor's initialprice
          DeployedAt,              \* the time of the deployment
          BPS_DENOMINATOR,         \* 10_000 in the source
          MAX_CHANGE_DIFF_BPS,     \* 100 in the source: 1%
          MAX_UINT256              \* the largest word, scaled down for TLC

ASSUME RateCheckAssumption == /\ InitialPrice \in OraclePrices \cap (Nat \ {0})
                              /\ DeployedAt \in Times
                              /\ BPS_DENOMINATOR \in Nat \ {0}
                              /\ MAX_CHANGE_DIFF_BPS \in 0 .. BPS_DENOMINATOR
                              /\ MAX_UINT256 \in Nat

RateCheckInit == /\ rwaPrice = InitialPrice
                 /\ oracleNow = DeployedAt
                 /\ priceTimestamp = oracleNow

-----------------------------------------------------------------------------
(* Mutation: the change is rounded down to whole basis points.             *)
MulDivDown(x, y, denominator) == (x * y) \div denominator

mulDivUp(x, y, denominator) == (x * y + denominator - 1) \div denominator

\* Solidity reverts on a division by zero and on a product beyond the word.
MulDivIsDefined(x, y, denominator) == denominator # 0 /\ x <= MAX_UINT256 \div y

Change(previousPrice, newPrice) ==
  IF newPrice > previousPrice THEN newPrice - previousPrice ELSE previousPrice - newPrice

(* Mutation: the change is taken relative to the new price.                *)
BpsOfNewPrice(previousPrice, newPrice) ==
  mulDivUp(Change(previousPrice, newPrice), BPS_DENOMINATOR, newPrice)

PriceChangeBps(previousPrice, newPrice) ==
  mulDivUp(Change(previousPrice, newPrice), BPS_DENOMINATOR, previousPrice)

(* Mutation: the window is checked against the deployment.                 *)
WindowSinceDeployment == oracleNow - DeployedAt >= MIN_PRICE_UPDATE_WINDOW

UpdateWindowPassed == oracleNow - priceTimestamp >= MIN_PRICE_UPDATE_WINDOW

SetPrice(setter, newPrice) ==
  /\ setter \in Setters
  /\ newPrice > 0
  /\ UpdateWindowPassed
  /\ MulDivIsDefined(Change(rwaPrice, newPrice), BPS_DENOMINATOR, rwaPrice)
  /\ PriceChangeBps(rwaPrice, newPrice) <= MAX_CHANGE_DIFF_BPS
  /\ rwaPrice' = newPrice
  /\ priceTimestamp' = oracleNow
  /\ UNCHANGED oracleNow

RateCheckNext ==
  \/ \E setter \in Setters, newPrice \in OraclePrices : SetPrice(setter, newPrice)
  \/ OracleTick

RateCheckSpec == RateCheckInit /\ [][RateCheckNext]_oracleVars

-----------------------------------------------------------------------------
(***************************************************************************)
(* RWAOracleRateCheck keeps the promises of IRWAOracleSetter: PricerWith-  *)
(* Oracle may rely on them whichever oracle it is deployed with.           *)
(***************************************************************************)
KeepsOraclePromises == OracleSpec

(***************************************************************************)
(* Two prices in a row differ by at most the limit, as an exact fraction   *)
(* of the first: rounding the change to basis points lets nothing through. *)
(***************************************************************************)
ChangesAreLimited ==
  [][ Change(rwaPrice, rwaPrice') * BPS_DENOMINATOR <= MAX_CHANGE_DIFF_BPS * rwaPrice ]_oracleVars

\* The highest and lowest prices reachable by n changes
highest[n \in Nat] ==
  IF n = 0 THEN InitialPrice
  ELSE highest[n - 1] + (MAX_CHANGE_DIFF_BPS * highest[n - 1]) \div BPS_DENOMINATOR

lowest[n \in Nat] ==
  IF n = 0 THEN InitialPrice
  ELSE lowest[n - 1] - (MAX_CHANGE_DIFF_BPS * lowest[n - 1]) \div BPS_DENOMINATOR

(***************************************************************************)
(* However the setter times and mixes the changes, the price stays between *)
(* the bounds compounded once per full window since the deployment: no     *)
(* sequence of small changes gets around the limit.                        *)
(***************************************************************************)
PriceWithinEnvelope ==
  LET windows == (priceTimestamp - DeployedAt) \div MIN_PRICE_UPDATE_WINDOW
  IN  rwaPrice \in lowest[windows] .. highest[windows]
=============================================================================
