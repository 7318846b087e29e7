------------------------------ MODULE RWAOracle ------------------------------
(***************************************************************************)
(* What contracts/rwaOracles/IRWAOracleSetter.sol promises to a contract   *)
(* that reads and sets the price of an RWA token.  A price is positive,    *)
(* carries the time at which it was set, and a new one comes a window of   *)
(* time after it at the earliest.  An oracle may refuse a price for other  *)
(* reasons; each of the two oracles of the repository has its own, and     *)
(* both implement this specification.                                      *)
(***************************************************************************)
EXTENDS Integers

CONSTANTS OraclePrices,           \* the prices a setter may submit
          Setters,                \* the holders of SETTER_ROLE
          MIN_PRICE_UPDATE_WINDOW,\* 23 hours in both oracles
          Times                   \* bound: the values of block.timestamp

ASSUME RWAOracleAssumption == /\ OraclePrices \subseteq Int
                              /\ MIN_PRICE_UPDATE_WINDOW \in Nat \ {0}
                              /\ Times \subseteq Nat

VARIABLES rwaPrice,       \* the price last set
          priceTimestamp, \* when it was set
          oracleNow       \* block.timestamp

oracleVars == <<rwaPrice, priceTimestamp, oracleNow>>

OracleTypeOK == /\ rwaPrice \in OraclePrices \cap (Nat \ {0})
                /\ oracleNow \in Times
                /\ priceTimestamp \in Times
                /\ priceTimestamp <= oracleNow

\* An oracle of any age
OracleInit == OracleTypeOK

ValidOraclePrice(newPrice) == newPrice > 0

\* Has the window passed since the last price?
WindowPassed == oracleNow >= priceTimestamp + MIN_PRICE_UPDATE_WINDOW

\* setPrice, as far as both oracles agree
SetOraclePrice(setter, newPrice) ==
  /\ setter \in Setters
  /\ ValidOraclePrice(newPrice)
  /\ WindowPassed
  /\ rwaPrice' = newPrice
  /\ priceTimestamp' = oracleNow
  /\ UNCHANGED oracleNow

\* The next block, at any later time
OracleTick == /\ \E time \in Times : time >= oracleNow /\ oracleNow' = time
              /\ UNCHANGED <<rwaPrice, priceTimestamp>>

OracleNext == \/ \E setter \in Setters, newPrice \in OraclePrices : SetOraclePrice(setter, newPrice)
              \/ OracleTick

OracleSpec == OracleInit /\ [][OracleNext]_oracleVars
=============================================================================
