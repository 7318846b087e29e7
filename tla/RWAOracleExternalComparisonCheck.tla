------------------ MODULE RWAOracleExternalComparisonCheck ------------------
(***************************************************************************)
(* contracts/rwaOracles/RWAOracleExternalComparisonCheck.sol: an oracle    *)
(* whose price may change once in a window of time, at most by an absolute *)
(* limit, and about as much as a Chainlink feed changed between the rounds *)
(* associated with the two prices.                                         *)
(*                                                                         *)
(* The feed is external and an input: it may answer late, in any order,    *)
(* with a round it gave before, or with a corrupt one.  The overflow of    *)
(* int256 is left out; Solidity reverts on it.                             *)
(***************************************************************************)
EXTENDS RWAOracle

CONSTANTS InitialPrices,        \* the constructor's _initialPrice, unchecked
          BPS_DENOMINATOR,      \* 10_000 in the source
          MAX_CHANGE_DIFF_BPS,  \* 74 in the source
          MAX_ABSOLUTE_DIFF_BPS,\* 200 in the source
          MAX_CL_WINDOW,        \* 25 hours in the source
          Answers,              \* the answers of the feed, negative ones included
          RoundIds              \* the ids of its rounds; 0 is no round

ASSUME ComparisonAssumption == /\ InitialPrices \subseteq OraclePrices
                               /\ BPS_DENOMINATOR \in Nat \ {0}
                               /\ MAX_CHANGE_DIFF_BPS \in Nat
                               /\ MAX_ABSOLUTE_DIFF_BPS \in 0 .. BPS_DENOMINATOR - 1
                               /\ MAX_CL_WINDOW \in Nat
                               /\ Answers \subseteq Int
                               /\ RoundIds \subseteq Nat

VARIABLE lastSetRound \* the round associated with rwaPrice

comparisonVars == <<oracleVars, lastSetRound>>

\* What latestRoundData() may return
Rounds == [roundId : RoundIds, answer : Answers, updatedAt : {0} \cup Times,
           answeredInRound : RoundIds]

\* _getLatestChainlinkRoundData reverts on anything else.
Consistent(round) == /\ round.answer >= 0
                     /\ round.roundId = round.answeredInRound
                     /\ round.roundId # 0
                     /\ round.updatedAt # 0
                     /\ round.updatedAt <= oracleNow

(* Mutation: a round of any age is compared.                               *)
OfAnyAge(round) == TRUE

IsRecent(round) == oracleNow <= round.updatedAt + MAX_CL_WINDOW

ComparisonInit == /\ rwaPrice \in InitialPrices
                  /\ oracleNow \in Times
                  /\ priceTimestamp = oracleNow
                  /\ lastSetRound \in Rounds
                  /\ Consistent(lastSetRound)
                  /\ IsRecent(lastSetRound)

-----------------------------------------------------------------------------
AbsUnsigned(x) == IF x >= 0 THEN x ELSE -x

\* The machine divides towards zero, and answers 0 for a divisor of 0 ...
Quotient(n, d) ==
  IF d = 0 THEN 0
  ELSE IF n >= 0 <=> d > 0 THEN AbsUnsigned(n) \div AbsUnsigned(d)
                           ELSE -(AbsUnsigned(n) \div AbsUnsigned(d))

(* Mutation: the machine's division, without Solidity's check.             *)
UncheckedDivisor(d) == TRUE

\* ... but Solidity checks the divisor and reverts.
Divides(d) == d # 0

PriceChangeBps(previousPrice, newPrice) ==
  Quotient((newPrice - previousPrice) * BPS_DENOMINATOR, previousPrice)

(* Mutation: changes of the feed are ignored from the absolute limit on.   *)
WithinAbsoluteLimit(chainlinkChangeBps) ==
  AbsUnsigned(chainlinkChangeBps) <= MAX_ABSOLUTE_DIFF_BPS

\* A larger change of the feed is taken for a malfunction and ignored.
IsSane(chainlinkChangeBps) ==
  AbsUnsigned(chainlinkChangeBps) <= MAX_ABSOLUTE_DIFF_BPS + MAX_CHANGE_DIFF_BPS

(* Mutation: the window is counted from the round instead of the price.    *)
WindowSinceRound == oracleNow >= lastSetRound.updatedAt + MIN_PRICE_UPDATE_WINDOW

UpdateWindowPassed == oracleNow >= priceTimestamp + MIN_PRICE_UPDATE_WINDOW

Positive(newPrice) == newPrice > 0

SetPrice(setter, newPrice, round) ==
  LET rwaChangeBps       == PriceChangeBps(rwaPrice, newPrice)
      chainlinkChangeBps == PriceChangeBps(lastSetRound.answer, round.answer)
  IN  /\ setter \in Setters
      /\ Positive(newPrice)
      /\ Consistent(round)
      /\ IsRecent(round)
      /\ round.roundId # lastSetRound.roundId
      /\ UpdateWindowPassed
      /\ Divides(rwaPrice)
      /\ AbsUnsigned(rwaChangeBps) <= MAX_ABSOLUTE_DIFF_BPS
      /\ Divides(lastSetRound.answer)
      /\ IsSane(chainlinkChangeBps) =>
           AbsUnsigned(rwaChangeBps - chainlinkChangeBps) <= MAX_CHANGE_DIFF_BPS
      /\ rwaPrice' = newPrice
      /\ priceTimestamp' = oracleNow
      /\ lastSetRound' = round
      /\ UNCHANGED oracleNow

ComparisonNext ==
  \/ \E setter \in Setters, newPrice \in OraclePrices, round \in Rounds :
       SetPrice(setter, newPrice, round)
  \/ OracleTick /\ UNCHANGED lastSetRound

ComparisonSpec == ComparisonInit /\ [][ComparisonNext]_comparisonVars

-----------------------------------------------------------------------------
(***************************************************************************)
(* Deployed with a positive price, RWAOracleExternalComparisonCheck keeps  *)
(* the promises of IRWAOracleSetter, whatever the feed answers.            *)
(***************************************************************************)
KeepsOraclePromises == OracleSpec

(***************************************************************************)
(* As exact fractions, a new price differs from the last by less than one  *)
(* basis point more than the absolute limit, and its change from that of   *)
(* the feed, unless the feed's is larger than is sane, by less than two    *)
(* more than the limit of deviation: both changes are rounded towards 0.   *)
(***************************************************************************)
ChangesFollowChainlink ==
  [][ priceTimestamp' # priceTimestamp =>
        LET before    == lastSetRound.answer
            change    == rwaPrice' - rwaPrice
            clChange  == lastSetRound'.answer - before
            saneBelow == MAX_ABSOLUTE_DIFF_BPS + MAX_CHANGE_DIFF_BPS + 1
        IN  /\ AbsUnsigned(change) * BPS_DENOMINATOR < (MAX_ABSOLUTE_DIFF_BPS + 1) * rwaPrice
            /\ AbsUnsigned(clChange) * BPS_DENOMINATOR < saneBelow * before =>
                 AbsUnsigned(change * before - clChange * rwaPrice) * BPS_DENOMINATOR
                   < (MAX_CHANGE_DIFF_BPS + 2) * rwaPrice * before ]_comparisonVars

(***************************************************************************)
(* The two changes compared are of about the same period: the time between *)
(* two prices and the time between their rounds differ by at most the age  *)
(* a round may have.                                                       *)
(***************************************************************************)
ComparedPeriodsMatch ==
  [][ AbsUnsigned((priceTimestamp' - priceTimestamp)
                    - (lastSetRound'.updatedAt - lastSetRound.updatedAt)) <= MAX_CL_WINDOW
    ]_comparisonVars

(***************************************************************************)
(* An answer of 0, which the consistency checks let through, or an initial *)
(* price that is not positive, which the constructor does not refuse, ends *)
(* the oracle: its price never changes again, nor turns positive.          *)
(***************************************************************************)
ZeroIsFinal ==
  [][ rwaPrice <= 0 \/ lastSetRound.answer = 0
        => UNCHANGED <<rwaPrice, priceTimestamp, lastSetRound>> ]_comparisonVars
=============================================================================
