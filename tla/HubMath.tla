------------------------------- MODULE HubMath -------------------------------
(***************************************************************************)
(* The integer arithmetic of contracts/RWAHub.sol: fees in basis points,   *)
(* and the conversions between collateral and RWA tokens at a price.       *)
(* Every division truncates.  The operands of the source are uint256; the  *)
(* amounts of the program are far from overflowing one.                    *)
(***************************************************************************)
EXTENDS Integers

Sets == INSTANCE FiniteSetsExt

CONSTANTS BPS_DENOMINATOR,   \* 10_000 in the source, scaled down for TLC
          ONE,               \* 1e18, the unit of a price, scaled down for TLC
          decimalsMultiplier \* 10 ^ (decimals of the RWA - decimals of the collateral)

ASSUME HubMathAssumption == /\ BPS_DENOMINATOR \in Nat \ {0}
                            /\ ONE \in Nat \ {0}
                            /\ decimalsMultiplier \in Nat \ {0}

\* _getMintFees and _getRedemptionFees, at the rate mintFee or redemptionFee
FeesAt(rate, amount) == (amount * rate) \div BPS_DENOMINATOR

ScaleUp(amount)   == amount * decimalsMultiplier
ScaleDown(amount) == amount \div decimalsMultiplier

(* Mutation: the RWA owed for a deposit is rounded up.                     *)
MintAmountRoundedUp(depositAmt, price) ==
  (ScaleUp(depositAmt) * ONE + price - 1) \div price

\* _getMintAmountForPrice; the division by a price of 0 is a revert
MintAmountForPrice(depositAmt, price) == (ScaleUp(depositAmt) * ONE) \div price

(* Mutation: the amount is scaled down before it is multiplied.            *)
RedemptionAmountScaledFirst(rwaAmountBurned, price) ==
  (ScaleDown(rwaAmountBurned) * price) \div ONE

\* _getRedemptionAmountForRwa
RedemptionAmountForRwa(rwaAmountBurned, price) ==
  ScaleDown((rwaAmountBurned * price) \div ONE)

\* The sum of amountOf[x] over the elements x of a finite set S
Sum(amountOf, S) == Sets!MapThenSumSet(LAMBDA x : amountOf[x], S)
=============================================================================
