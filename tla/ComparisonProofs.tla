-------------------------- MODULE ComparisonProofs --------------------------
(* Theorems about RWAOracleExternalComparisonCheck, for every feed, limit  *)
(* and window.                                                             *)
EXTENDS RWAOracleExternalComparisonCheck, TLAPS

-----------------------------------------------------------------------------
(* Arithmetic.                                                             *)
LEMMA AbsTyped == ASSUME NEW x \in Int PROVE AbsUnsigned(x) \in Nat
  BY SMT DEF AbsUnsigned

LEMMA AbsAtMost ==
  ASSUME NEW x \in Int, NEW m \in Int
  PROVE  AbsUnsigned(x) <= m <=> -m <= x /\ x <= m
  BY SMT DEF AbsUnsigned

LEMMA AbsBelow ==
  ASSUME NEW x \in Int, NEW m \in Int
  PROVE  AbsUnsigned(x) < m <=> -m < x /\ x < m
  BY SMT DEF AbsUnsigned

LEMMA AbsProduct ==
  ASSUME NEW x \in Int, NEW d \in Nat
  PROVE  AbsUnsigned(x) * d = AbsUnsigned(x * d)
  <1>1. CASE x >= 0
    <2>1. x * d >= 0 /\ x * d \in Int
      BY <1>1, SMT
    <2>. QED BY <1>1, <2>1 DEF AbsUnsigned
  <1>2. CASE x < 0
    <2>1. (-x) * d = -(x * d) /\ x * d \in Int /\ x * d <= 0
      BY <1>2, SMT
    <2>2. AbsUnsigned(x) = -x
      BY <1>2, SMT DEF AbsUnsigned
    <2>3. AbsUnsigned(x * d) = -(x * d)
      BY <2>1, SMT DEF AbsUnsigned
    <2>. QED BY <2>1, <2>2, <2>3
  <1>. QED BY <1>1, <1>2, SMT

LEMMA Scale ==
  ASSUME NEW a \in Int, NEW b \in Int, NEW c \in Nat, a <= b
  PROVE  a * c <= b * c /\ c * a <= c * b
  BY SMT

LEMMA DivBounds ==
  ASSUME NEW a \in Nat, NEW d \in Nat \ {0}
  PROVE  a \div d \in Nat /\ (a \div d) * d <= a /\ a < (a \div d) * d + d
  BY SMT

(* A quotient truncated towards 0 is less than one away from the exact one,*)
(* and on the side of 0.                                                   *)
LEMMA QuotientBounds ==
  ASSUME NEW n \in Int, NEW d \in Nat \ {0}
  PROVE  LET q == Quotient(n, d)
         IN  /\ q \in Int
             /\ n >= 0 => q * d <= n /\ n < q * d + d
             /\ n <= 0 => n <= q * d /\ q * d - d < n
  <1>. DEFINE a == AbsUnsigned(n)
              w == a \div d
              q == Quotient(n, d)
  <1>1. a \in Nat /\ AbsUnsigned(d) = d /\ d > 0
    BY SMT DEF AbsUnsigned
  <1>2. w \in Nat /\ w * d <= a /\ a < w * d + d
    BY <1>1, DivBounds
  <1>3. (n >= 0 => q = w /\ a = n) /\ (n < 0 => q = -w /\ a = -n)
    BY <1>1, SMT DEF Quotient, AbsUnsigned
  <1>. HIDE DEF q, a, w
  <1>4. w * d \in Nat /\ (-w) * d = -(w * d)
    BY <1>2, SMT
  <1>5. CASE n > 0
    <2>1. q \in Int /\ q * d <= n /\ n < q * d + d
      BY <1>2, <1>3, <1>5
    <2>. QED BY <2>1, <1>5 DEF q
  <1>6. CASE n < 0
    <2>1. q \in Int /\ n <= q * d /\ q * d - d < n
      BY <1>2, <1>3, <1>4, <1>6, SMT
    <2>. QED BY <2>1, <1>6 DEF q
  <1>7. CASE n = 0
    <2>1. w * d = 0 /\ q * d = w * d /\ q \in Int
      BY <1>2, <1>3, <1>4, <1>7
    <2>. QED BY <2>1, <1>7 DEF q
  <1>. QED BY <1>5, <1>6, <1>7, SMT

(* A quotient is within a limit exactly if the dividend is below the next. *)
LEMMA QuotientWithin ==
  ASSUME NEW n \in Int, NEW d \in Nat \ {0}, NEW m \in Nat
  PROVE  AbsUnsigned(Quotient(n, d)) <= m <=> AbsUnsigned(n) < (m + 1) * d
  <1>. DEFINE q == Quotient(n, d)
  <1>1. /\ q \in Int
        /\ n >= 0 => q * d <= n /\ n < q * d + d
        /\ n <= 0 => n <= q * d /\ q * d - d < n
    BY QuotientBounds
  <1>. HIDE DEF q
  <1>2. /\ m * d \in Nat /\ (m + 1) * d = m * d + d /\ (m + 1) * d \in Nat
        /\ (-m) * d = -(m * d) /\ (-(m + 1)) * d = -((m + 1) * d)
        /\ q * d \in Int
    BY <1>1, SMT
  <1>3. ASSUME AbsUnsigned(q) <= m PROVE AbsUnsigned(n) < (m + 1) * d
    <2>1. -m <= q /\ q <= m /\ -m \in Int
      BY <1>1, <1>3, AbsAtMost
    <2>2. q * d <= m * d /\ (-m) * d <= q * d
      BY <1>1, <2>1, Scale
    <2>3. -((m + 1) * d) < n /\ n < (m + 1) * d
      BY <1>1, <1>2, <2>2, SMT
    <2>. QED BY <1>2, <2>3, AbsBelow
  <1>4. ASSUME AbsUnsigned(n) < (m + 1) * d PROVE AbsUnsigned(q) <= m
    <2>1. -((m + 1) * d) < n /\ n < (m + 1) * d
      BY <1>2, <1>4, AbsBelow
    <2>2. q < m + 1
      <3>1. SUFFICES ASSUME m + 1 <= q PROVE FALSE
        BY <1>1, SMT
      <3>2. (m + 1) * d <= q * d
        BY <1>1, <3>1, Scale
      <3>. QED BY <1>1, <1>2, <2>1, <3>2, SMT
    <2>3. -(m + 1) < q
      <3>1. SUFFICES ASSUME q <= -(m + 1) PROVE FALSE
        BY <1>1, SMT
      <3>2. q * d <= (-(m + 1)) * d
        BY <1>1, <3>1, Scale
      <3>. QED BY <1>1, <1>2, <2>1, <3>2, SMT
    <2>4. -m <= q /\ q <= m
      BY <1>1, <2>2, <2>3, SMT
    <2>. QED BY <1>1, <2>4, AbsAtMost
  <1>. QED BY <1>3, <1>4 DEF q

(* A dividend is its quotient times the divisor, and a rest.               *)
LEMMA Rest ==
  ASSUME NEW n \in Int, NEW d \in Nat \ {0}
  PROVE  /\ Quotient(n, d) \in Int
         /\ \E rest \in Int : /\ n = Quotient(n, d) * d + rest
                              /\ 1 - d <= rest /\ rest <= d - 1
  <1>. DEFINE q == Quotient(n, d)
  <1>1. /\ q \in Int
        /\ n >= 0 => q * d <= n /\ n < q * d + d
        /\ n <= 0 => n <= q * d /\ q * d - d < n
    BY QuotientBounds
  <1>. HIDE DEF q
  <1>2. q * d \in Int
    BY <1>1, SMT
  <1>3. n - q * d \in Int /\ n = q * d + (n - q * d)
        /\ 1 - d <= n - q * d /\ n - q * d <= d - 1
    BY <1>1, <1>2, SMT
  <1>4. q \in Int /\ \E rest \in Int : n = q * d + rest /\ 1 - d <= rest /\ rest <= d - 1
    BY <1>1, <1>3
  <1>. QED BY <1>4 DEF q

(* Two spans between bounded ages differ by at most the bound.             *)
LEMMA AgesMatch ==
  ASSUME NEW p \in Nat, NEW u \in Nat, NEW q \in Nat, NEW v \in Nat, NEW m \in Nat,
         0 <= p - u, p - u <= m, 0 <= q - v, q - v <= m
  PROVE  AbsUnsigned((q - p) - (v - u)) <= m
  BY SMT DEF AbsUnsigned

(* Two quotients that differ by at most m come from fractions that differ  *)
(* by less than m + 2.                                                     *)
LEMMA QuotientsClose ==
  ASSUME NEW n1 \in Int, NEW d1 \in Nat \ {0}, NEW n2 \in Int, NEW d2 \in Nat \ {0},
         NEW m \in Nat, AbsUnsigned(Quotient(n1, d1) - Quotient(n2, d2)) <= m
  PROVE  AbsUnsigned(n1 * d2 - n2 * d1) < (m + 2) * (d1 * d2)
  <1>. DEFINE q1 == Quotient(n1, d1)
              q2 == Quotient(n2, d2)
              dd == d1 * d2
  <1>1. q1 \in Int /\ q2 \in Int
    BY Rest
  <1>2. PICK r1 \in Int : n1 = q1 * d1 + r1 /\ 1 - d1 <= r1 /\ r1 <= d1 - 1
    BY Rest
  <1>3. PICK r2 \in Int : n2 = q2 * d2 + r2 /\ 1 - d2 <= r2 /\ r2 <= d2 - 1
    BY Rest
  <1>4. -m <= q1 - q2 /\ q1 - q2 <= m
    BY <1>1, AbsAtMost
  <1>. HIDE DEF q1, q2
  <1>5. n1 * d2 = q1 * dd + r1 * d2 /\ n2 * d1 = q2 * dd + r2 * d1
    BY <1>1, <1>2, <1>3, SMT
  <1>6. dd \in Nat \ {0}
    BY SMT
  <1>7. (1 - d1) * d2 <= r1 * d2 /\ r1 * d2 <= (d1 - 1) * d2
    BY <1>2, Scale
  <1>8. (1 - d2) * d1 <= r2 * d1 /\ r2 * d1 <= (d2 - 1) * d1
    BY <1>3, Scale
  <1>9. /\ (1 - d1) * d2 = d2 - dd /\ (d1 - 1) * d2 = dd - d2
        /\ (1 - d2) * d1 = d1 - dd /\ (d2 - 1) * d1 = dd - d1
    BY SMT
  <1>. HIDE DEF dd
  <1>10. (-m) * dd <= (q1 - q2) * dd /\ (q1 - q2) * dd <= m * dd
    BY <1>1, <1>4, <1>6, Scale
  <1>11. /\ (q1 - q2) * dd = q1 * dd - q2 * dd /\ q1 * dd \in Int /\ q2 * dd \in Int
         /\ (-m) * dd = -(m * dd) /\ m * dd \in Nat
         /\ (m + 2) * dd = m * dd + dd + dd /\ (m + 2) * dd \in Nat
         /\ r1 * d2 \in Int /\ r2 * d1 \in Int
    BY <1>1, <1>2, <1>3, <1>6, SMT
  <1>12. /\ n1 * d2 - n2 * d1 \in Int
         /\ -((m + 2) * dd) < n1 * d2 - n2 * d1
         /\ n1 * d2 - n2 * d1 < (m + 2) * dd
    <2>. DEFINE a == q1 * dd
                b == q2 * dd
                c == r1 * d2
                e == r2 * d1
                f == m * dd
                x == n1 * d2
                y == n2 * d1
    <2>1. /\ a \in Int /\ b \in Int /\ c \in Int /\ e \in Int /\ f \in Nat /\ dd \in Nat
          /\ x = a + c /\ y = b + e
          /\ -f <= a - b /\ a - b <= f
          /\ d2 - dd <= c /\ c <= dd - d2 /\ d1 - dd <= e /\ e <= dd - d1
          /\ (m + 2) * dd = f + dd + dd
      BY <1>5, <1>6, <1>7, <1>8, <1>9, <1>10, <1>11
    <2>. HIDE DEF a, b, c, e, f, x, y
    <2>2. x - y \in Int /\ -(f + dd + dd) < x - y /\ x - y < f + dd + dd
      BY <2>1, SMT
    <2>. QED BY <2>1, <2>2 DEF x, y
  <1>. QED BY <1>11, <1>12, AbsBelow DEF dd

-----------------------------------------------------------------------------
(* The stored round is a consistent one, recent when the price was stored. *)
ComparisonInv == /\ rwaPrice \in OraclePrices
                 /\ oracleNow \in Times
                 /\ priceTimestamp \in Times
                 /\ priceTimestamp <= oracleNow
                 /\ lastSetRound \in Rounds
                 /\ lastSetRound.answer >= 0
                 /\ lastSetRound.updatedAt <= priceTimestamp
                 /\ priceTimestamp <= lastSetRound.updatedAt + MAX_CL_WINDOW

LEMMA ConstantTypes ==
  /\ OraclePrices \subseteq Int /\ Times \subseteq Nat /\ MIN_PRICE_UPDATE_WINDOW \in Nat
  /\ BPS_DENOMINATOR \in Nat \ {0} /\ MAX_CHANGE_DIFF_BPS \in Nat
  /\ MAX_ABSOLUTE_DIFF_BPS \in Nat /\ MAX_ABSOLUTE_DIFF_BPS < BPS_DENOMINATOR
  /\ MAX_CL_WINDOW \in Nat
  BY RWAOracleAssumption, ComparisonAssumption, SMT

LEMMA RoundTypes ==
  ASSUME NEW round \in Rounds
  PROVE  round.answer \in Int /\ round.updatedAt \in Nat
  <1>1. round.answer \in Answers /\ round.updatedAt \in {0} \cup Times
    BY DEF Rounds
  <1>2. Answers \subseteq Int /\ {0} \cup Times \subseteq Nat
    BY RWAOracleAssumption, ComparisonAssumption, SMT
  <1>. QED BY <1>1, <1>2

LEMMA ComparisonInitInv == ComparisonInit => ComparisonInv
  <1>. SUFFICES ASSUME ComparisonInit PROVE ComparisonInv
    OBVIOUS
  <1>1. rwaPrice \in OraclePrices
    BY ComparisonAssumption DEF ComparisonInit
  <1>2. oracleNow \in Nat
    BY ConstantTypes DEF ComparisonInit
  <1>. QED BY <1>1, <1>2, SMT DEF ComparisonInit, ComparisonInv, Consistent, IsRecent

LEMMA SetPriceInv ==
  ASSUME ComparisonInv, NEW setter, NEW newPrice \in OraclePrices, NEW round \in Rounds,
         SetPrice(setter, newPrice, round)
  PROVE  ComparisonInv'
  <1>1. oracleNow \in Nat
    BY ConstantTypes DEF ComparisonInv
  <1>. QED BY <1>1, SMT DEF SetPrice, ComparisonInv, Consistent, IsRecent

LEMMA TickInv ==
  ASSUME ComparisonInv, OracleTick, UNCHANGED lastSetRound
  PROVE  ComparisonInv'
  <1>1. PICK time \in Times : time >= oracleNow /\ oracleNow' = time
    BY DEF OracleTick
  <1>2. oracleNow \in Nat /\ priceTimestamp \in Nat /\ time \in Nat
    BY ConstantTypes DEF ComparisonInv
  <1>3. priceTimestamp <= time
    BY <1>1, <1>2, SMT DEF ComparisonInv
  <1>. QED BY <1>1, <1>3 DEF OracleTick, ComparisonInv

LEMMA ComparisonNextInv ==
  ComparisonInv /\ [ComparisonNext]_comparisonVars => ComparisonInv'
  <1>1. ASSUME ComparisonInv, UNCHANGED comparisonVars PROVE ComparisonInv'
    BY <1>1 DEF comparisonVars, oracleVars, ComparisonInv
  <1>. QED BY <1>1, SetPriceInv, TickInv DEF ComparisonNext

LEMMA ComparisonAlwaysInv == ComparisonSpec => []ComparisonInv
  BY ComparisonInitInv, ComparisonNextInv, PTL DEF ComparisonSpec

-----------------------------------------------------------------------------
(* A price is only ever replaced if it is positive: from a negative one,   *)
(* every positive price is a change beyond the absolute limit.             *)
LEMMA SetPriceFromPositive ==
  ASSUME ComparisonInv, NEW setter, NEW newPrice \in OraclePrices, NEW round \in Rounds,
         SetPrice(setter, newPrice, round)
  PROVE  /\ rwaPrice \in Nat \ {0} /\ newPrice \in Nat \ {0}
         /\ lastSetRound.answer \in Nat \ {0} /\ round.answer \in Nat
  <1>. DEFINE n == (newPrice - rwaPrice) * BPS_DENOMINATOR
              m == AbsUnsigned(rwaPrice)
  <1>1. rwaPrice \in Int /\ newPrice \in Int /\ newPrice > 0 /\ rwaPrice # 0
    BY ConstantTypes DEF ComparisonInv, SetPrice, Positive, Divides
  <1>2. ASSUME rwaPrice < 0 PROVE FALSE
    <2>1. m = -rwaPrice /\ m \in Nat \ {0} /\ newPrice - rwaPrice \in Nat
          /\ m <= newPrice - rwaPrice
      BY <1>1, <1>2, SMT DEF AbsUnsigned
    <2>. HIDE DEF m
    <2>2. n \in Nat /\ m * BPS_DENOMINATOR <= n
      BY <2>1, ConstantTypes, Scale, SMT
    <2>3. AbsUnsigned(n) = n
      BY <2>2, SMT DEF AbsUnsigned
    <2>. DEFINE w == n \div m
    <2>4. w \in Nat /\ n < w * m + m
      BY <2>1, <2>2, DivBounds
    <2>5. AbsUnsigned(Quotient(n, rwaPrice)) = w
      <3>1. Quotient(n, rwaPrice) = w \/ Quotient(n, rwaPrice) = -w
        BY <1>1, <2>3 DEF Quotient, m
      <3>. HIDE DEF w
      <3>. QED BY <2>4, <3>1, SMT DEF AbsUnsigned
    <2>6. w <= MAX_ABSOLUTE_DIFF_BPS
      BY <2>5 DEF SetPrice, PriceChangeBps
    <2>. HIDE DEF w, n
    <2>7. w + 1 \in Int /\ BPS_DENOMINATOR \in Int /\ w + 1 <= BPS_DENOMINATOR
      BY <2>4, <2>6, ConstantTypes, SMT
    <2>8. (w + 1) * m <= BPS_DENOMINATOR * m
      BY <2>1, <2>7, Scale
    <2>9. (w + 1) * m = w * m + m /\ BPS_DENOMINATOR * m = m * BPS_DENOMINATOR
          /\ w * m \in Nat /\ m * BPS_DENOMINATOR \in Nat
      BY <2>1, <2>4, ConstantTypes, SMT
    <2>. QED BY <2>1, <2>2, <2>4, <2>8, <2>9, SMT
  <1>3. lastSetRound.answer \in Int /\ lastSetRound.answer >= 0 /\ lastSetRound.answer # 0
    BY RoundTypes DEF ComparisonInv, SetPrice, Divides
  <1>4. round.answer \in Int /\ round.answer >= 0
    BY RoundTypes DEF SetPrice, Consistent, Divides
  <1>. QED BY <1>1, <1>2, <1>3, <1>4, SMT

(***************************************************************************)
(* Once its price is not positive, or its round answers 0, the oracle is   *)
(* never set again.                                                        *)
(***************************************************************************)
THEOREM ZeroEndsTheOracle == ComparisonSpec => ZeroIsFinal
  <1>. DEFINE Final == rwaPrice <= 0 \/ lastSetRound.answer = 0
                         => UNCHANGED <<rwaPrice, priceTimestamp, lastSetRound>>
  <1>1. ASSUME ComparisonInv, NEW setter \in Setters, NEW newPrice \in OraclePrices,
               NEW round \in Rounds, SetPrice(setter, newPrice, round)
        PROVE  Final
    <2>1. rwaPrice \in Nat \ {0} /\ lastSetRound.answer # 0
      BY <1>1, SetPriceFromPositive
    <2>. QED BY <2>1, SMT
  <1>2. ComparisonInv /\ [ComparisonNext]_comparisonVars => [Final]_comparisonVars
    BY <1>1 DEF ComparisonNext, OracleTick
  <1>. QED BY <1>2, ComparisonAlwaysInv, PTL DEF ComparisonSpec, ZeroIsFinal

(***************************************************************************)
(* The change of the price follows that of the feed, as exact fractions.   *)
(***************************************************************************)
THEOREM ChangesFollow == ComparisonSpec => ChangesFollowChainlink
  <1>. DEFINE before    == lastSetRound.answer
              saneBelow == MAX_ABSOLUTE_DIFF_BPS + MAX_CHANGE_DIFF_BPS + 1
              Follows   ==
                LET change   == rwaPrice' - rwaPrice
                    clChange == lastSetRound'.answer - before
                IN  /\ AbsUnsigned(change) * BPS_DENOMINATOR
                         < (MAX_ABSOLUTE_DIFF_BPS + 1) * rwaPrice
                    /\ AbsUnsigned(clChange) * BPS_DENOMINATOR < saneBelow * before =>
                         AbsUnsigned(change * before - clChange * rwaPrice) * BPS_DENOMINATOR
                           < (MAX_CHANGE_DIFF_BPS + 2) * rwaPrice * before
  <1>1. ASSUME ComparisonInv, NEW setter \in Setters, NEW newPrice \in OraclePrices,
               NEW round \in Rounds, SetPrice(setter, newPrice, round)
        PROVE  Follows
    <2>. DEFINE c  == newPrice - rwaPrice
                k  == round.answer - before
                n1 == c * BPS_DENOMINATOR
                n2 == k * BPS_DENOMINATOR
                D  == BPS_DENOMINATOR
    <2>1. /\ rwaPrice \in Nat \ {0} /\ newPrice \in Nat
          /\ before \in Nat \ {0} /\ round.answer \in Nat
          /\ rwaPrice' = newPrice /\ lastSetRound' = round
      BY <1>1, SetPriceFromPositive DEF SetPrice
    <2>2. c \in Int /\ k \in Int /\ n1 \in Int /\ n2 \in Int /\ D \in Nat \ {0}
      BY <2>1, ConstantTypes, SMT
    <2>3. /\ AbsUnsigned(Quotient(n1, rwaPrice)) <= MAX_ABSOLUTE_DIFF_BPS
          /\ AbsUnsigned(Quotient(n2, before)) <= MAX_ABSOLUTE_DIFF_BPS + MAX_CHANGE_DIFF_BPS
               => AbsUnsigned(Quotient(n1, rwaPrice) - Quotient(n2, before))
                    <= MAX_CHANGE_DIFF_BPS
      BY <1>1 DEF SetPrice, PriceChangeBps, IsSane
    <2>. HIDE DEF c, k, n1, n2, before, D
    <2>4. /\ AbsUnsigned(c) * D = AbsUnsigned(n1)
          /\ AbsUnsigned(k) * D = AbsUnsigned(n2)
      BY <2>2, AbsProduct DEF n1, n2, D
    <2>5. AbsUnsigned(c) * D < (MAX_ABSOLUTE_DIFF_BPS + 1) * rwaPrice
      BY <2>1, <2>2, <2>3, <2>4, ConstantTypes, QuotientWithin
    <2>6. ASSUME AbsUnsigned(k) * D < saneBelow * before
          PROVE  AbsUnsigned(c * before - k * rwaPrice) * D
                   < (MAX_CHANGE_DIFF_BPS + 2) * rwaPrice * before
      <3>1. MAX_ABSOLUTE_DIFF_BPS + MAX_CHANGE_DIFF_BPS \in Nat
        BY ConstantTypes, SMT
      <3>2. AbsUnsigned(Quotient(n2, before)) <= MAX_ABSOLUTE_DIFF_BPS + MAX_CHANGE_DIFF_BPS
        BY <2>1, <2>2, <2>4, <2>6, <3>1, QuotientWithin
      <3>3. AbsUnsigned(n1 * before - n2 * rwaPrice)
              < (MAX_CHANGE_DIFF_BPS + 2) * (rwaPrice * before)
        BY <2>1, <2>2, <2>3, <3>2, ConstantTypes, QuotientsClose
      <3>4. /\ n1 * before - n2 * rwaPrice = (c * before - k * rwaPrice) * D
            /\ c * before - k * rwaPrice \in Int
        BY <2>1, <2>2, SMT DEF n1, n2, D
      <3>5. AbsUnsigned(c * before - k * rwaPrice) * D
              = AbsUnsigned((c * before - k * rwaPrice) * D)
        BY <2>2, <3>4, AbsProduct
      <3>6. (MAX_CHANGE_DIFF_BPS + 2) * rwaPrice * before
              = (MAX_CHANGE_DIFF_BPS + 2) * (rwaPrice * before)
        BY <2>1, ConstantTypes, SMT
      <3>. QED BY <3>3, <3>4, <3>5, <3>6
    <2>. QED BY <2>1, <2>5, <2>6 DEF c, k, D, before
  <1>2. ComparisonInv /\ [ComparisonNext]_comparisonVars
          => [priceTimestamp' # priceTimestamp => Follows]_comparisonVars
    BY <1>1 DEF ComparisonNext, OracleTick
  <1>. QED BY <1>2, ComparisonAlwaysInv, PTL DEF ComparisonSpec, ChangesFollowChainlink

(***************************************************************************)
(* The two changes compared are of about the same period.                  *)
(***************************************************************************)
THEOREM PeriodsMatch == ComparisonSpec => ComparedPeriodsMatch
  <1>. DEFINE p == priceTimestamp
              u == lastSetRound.updatedAt
              Aged  == p \in Nat /\ u \in Nat /\ 0 <= p - u /\ p - u <= MAX_CL_WINDOW
              Match == AbsUnsigned((priceTimestamp' - priceTimestamp)
                         - (lastSetRound'.updatedAt - lastSetRound.updatedAt)) <= MAX_CL_WINDOW
  <1>1. ComparisonInv => Aged
    <2>1. ComparisonInv => p \in Nat /\ u \in Nat
      BY ConstantTypes, RoundTypes DEF ComparisonInv
    <2>. QED BY <2>1, ConstantTypes, SMT DEF ComparisonInv
  <1>2. ComparisonInv' => Aged'
    BY <1>1, PTL
  <1>3. ASSUME Aged, Aged' PROVE Match
    <2>1. /\ priceTimestamp \in Nat /\ lastSetRound.updatedAt \in Nat
          /\ 0 <= priceTimestamp - lastSetRound.updatedAt
          /\ priceTimestamp - lastSetRound.updatedAt <= MAX_CL_WINDOW
      BY <1>3
    <2>2. /\ priceTimestamp' \in Nat /\ lastSetRound'.updatedAt \in Nat
          /\ 0 <= priceTimestamp' - lastSetRound'.updatedAt
          /\ priceTimestamp' - lastSetRound'.updatedAt <= MAX_CL_WINDOW
      BY <1>3
    <2>. QED BY <2>1, <2>2, ConstantTypes, AgesMatch
  <1>4. ComparisonInv /\ [ComparisonNext]_comparisonVars => [Match]_comparisonVars
    BY <1>1, <1>2, <1>3, ComparisonNextInv
  <1>. QED BY <1>4, ComparisonAlwaysInv, PTL DEF ComparisonSpec, ComparedPeriodsMatch

(***************************************************************************)
(* Deployed with a positive price, the oracle keeps the promises of        *)
(* IRWAOracleSetter.                                                       *)
(***************************************************************************)
THEOREM ComparisonImplementsOracle ==
  ASSUME InitialPrices \subseteq Nat \ {0}
  PROVE  ComparisonSpec => KeepsOraclePromises
  <1>1. ComparisonInit => OracleInit
    <2>1. ComparisonInit => ComparisonInv /\ rwaPrice \in Nat \ {0}
      BY ComparisonInitInv DEF ComparisonInit
    <2>. QED BY <2>1 DEF OracleInit, OracleTypeOK, ComparisonInv
  <1>2. ASSUME ComparisonInv, NEW setter \in Setters, NEW newPrice \in OraclePrices,
               NEW round \in Rounds, SetPrice(setter, newPrice, round)
        PROVE  OracleNext
    BY <1>2 DEF SetPrice, OracleNext, SetOraclePrice, ValidOraclePrice, Positive, WindowPassed,
                UpdateWindowPassed
  <1>3. ComparisonInv /\ [ComparisonNext]_comparisonVars => [OracleNext]_oracleVars
    BY <1>2 DEF ComparisonNext, OracleNext, comparisonVars
  <1>. QED BY <1>1, <1>3, ComparisonAlwaysInv, PTL
           DEF ComparisonSpec, KeepsOraclePromises, OracleSpec
=============================================================================
