--------------------------- MODULE RateCheckProofs ---------------------------
(* Theorems about RWAOracleRateCheck, for every limit, window and price.   *)
EXTENDS RWAOracleRateCheck, NaturalsInduction, WellFoundedInduction, TLAPS

(* The price stays a positive one that a setter may submit, set no later   *)
(* than now.                                                               *)
LEMMA RateCheckInitTyped == RateCheckInit => OracleTypeOK
  BY RWAOracleAssumption, RateCheckAssumption, SMT DEF RateCheckInit, OracleTypeOK

LEMMA SetPriceIsOracleStep ==
  ASSUME OracleTypeOK, NEW setter \in Setters, NEW newPrice \in OraclePrices,
         SetPrice(setter, newPrice)
  PROVE  SetOraclePrice(setter, newPrice)
  <1>1. oracleNow \in Nat /\ priceTimestamp \in Nat /\ MIN_PRICE_UPDATE_WINDOW \in Nat
    BY RWAOracleAssumption DEF OracleTypeOK
  <1>2. WindowPassed
    BY <1>1, SMT DEF SetPrice, UpdateWindowPassed, WindowPassed
  <1>. QED BY <1>2 DEF SetPrice, SetOraclePrice, ValidOraclePrice

LEMMA OracleNextTyped == OracleTypeOK /\ [OracleNext]_oracleVars => OracleTypeOK'
  <1>. SUFFICES ASSUME OracleTypeOK, [OracleNext]_oracleVars PROVE OracleTypeOK'
    OBVIOUS
  <1>1. ASSUME NEW setter \in Setters, NEW newPrice \in OraclePrices,
               SetOraclePrice(setter, newPrice)
        PROVE  OracleTypeOK'
    BY <1>1, RWAOracleAssumption, SMT
       DEF SetOraclePrice, ValidOraclePrice, OracleTypeOK
  <1>2. CASE OracleTick
    BY <1>2, RWAOracleAssumption, SMT DEF OracleTick, OracleTypeOK
  <1>3. CASE UNCHANGED oracleVars
    BY <1>3 DEF oracleVars, OracleTypeOK
  <1>. QED BY <1>1, <1>2, <1>3 DEF OracleNext

LEMMA RateCheckIsOracleStep ==
  OracleTypeOK /\ [RateCheckNext]_oracleVars => [OracleNext]_oracleVars
  BY SetPriceIsOracleStep DEF RateCheckNext, OracleNext

LEMMA RateCheckTyped == RateCheckSpec => []OracleTypeOK
  BY RateCheckInitTyped, RateCheckIsOracleStep, OracleNextTyped, PTL DEF RateCheckSpec

(***************************************************************************)
(* RWAOracleRateCheck keeps the promises of IRWAOracleSetter.              *)
(***************************************************************************)
THEOREM RateCheckImplementsOracle == RateCheckSpec => KeepsOraclePromises
  <1>1. RateCheckInit => OracleInit
    BY RateCheckInitTyped DEF OracleInit
  <1>. QED BY <1>1, RateCheckTyped, RateCheckIsOracleStep, PTL
           DEF RateCheckSpec, KeepsOraclePromises, OracleSpec

-----------------------------------------------------------------------------
LEMMA Scale ==
  ASSUME NEW a \in Int, NEW b \in Int, NEW c \in Nat, a <= b
  PROVE  a * c <= b * c
  BY SMT

(* A quotient rounded up is at least the exact one.                        *)
LEMMA RoundedUp ==
  ASSUME NEW a \in Nat, NEW d \in Nat \ {0}
  PROVE  LET q == (a + d - 1) \div d IN q \in Nat /\ a <= q * d
  <1>. DEFINE n == a + d - 1
              q == n \div d
  <1>1. n \in Nat
    BY SMT
  <1>. HIDE DEF n
  <1>2. q \in Nat /\ n < q * d + d
    BY <1>1, SMT
  <1>. HIDE DEF q
  <1>3. q * d \in Nat
    BY <1>2, SMT
  <1>4. a <= q * d
    BY <1>2, <1>3, SMT DEF n
  <1>. QED BY <1>2, <1>4 DEF q, n

LEMMA SetPriceIsLimited ==
  ASSUME OracleTypeOK, NEW setter \in Setters, NEW newPrice \in OraclePrices,
         SetPrice(setter, newPrice)
  PROVE  Change(rwaPrice, newPrice) * BPS_DENOMINATOR <= MAX_CHANGE_DIFF_BPS * rwaPrice
  <1>. DEFINE change == Change(rwaPrice, newPrice)
              bps    == PriceChangeBps(rwaPrice, newPrice)
  <1>1. /\ rwaPrice \in Nat \ {0} /\ newPrice \in Nat
        /\ BPS_DENOMINATOR \in Nat /\ MAX_CHANGE_DIFF_BPS \in Nat
    BY RWAOracleAssumption, RateCheckAssumption, SMT DEF OracleTypeOK, SetPrice
  <1>2. change \in Nat
    BY <1>1, SMT DEF Change
  <1>. HIDE DEF change
  <1>3. change * BPS_DENOMINATOR \in Nat
    BY <1>1, <1>2, SMT
  <1>4. bps \in Nat /\ change * BPS_DENOMINATOR <= bps * rwaPrice
    BY <1>1, <1>3, RoundedUp DEF PriceChangeBps, mulDivUp, change
  <1>5. bps <= MAX_CHANGE_DIFF_BPS
    BY DEF SetPrice
  <1>. HIDE DEF bps
  <1>6. bps * rwaPrice <= MAX_CHANGE_DIFF_BPS * rwaPrice
    BY <1>1, <1>4, <1>5, Scale
  <1>7. bps * rwaPrice \in Nat /\ MAX_CHANGE_DIFF_BPS * rwaPrice \in Nat
    BY <1>1, <1>4, SMT
  <1>8. change * BPS_DENOMINATOR <= MAX_CHANGE_DIFF_BPS * rwaPrice
    BY <1>3, <1>4, <1>6, <1>7, SMT
  <1>. QED BY <1>8 DEF change

(***************************************************************************)
(* Two prices in a row differ by at most the limit, as an exact fraction:  *)
(* rounding the change up to basis points lets nothing through.            *)
(***************************************************************************)
THEOREM ChangesWithinLimit == RateCheckSpec => ChangesAreLimited
  <1>. DEFINE Limited == Change(rwaPrice, rwaPrice') * BPS_DENOMINATOR
                           <= MAX_CHANGE_DIFF_BPS * rwaPrice
  <1>1. ASSUME OracleTypeOK, NEW setter \in Setters, NEW newPrice \in OraclePrices,
               SetPrice(setter, newPrice)
        PROVE  Limited
    BY <1>1, SetPriceIsLimited DEF SetPrice
  <1>2. ASSUME OracleTypeOK, OracleTick PROVE [Limited]_oracleVars
    <2>1. rwaPrice' = rwaPrice /\ rwaPrice \in Nat
      BY <1>2 DEF OracleTick, OracleTypeOK
    <2>2. Change(rwaPrice, rwaPrice') = 0
      BY <2>1, SMT DEF Change
    <2>3. MAX_CHANGE_DIFF_BPS \in Nat /\ BPS_DENOMINATOR \in Nat
      BY RateCheckAssumption, SMT
    <2>. QED BY <2>1, <2>2, <2>3, SMT
  <1>3. OracleTypeOK /\ [RateCheckNext]_oracleVars => [Limited]_oracleVars
    BY <1>1, <1>2 DEF RateCheckNext
  <1>. QED BY <1>3, RateCheckTyped, PTL DEF RateCheckSpec, ChangesAreLimited

-----------------------------------------------------------------------------
(***************************************************************************)
(* The envelope.  Its bounds are recursive functions of the number of      *)
(* windows, which have to be shown to exist.  As in HubMathProofs, an      *)
(* induction is over the set P of the numbers for which the claim holds.   *)
(***************************************************************************)

LEMMA NatMin == ASSUME NEW T \in SUBSET Nat, T # {} PROVE \E n \in T : \A m \in T : n <= m
  <1>. DEFINE R == {p \in Nat \X Nat : p[1] < p[2]}
  <1>1. IsWellFoundedOn(R, Nat)
    BY NatLessThanWellFounded DEF OpToRel
  <1>2. \A x, y \in Nat : x < y => <<x, y>> \in R
    OBVIOUS
  <1>. HIDE DEF R
  <1>3. PICK n \in T : \A y \in T : ~ (<<y, n>> \in R)
    BY <1>1, WFMin
  <1>4. \A m \in T : n <= m
    <2>. SUFFICES ASSUME NEW m \in T PROVE n <= m
      OBVIOUS
    <2>1. m \in Nat /\ n \in Nat
      OBVIOUS
    <2>2. ~(m < n)
      BY <1>2, <1>3, <2>1
    <2>. QED BY <2>1, <2>2
  <1>. QED BY <1>4

(* Induction over the natural numbers, for a set instead of a predicate.   *)
LEMMA NatSetInduction ==
  ASSUME NEW P, 0 \in P, \A n \in Nat : n \in P => n + 1 \in P
  PROVE  Nat \subseteq P
  <1>. SUFFICES ASSUME Nat \ P # {} PROVE FALSE
    OBVIOUS
  <1>1. PICK n \in Nat \ P : \A m \in Nat \ P : n <= m
    BY NatMin
  <1>2. n # 0 /\ n - 1 \in Nat
    OBVIOUS
  <1>3. n - 1 \in P
    BY <1>1, <1>2
  <1>4. (n - 1) + 1 \in P
    BY <1>2, <1>3
  <1>. QED BY <1>4


\* The first n + 1 values of the sequence a, step[a], step[step[a]], ...
Starts(a, step, n) == {g \in [0 .. n -> Nat] : /\ g[0] = a
                                               /\ \A m \in 1 .. n : g[m] = step[g[m - 1]]}

LEMMA StartsExist ==
  ASSUME NEW a \in Nat, NEW step \in [Nat -> Nat]
  PROVE  \A n \in Nat : Starts(a, step, n) # {}
  <1>. DEFINE P == {n \in Nat : Starts(a, step, n) # {}}
  <1>1. 0 \in P
    <2>. DEFINE g == [m \in 0 .. 0 |-> a]
    <2>1. g \in Starts(a, step, 0)
      BY DEF Starts
    <2>. QED BY <2>1
  <1>2. ASSUME NEW n \in Nat, n \in P PROVE n + 1 \in P
    <2>1. PICK g : g \in Starts(a, step, n)
      BY <1>2
    <2>. DEFINE h == [m \in 0 .. n + 1 |-> IF m <= n THEN g[m] ELSE step[g[n]]]
    <2>2. g \in [0 .. n -> Nat] /\ g[0] = a /\ \A m \in 1 .. n : g[m] = step[g[m - 1]]
      BY <2>1 DEF Starts
    <2>3. h \in [0 .. n + 1 -> Nat]
      <3>1. step[g[n]] \in Nat
        BY <2>2
      <3>2. \A m \in 0 .. n + 1 : m <= n => m \in 0 .. n
        OBVIOUS
      <3>. QED BY <2>2, <3>1, <3>2
    <2>4. h[0] = a
      BY <2>2
    <2>5. ASSUME NEW m \in 1 .. n + 1 PROVE h[m] = step[h[m - 1]]
      <3>1. m \in Nat /\ m - 1 \in 0 .. n
        OBVIOUS
      <3>2. CASE m <= n
        <4>1. m \in 1 .. n /\ m \in 0 .. n + 1 /\ m - 1 \in 0 .. n + 1 /\ m - 1 <= n
          BY <3>1, <3>2
        <4>2. h[m] = g[m] /\ h[m - 1] = g[m - 1]
          BY <3>2, <4>1
        <4>. QED BY <2>2, <4>1, <4>2
      <3>3. CASE m = n + 1
        BY <3>1, <3>3
      <3>. QED BY <3>1, <3>2, <3>3
    <2>6. h \in Starts(a, step, n + 1)
      BY <2>3, <2>4, <2>5 DEF Starts
    <2>. QED BY <2>6
  <1>3. Nat \subseteq P
    <2>. HIDE DEF P
    <2>. QED BY <1>1, <1>2, NatSetInduction
  <1>. QED BY <1>3

LEMMA StartsAgree ==
  ASSUME NEW a \in Nat, NEW step \in [Nat -> Nat], NEW n \in Nat, NEW k \in Nat,
         NEW g \in Starts(a, step, n), NEW h \in Starts(a, step, k)
  PROVE  \A m \in Nat : m <= n /\ m <= k => g[m] = h[m]
  <1>. DEFINE P == {m \in Nat : m <= n /\ m <= k => g[m] = h[m]}
  <1>1. 0 \in P
    BY DEF Starts
  <1>2. ASSUME NEW m \in Nat, m \in P PROVE m + 1 \in P
    <2>. SUFFICES ASSUME m + 1 <= n, m + 1 <= k PROVE g[m + 1] = h[m + 1]
      OBVIOUS
    <2>1. g[m] = h[m]
      BY <1>2
    <2>2. m + 1 \in 1 .. n /\ m + 1 \in 1 .. k /\ (m + 1) - 1 = m
      OBVIOUS
    <2>3. g[m + 1] = step[g[m]] /\ h[m + 1] = step[h[m]]
      BY <2>2 DEF Starts
    <2>. QED BY <2>1, <2>3
  <1>3. Nat \subseteq P
    <2>. HIDE DEF P
    <2>. QED BY <1>1, <1>2, NatSetInduction
  <1>. QED BY <1>3

(* A number and a function that is iterated on it define a sequence.       *)
LEMMA SequenceExists ==
  ASSUME NEW a \in Nat, NEW step \in [Nat -> Nat]
  PROVE  \E F \in [Nat -> Nat] : F = [n \in Nat |-> IF n = 0 THEN a ELSE step[F[n - 1]]]
  <1>. DEFINE G(n) == CHOOSE g : g \in Starts(a, step, n)
              F == [n \in Nat |-> G(n)[n]]
  <1>1. \A n \in Nat : G(n) \in Starts(a, step, n)
    BY StartsExist
  <1>. HIDE DEF G
  <1>2. F \in [Nat -> Nat]
    <2>1. \A n \in Nat : G(n) \in [0 .. n -> Nat] /\ n \in 0 .. n
      BY <1>1 DEF Starts
    <2>. QED BY <2>1
  <1>3. F[0] = a
    BY <1>1 DEF Starts
  <1>4. ASSUME NEW n \in Nat, n # 0 PROVE F[n] = step[F[n - 1]]
    <2>1. n - 1 \in Nat /\ n \in 1 .. n /\ n - 1 <= n
      BY <1>4
    <2>2. G(n) \in Starts(a, step, n) /\ G(n - 1) \in Starts(a, step, n - 1)
      BY <1>1, <2>1
    <2>3. G(n)[n] = step[G(n)[n - 1]]
      BY <2>1, <2>2 DEF Starts
    <2>4. G(n)[n - 1] = G(n - 1)[n - 1]
      <3>1. \A m \in Nat : m <= n /\ m <= n - 1 => G(n)[m] = G(n - 1)[m]
        BY <2>1, <2>2, StartsAgree
      <3>. QED BY <2>1, <3>1
    <2>5. F[n] = G(n)[n]
      OBVIOUS
    <2>6. F[n - 1] = G(n - 1)[n - 1]
      BY <2>1
    <2>. HIDE DEF F
    <2>. QED BY <2>3, <2>4, <2>5, <2>6
  <1>. HIDE DEF F
  <1>5. F = [n \in Nat |-> IF n = 0 THEN a ELSE step[F[n - 1]]]
    BY <1>2, <1>3, <1>4
  <1>. QED BY <1>2, <1>5

-----------------------------------------------------------------------------
LEMMA Cancels ==
  ASSUME NEW a \in Int, NEW b \in Int, NEW c \in Nat \ {0}, a * c <= b * c
  PROVE  a <= b
  BY SMT

LEMMA DivMonotone ==
  ASSUME NEW a \in Nat, NEW b \in Nat, NEW c \in Nat \ {0}, a <= b
  PROVE  a \div c <= b \div c
  <1>1. a \div c \in Nat /\ b \div c \in Nat /\ (a \div c) * c <= a /\ b < (b \div c) * c + c
    BY SMT
  <1>2. (a \div c) * c < (b \div c + 1) * c
    BY <1>1, SMT
  <1>. QED BY <1>1, <1>2, SMT

LEMMA DivShift ==
  ASSUME NEW a \in Nat, NEW k \in Nat, NEW c \in Nat \ {0}
  PROVE  (a + k * c) \div c = a \div c + k
  BY SMT

\* The most that a price can rise or fall in one change
Step(price) == (MAX_CHANGE_DIFF_BPS * price) \div BPS_DENOMINATOR

LEMMA StepTyped ==
  ASSUME NEW price \in Nat
  PROVE  Step(price) \in 0 .. price
  <1>. DEFINE M == MAX_CHANGE_DIFF_BPS
              B == BPS_DENOMINATOR
  <1>1. M \in Nat /\ B \in Nat \ {0} /\ M <= B
    BY RateCheckAssumption, SMT
  <1>. HIDE DEF M, B
  <1>2. M * price \in Nat /\ M * price <= price * B
    BY <1>1, SMT
  <1>3. (M * price) \div B \in Nat
    BY <1>1, <1>2, SMT
  <1>4. ((M * price) \div B) * B <= M * price
    BY <1>1, <1>2, SMT
  <1>5. ((M * price) \div B) * B <= price * B
    BY <1>1, <1>2, <1>3, <1>4, SMT
  <1>6. (M * price) \div B <= price
    BY <1>1, <1>3, <1>5, Cancels
  <1>. QED BY <1>3, <1>6, SMT DEF Step, M, B

(* A higher price rises to a higher one, and falls to one not below.       *)
LEMMA StepMonotone ==
  ASSUME NEW x \in Nat, NEW y \in Nat, x <= y
  PROVE  x + Step(x) <= y + Step(y) /\ x - Step(x) <= y - Step(y)
  <1>. DEFINE M == MAX_CHANGE_DIFF_BPS
              B == BPS_DENOMINATOR
  <1>1. M \in Nat /\ B \in Nat \ {0} /\ M <= B
    BY RateCheckAssumption, SMT
  <1>2. Step(x) = (M * x) \div B /\ Step(y) = (M * y) \div B
    BY DEF Step
  <1>. HIDE DEF M, B
  <1>3. M * x \in Nat /\ M * y \in Nat /\ M * x <= M * y
    BY <1>1, SMT
  <1>4. M * y <= M * x + (y - x) * B
    <2>1. M * y = M * x + M * (y - x)
      BY <1>1, SMT
    <2>2. M * (y - x) <= (y - x) * B /\ M * (y - x) \in Nat /\ (y - x) * B \in Nat
      <3>1. y - x \in Nat
        BY SMT
      <3>2. M * (y - x) <= B * (y - x)
        BY <1>1, <3>1, Scale
      <3>. QED BY <1>1, <3>1, <3>2, SMT
    <2>. QED BY <1>3, <2>1, <2>2
  <1>5. (M * x) \div B <= (M * y) \div B
    BY <1>1, <1>3, DivMonotone
  <1>6. (M * y) \div B <= (M * x + (y - x) * B) \div B
    <2>1. M * x + (y - x) * B \in Nat
      BY <1>1, <1>3, SMT
    <2>. QED BY <1>1, <1>3, <1>4, <2>1, DivMonotone
  <1>7. (M * x + (y - x) * B) \div B = (M * x) \div B + (y - x)
    <2>. DEFINE d == y - x
    <2>1. d \in Nat
      BY SMT
    <2>. HIDE DEF d
    <2>2. (M * x + d * B) \div B = (M * x) \div B + d
      BY <1>1, <1>3, <2>1, DivShift
    <2>. QED BY <2>2 DEF d
  <1>8. (M * x) \div B \in Nat /\ (M * y) \div B \in Nat
    BY <1>1, <1>3, SMT
  <1>. QED BY <1>2, <1>5, <1>6, <1>7, <1>8

\* What the two bounds of the envelope are the sequences of
Rises(F) == F = [n \in Nat |-> IF n = 0 THEN InitialPrice ELSE F[n - 1] + Step(F[n - 1])]
Falls(F) == F = [n \in Nat |-> IF n = 0 THEN InitialPrice ELSE F[n - 1] - Step(F[n - 1])]

LEMMA EnvelopeExists == (\E F : Rises(F)) /\ (\E F : Falls(F))
  <1>. DEFINE up   == [x \in Nat |-> x + Step(x)]
              down == [x \in Nat |-> x - Step(x)]
  <1>1. up \in [Nat -> Nat] /\ down \in [Nat -> Nat] /\ InitialPrice \in Nat
    <2>1. \A x \in Nat : x + Step(x) \in Nat /\ x - Step(x) \in Nat
      BY StepTyped, SMT
    <2>. QED BY <2>1, RateCheckAssumption
  <1>2. \E F : Rises(F)
    <2>. HIDE DEF up
    <2>1. PICK F \in [Nat -> Nat] :
                 F = [n \in Nat |-> IF n = 0 THEN InitialPrice ELSE up[F[n - 1]]]
      BY <1>1, SequenceExists
    <2>2. \A n \in Nat \ {0} : up[F[n - 1]] = F[n - 1] + Step(F[n - 1])
      BY DEF up
    <2>3. Rises(F)
      BY <2>1, <2>2 DEF Rises
    <2>. QED BY <2>3
  <1>3. \E F : Falls(F)
    <2>. HIDE DEF down
    <2>1. PICK F \in [Nat -> Nat] :
                 F = [n \in Nat |-> IF n = 0 THEN InitialPrice ELSE down[F[n - 1]]]
      BY <1>1, SequenceExists
    <2>2. \A n \in Nat \ {0} : down[F[n - 1]] = F[n - 1] - Step(F[n - 1])
      BY DEF down
    <2>3. Falls(F)
      BY <2>1, <2>2 DEF Falls
    <2>. QED BY <2>3
  <1>. QED BY <1>2, <1>3

LEMMA EnvelopeUnfolds ==
  /\ highest[0] = InitialPrice /\ lowest[0] = InitialPrice
  /\ \A n \in Nat : /\ highest[n + 1] = highest[n] + Step(highest[n])
                    /\ lowest[n + 1] = lowest[n] - Step(lowest[n])
  <1>1. Rises(highest)
    <2>1. highest = CHOOSE F : Rises(F)
      BY DEF highest, Rises, Step
    <2>. QED BY <2>1, EnvelopeExists
  <1>2. Falls(lowest)
    <2>1. lowest = CHOOSE F : Falls(F)
      BY DEF lowest, Falls, Step
    <2>. QED BY <2>1, EnvelopeExists
  <1>3. \A n \in Nat : n + 1 \in Nat /\ n + 1 # 0 /\ (n + 1) - 1 = n
    OBVIOUS
  <1>4. ASSUME NEW F, Rises(F)
        PROVE  F[0] = InitialPrice /\ \A n \in Nat : F[n + 1] = F[n] + Step(F[n])
    <2>. DEFINE R(n) == IF n = 0 THEN InitialPrice ELSE F[n - 1] + Step(F[n - 1])
    <2>1. F = [n \in Nat |-> R(n)]
      BY <1>4 DEF Rises
    <2>. HIDE DEF R
    <2>2. \A n \in Nat : F[n] = R(n)
      BY <2>1
    <2>. QED BY <1>3, <2>2 DEF R
  <1>5. ASSUME NEW F, Falls(F)
        PROVE  F[0] = InitialPrice /\ \A n \in Nat : F[n + 1] = F[n] - Step(F[n])
    <2>. DEFINE R(n) == IF n = 0 THEN InitialPrice ELSE F[n - 1] - Step(F[n - 1])
    <2>1. F = [n \in Nat |-> R(n)]
      BY <1>5 DEF Falls
    <2>. HIDE DEF R
    <2>2. \A n \in Nat : F[n] = R(n)
      BY <2>1
    <2>. QED BY <1>3, <2>2 DEF R
  <1>. QED BY <1>1, <1>2, <1>4, <1>5

LEMMA EnvelopeTyped == \A n \in Nat : highest[n] \in Nat /\ lowest[n] \in Nat
  <1>. DEFINE P == {n \in Nat : highest[n] \in Nat /\ lowest[n] \in Nat}
  <1>1. 0 \in P
    BY EnvelopeUnfolds, RateCheckAssumption
  <1>2. ASSUME NEW n \in Nat, n \in P PROVE n + 1 \in P
    <2>1. Step(highest[n]) \in 0 .. highest[n] /\ Step(lowest[n]) \in 0 .. lowest[n]
      BY <1>2, StepTyped
    <2>. QED BY <1>2, <2>1, EnvelopeUnfolds
  <1>3. Nat \subseteq P
    <2>. HIDE DEF P
    <2>. QED BY <1>1, <1>2, NatSetInduction
  <1>. QED BY <1>3

(* More windows make the envelope wider.                                   *)
LEMMA EnvelopeWidens ==
  ASSUME NEW n \in Nat
  PROVE  \A k \in Nat : highest[n] <= highest[n + k] /\ lowest[n + k] <= lowest[n]
  <1>. DEFINE P == {k \in Nat : highest[n] <= highest[n + k] /\ lowest[n + k] <= lowest[n]}
  <1>1. 0 \in P
    <2>1. n + 0 = n /\ highest[n] \in Nat /\ lowest[n] \in Nat
      BY EnvelopeTyped
    <2>. QED BY <2>1
  <1>2. ASSUME NEW k \in Nat, k \in P PROVE k + 1 \in P
    <2>. DEFINE m == n + k
    <2>1. m \in Nat /\ n + (k + 1) = m + 1
      OBVIOUS
    <2>2. highest[n] <= highest[m] /\ lowest[m] <= lowest[n]
      BY <1>2
    <2>. HIDE DEF m
    <2>3. Step(highest[m]) \in 0 .. highest[m] /\ Step(lowest[m]) \in 0 .. lowest[m]
      BY <2>1, EnvelopeTyped, StepTyped
    <2>4. /\ highest[m + 1] = highest[m] + Step(highest[m])
          /\ lowest[m + 1] = lowest[m] - Step(lowest[m])
      BY <2>1, EnvelopeUnfolds
    <2>5. /\ highest[n] \in Nat /\ highest[m] \in Nat
          /\ lowest[n] \in Nat /\ lowest[m] \in Nat
      BY <2>1, EnvelopeTyped
    <2>6. highest[n] <= highest[m + 1] /\ lowest[m + 1] <= lowest[n]
      BY <2>2, <2>3, <2>4, <2>5
    <2>. QED BY <2>1, <2>6
  <1>3. Nat \subseteq P
    <2>. HIDE DEF P
    <2>. QED BY <1>1, <1>2, NatSetInduction
  <1>. QED BY <1>3

\* The full windows from the deployment to a time
WindowsUntil(time) == (time - DeployedAt) \div MIN_PRICE_UPDATE_WINDOW

LEMMA WindowsAdvance ==
  ASSUME NEW t \in Nat, NEW u \in Nat, t >= DeployedAt, u - t >= MIN_PRICE_UPDATE_WINDOW
  PROVE  /\ WindowsUntil(t) \in Nat
         /\ \E k \in Nat : WindowsUntil(u) = (WindowsUntil(t) + 1) + k
  <1>. DEFINE W == MIN_PRICE_UPDATE_WINDOW
              a == t - DeployedAt
              b == u - DeployedAt
  <1>1. W \in Nat \ {0} /\ a \in Nat /\ b \in Nat /\ a + 1 * W <= b
    BY RWAOracleAssumption, RateCheckAssumption, SMT
  <1>2. WindowsUntil(t) = a \div W /\ WindowsUntil(u) = b \div W
    BY DEF WindowsUntil
  <1>. HIDE DEF W, a, b
  <1>3. (a + 1 * W) \div W = a \div W + 1 /\ a + 1 * W \in Nat
    <2>1. (a + 1 * W) \div W = a \div W + 1
      BY <1>1, DivShift
    <2>. QED BY <1>1, <2>1
  <1>4. a \div W + 1 <= b \div W
    BY <1>1, <1>3, DivMonotone
  <1>5. a \div W \in Nat /\ b \div W \in Nat
    BY <1>1, SMT
  <1>6. b \div W - (a \div W + 1) \in Nat
        /\ b \div W = (a \div W + 1) + (b \div W - (a \div W + 1))
    BY <1>4, <1>5
  <1>. QED BY <1>2, <1>5, <1>6

(* A limited change of a price stays within a step of it.                  *)
LEMMA ChangeWithinStep ==
  ASSUME NEW old \in Nat, NEW new \in Nat,
         Change(old, new) * BPS_DENOMINATOR <= MAX_CHANGE_DIFF_BPS * old
  PROVE  new <= old + Step(old) /\ old - Step(old) <= new
  <1>. DEFINE change == Change(old, new)
  <1>1. change \in Nat /\ new <= old + change /\ old - change <= new
    BY SMT DEF Change
  <1>. HIDE DEF change
  <1>2. BPS_DENOMINATOR \in Nat \ {0} /\ MAX_CHANGE_DIFF_BPS * old \in Nat
    BY RateCheckAssumption, SMT
  <1>3. change * BPS_DENOMINATOR \in Nat /\ (0 + change * BPS_DENOMINATOR) \div BPS_DENOMINATOR
                                              = 0 \div BPS_DENOMINATOR + change
    BY <1>1, <1>2, DivShift, SMT
  <1>4. 0 \div BPS_DENOMINATOR = 0 /\ 0 + change * BPS_DENOMINATOR = change * BPS_DENOMINATOR
    BY <1>2, <1>3, SMT
  <1>5. (change * BPS_DENOMINATOR) \div BPS_DENOMINATOR = change
    BY <1>1, <1>3, <1>4
  <1>6. change <= Step(old)
    BY <1>2, <1>3, <1>5, DivMonotone DEF change, Step
  <1>7. Step(old) \in Nat
    BY StepTyped, SMT
  <1>. QED BY <1>1, <1>6, <1>7

\* A price is never older than the oracle.
EnvelopeInv == OracleTypeOK /\ priceTimestamp >= DeployedAt /\ PriceWithinEnvelope

LEMMA SetPriceStaysWithin ==
  ASSUME EnvelopeInv, NEW setter \in Setters, NEW newPrice \in OraclePrices,
         SetPrice(setter, newPrice)
  PROVE  priceTimestamp' >= DeployedAt /\ PriceWithinEnvelope'
  <1>. DEFINE n == WindowsUntil(priceTimestamp)
              h == highest[n]
              l == lowest[n]
  <1>1. /\ rwaPrice \in Nat /\ newPrice \in Nat /\ rwaPrice' = newPrice
        /\ priceTimestamp \in Nat /\ oracleNow \in Nat /\ priceTimestamp' = oracleNow
        /\ oracleNow - priceTimestamp >= MIN_PRICE_UPDATE_WINDOW
        /\ priceTimestamp >= DeployedAt
    BY RWAOracleAssumption, SMT DEF EnvelopeInv, OracleTypeOK, SetPrice, UpdateWindowPassed
  <1>2. DeployedAt \in Nat /\ MIN_PRICE_UPDATE_WINDOW \in Nat
    BY RWAOracleAssumption, RateCheckAssumption
  <1>3. PICK k \in Nat : n \in Nat /\ WindowsUntil(oracleNow) = (n + 1) + k
    BY <1>1, WindowsAdvance
  <1>4. rwaPrice \in l .. h
    BY DEF EnvelopeInv, PriceWithinEnvelope, WindowsUntil
  <1>5. newPrice <= rwaPrice + Step(rwaPrice) /\ rwaPrice - Step(rwaPrice) <= newPrice
    BY <1>1, SetPriceIsLimited, ChangeWithinStep DEF EnvelopeInv
  <1>. HIDE DEF n
  <1>6. l \in Nat /\ h \in Nat /\ n + 1 \in Nat
        /\ highest[n + 1] = h + Step(h) /\ lowest[n + 1] = l - Step(l)
        /\ highest[n + 1] \in Nat /\ lowest[n + 1] \in Nat
    BY <1>3, EnvelopeTyped, EnvelopeUnfolds
  <1>7. /\ highest[n + 1] <= highest[(n + 1) + k] /\ lowest[(n + 1) + k] <= lowest[n + 1]
        /\ highest[(n + 1) + k] \in Nat /\ lowest[(n + 1) + k] \in Nat
    <2>. DEFINE m == n + 1
    <2>1. m \in Nat /\ m + k \in Nat
      BY <1>3
    <2>. HIDE DEF m
    <2>2. /\ highest[m] <= highest[m + k] /\ lowest[m + k] <= lowest[m]
          /\ highest[m + k] \in Nat /\ lowest[m + k] \in Nat
      BY <2>1, EnvelopeTyped, EnvelopeWidens
    <2>. QED BY <2>2 DEF m
  <1>. HIDE DEF h, l
  <1>8. rwaPrice + Step(rwaPrice) <= h + Step(h) /\ l - Step(l) <= rwaPrice - Step(rwaPrice)
    BY <1>1, <1>4, <1>6, StepMonotone
  <1>9. /\ Step(rwaPrice) \in Nat /\ Step(h) \in Nat /\ Step(l) \in Nat
    BY <1>1, <1>6, StepTyped, SMT
  <1>10. newPrice \in lowest[(n + 1) + k] .. highest[(n + 1) + k]
    BY <1>1, <1>5, <1>6, <1>7, <1>8, <1>9
  <1>11. priceTimestamp' >= DeployedAt
    BY <1>1, <1>2
  <1>. QED BY <1>1, <1>3, <1>10, <1>11 DEF PriceWithinEnvelope, WindowsUntil

LEMMA RateCheckInitWithin == RateCheckInit => EnvelopeInv
  <1>. SUFFICES ASSUME RateCheckInit PROVE EnvelopeInv
    OBVIOUS
  <1>1. DeployedAt \in Nat /\ MIN_PRICE_UPDATE_WINDOW \in Nat \ {0} /\ InitialPrice \in Nat
    BY RWAOracleAssumption, RateCheckAssumption
  <1>2. rwaPrice = InitialPrice /\ priceTimestamp = DeployedAt
    BY DEF RateCheckInit
  <1>3. (priceTimestamp - DeployedAt) \div MIN_PRICE_UPDATE_WINDOW = 0
    BY <1>1, <1>2, SMT
  <1>. QED BY <1>1, <1>2, <1>3, EnvelopeUnfolds, RateCheckInitTyped
           DEF EnvelopeInv, PriceWithinEnvelope

(***************************************************************************)
(* However many changes, whenever made: the price stays between the bounds *)
(* compounded once per full window since the deployment.                   *)
(***************************************************************************)
THEOREM PriceStaysWithinEnvelope == RateCheckSpec => []PriceWithinEnvelope
  <1>1. EnvelopeInv /\ [RateCheckNext]_oracleVars => EnvelopeInv'
    <2>. SUFFICES ASSUME EnvelopeInv, [RateCheckNext]_oracleVars PROVE EnvelopeInv'
      OBVIOUS
    <2>1. OracleTypeOK'
      BY RateCheckIsOracleStep, OracleNextTyped DEF EnvelopeInv
    <2>2. UNCHANGED <<rwaPrice, priceTimestamp>> => EnvelopeInv'
      BY <2>1 DEF EnvelopeInv, PriceWithinEnvelope
    <2>. QED BY <2>1, <2>2, SetPriceStaysWithin
             DEF RateCheckNext, OracleTick, oracleVars, EnvelopeInv
  <1>2. EnvelopeInv => PriceWithinEnvelope
    BY DEF EnvelopeInv
  <1>. QED BY <1>1, <1>2, RateCheckInitWithin, PTL DEF RateCheckSpec
=============================================================================
