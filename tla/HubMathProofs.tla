---------------------------- MODULE HubMathProofs ----------------------------
(* Facts about the arithmetic of RWAHub, for every amount, rate and price. *)
EXTENDS HubMath, FiniteSetTheorems, TLAPS

(* Truncation: a quotient times its divisor does not exceed the dividend.  *)
LEMMA DivTruncates ==
  ASSUME NEW a \in Nat, NEW b \in Nat \ {0}
  PROVE  a \div b \in Nat /\ (a \div b) * b <= a
  BY SMT

LEMMA DivLosesLittle ==
  ASSUME NEW a \in Nat, NEW b \in Nat \ {0}
  PROVE  a <= (a \div b) * b + (b - 1)
  BY SMT

(* A factor cancels from an inequality.                                    *)
LEMMA Cancel ==
  ASSUME NEW a \in Int, NEW b \in Int, NEW c \in Nat \ {0}, a * c <= b * c
  PROVE  a <= b
  BY SMT

LEMMA Monotone ==
  ASSUME NEW a \in Nat, NEW b \in Nat, NEW c \in Nat, a <= b
  PROVE  a * c <= b * c /\ c * a <= c * b
  BY SMT

(***************************************************************************)
(* A fee of at most 100% never exceeds the amount it is taken from, so the *)
(* subtractions amount - fee of RWAHub cannot underflow.                   *)
(***************************************************************************)
THEOREM FeesWithinAmount ==
  ASSUME NEW amount \in Nat, NEW rate \in 0 .. BPS_DENOMINATOR
  PROVE  FeesAt(rate, amount) \in 0 .. amount
  <1>. DEFINE fee == FeesAt(rate, amount)
  <1>1. amount * rate \in Nat /\ BPS_DENOMINATOR \in Nat \ {0}
    BY HubMathAssumption, SMT
  <1>2. fee \in Nat /\ fee * BPS_DENOMINATOR <= amount * rate
    BY <1>1, DivTruncates DEF FeesAt
  <1>3. amount * rate <= amount * BPS_DENOMINATOR
    BY <1>1, Monotone, SMT
  <1>4. fee * BPS_DENOMINATOR <= amount * BPS_DENOMINATOR
    BY <1>1, <1>2, <1>3, SMT
  <1>. HIDE DEF fee
  <1>5. fee <= amount
    BY <1>1, <1>2, <1>4, Cancel
  <1>. QED BY <1>2, <1>5, SMT DEF fee

(* What a deposit is worth in RWA and a redemption in collateral is a      *)
(* natural number whenever the price is not 0.                             *)
LEMMA MintAmountTyped ==
  ASSUME NEW amount \in Nat, NEW price \in Nat \ {0}
  PROVE  /\ MintAmountForPrice(amount, price) \in Nat
         /\ MintAmountForPrice(amount, price) * price <= amount * decimalsMultiplier * ONE
  <1>1. amount * decimalsMultiplier * ONE \in Nat
    BY HubMathAssumption, SMT
  <1>. QED BY <1>1, DivTruncates DEF MintAmountForPrice, ScaleUp

LEMMA RedemptionAmountTyped ==
  ASSUME NEW amount \in Nat, NEW price \in Nat
  PROVE  /\ RedemptionAmountForRwa(amount, price) \in Nat
         /\ RedemptionAmountForRwa(amount, price) * decimalsMultiplier * ONE <= amount * price
  <1>. DEFINE e18 == (amount * price) \div ONE
              due == e18 \div decimalsMultiplier
  <1>1. amount * price \in Nat /\ ONE \in Nat \ {0} /\ decimalsMultiplier \in Nat \ {0}
    BY HubMathAssumption, SMT
  <1>2. e18 \in Nat /\ e18 * ONE <= amount * price
    BY <1>1, DivTruncates
  <1>. HIDE DEF e18
  <1>3. due \in Nat /\ due * decimalsMultiplier <= e18
    BY <1>1, <1>2, DivTruncates
  <1>. HIDE DEF due
  <1>4. due * decimalsMultiplier \in Nat
    BY <1>1, <1>3, SMT
  <1>5. (due * decimalsMultiplier) * ONE <= e18 * ONE
    BY <1>1, <1>2, <1>3, <1>4, Monotone
  <1>6. (due * decimalsMultiplier) * ONE \in Nat /\ e18 * ONE \in Nat
    BY <1>1, <1>2, <1>4, SMT
  <1>7. due * decimalsMultiplier * ONE <= amount * price
    BY <1>1, <1>2, <1>5, <1>6, SMT
  <1>. QED BY <1>3, <1>7 DEF due, e18, RedemptionAmountForRwa, ScaleDown

(* Truncation loses less than one unit of the result, in either direction. *)
LEMMA MintAmountNear ==
  ASSUME NEW amount \in Nat, NEW price \in Nat \ {0}
  PROVE  amount * decimalsMultiplier * ONE
           <= MintAmountForPrice(amount, price) * price + (price - 1)
  <1>1. amount * decimalsMultiplier * ONE \in Nat
    BY HubMathAssumption, SMT
  <1>. QED BY <1>1, DivLosesLittle DEF MintAmountForPrice, ScaleUp

LEMMA RedemptionAmountNear ==
  ASSUME NEW amount \in Nat, NEW price \in Nat
  PROVE  amount * price <= RedemptionAmountForRwa(amount, price) * decimalsMultiplier * ONE
                             + (ONE * decimalsMultiplier - 1)
  <1>. DEFINE e18 == (amount * price) \div ONE
              due == e18 \div decimalsMultiplier
              back == due * decimalsMultiplier
  <1>1. amount * price \in Nat /\ ONE \in Nat \ {0} /\ decimalsMultiplier \in Nat \ {0}
    BY HubMathAssumption, SMT
  <1>2. e18 \in Nat /\ amount * price <= e18 * ONE + (ONE - 1)
    BY <1>1, DivTruncates, DivLosesLittle
  <1>. HIDE DEF e18
  <1>3. due \in Nat /\ e18 <= back + (decimalsMultiplier - 1)
    BY <1>1, <1>2, DivTruncates, DivLosesLittle
  <1>4. back \in Nat
    BY <1>1, <1>3, SMT
  <1>. HIDE DEF due, back
  <1>5. e18 * ONE <= (back + (decimalsMultiplier - 1)) * ONE
    BY <1>1, <1>2, <1>3, <1>4, Monotone
  <1>6. (back + (decimalsMultiplier - 1)) * ONE = back * ONE + (ONE * decimalsMultiplier - ONE)
    BY <1>1, <1>4, SMT
  <1>7. e18 * ONE \in Nat /\ back * ONE \in Nat /\ ONE * decimalsMultiplier \in Nat
    BY <1>1, <1>2, <1>4, SMT
  <1>8. amount * price <= back * ONE + (ONE * decimalsMultiplier - 1)
    BY <1>1, <1>2, <1>5, <1>6, <1>7
  <1>. QED BY <1>8 DEF due, e18, back, RedemptionAmountForRwa, ScaleDown

(***************************************************************************)
(* Subscribing and redeeming at one and the same price never returns more  *)
(* collateral than was deposited: the truncations of both conversions are  *)
(* to the disadvantage of the customer.                                    *)
(***************************************************************************)
THEOREM RoundTripNeverGains ==
  ASSUME NEW amount \in Nat, NEW price \in Nat \ {0}
  PROVE  RedemptionAmountForRwa(MintAmountForPrice(amount, price), price) <= amount
  <1>. DEFINE minted == MintAmountForPrice(amount, price)
              back   == RedemptionAmountForRwa(minted, price)
              unit   == decimalsMultiplier * ONE
  <1>1. minted \in Nat /\ minted * price <= amount * decimalsMultiplier * ONE
    BY MintAmountTyped
  <1>. HIDE DEF minted
  <1>2. back \in Nat /\ back * decimalsMultiplier * ONE <= minted * price
    BY <1>1, RedemptionAmountTyped
  <1>. HIDE DEF back
  <1>3. unit \in Nat \ {0} /\ back * decimalsMultiplier * ONE = back * unit
        /\ amount * decimalsMultiplier * ONE = amount * unit
    BY <1>2, HubMathAssumption, SMT
  <1>. HIDE DEF unit
  <1>4. minted * price \in Nat /\ back * unit \in Nat /\ amount * unit \in Nat
    BY <1>1, <1>2, <1>3, SMT
  <1>5. back * unit <= amount * unit
    BY <1>1, <1>2, <1>3, <1>4, SMT
  <1>6. back <= amount
    BY <1>2, <1>3, <1>5, Cancel
  <1>. QED BY <1>6 DEF back, minted

-----------------------------------------------------------------------------
(***************************************************************************)
(* Sums over finite sets.  Sum is defined by a recursive function that     *)
(* takes one element after another out of the set, whichever CHOOSE picks; *)
(* what follows shows that such a function exists for every finite set and *)
(* that the order of the elements does not matter.  The induction is over  *)
(* the set P of the cardinalities for which the claim holds.               *)
(***************************************************************************)

LEMMA Distributes ==
  ASSUME NEW a \in Int, NEW b \in Int, NEW c \in Int
  PROVE  a * (b + c) = a * b + a * c
  BY SMT

LEMMA NatMin == ASSUME NEW T \in SUBSET Nat, T # {} PROVE \E n \in T : \A m \in T : n <= m
  <1>. DEFINE R == {p \in Nat \X Nat : p[1] < p[2]}
  <1>1. IsWellFoundedOn(R, Nat)
    BY NatLessThanWellFounded DEF OpToRel
  <1>2. \A x, y \in Nat : x < y => <<x, y>> \in R
    OBVIOUS
  <1>. HIDE DEF R
  <1>3. PICK n \in T : \A y \in T : ~ (<<y, n>> \in R)
    BY <1>1, WFMin
  <1>4. \A m \in T : n <= m
    <2>. SUFFICES ASSUME NEW m \in T PROVE n <= m
      OBVIOUS
    <2>1. m \in Nat /\ n \in Nat
      OBVIOUS
    <2>2. ~(m < n)
      BY <1>2, <1>3, <2>1
    <2>. QED BY <2>1, <2>2
  <1>. QED BY <1>4

(* Induction over the natural numbers, for a set instead of a predicate.   *)
LEMMA NatSetInduction ==
  ASSUME NEW P, 0 \in P, \A n \in Nat : n \in P => n + 1 \in P
  PROVE  Nat \subseteq P
  <1>. SUFFICES ASSUME Nat \ P # {} PROVE FALSE
    OBVIOUS
  <1>1. PICK n \in Nat \ P : \A m \in Nat \ P : n <= m
    BY NatMin
  <1>2. n # 0 /\ n - 1 \in Nat
    OBVIOUS
  <1>3. n - 1 \in P
    BY <1>1, <1>2
  <1>4. (n - 1) + 1 \in P
    BY <1>2, <1>3
  <1>. QED BY <1>4

Picked(s) == CHOOSE x \in s : TRUE
Total(f, s, g) == IF s = {} THEN 0 ELSE f[Picked(s)] + g[s \ {Picked(s)}]
Folded(f, S) == CHOOSE g : g = [s \in SUBSET S |-> Total(f, s, g)]

LEMMA SumUnfold == ASSUME NEW f, NEW S PROVE Sum(f, S) = Folded(f, S)[S]
  BY DEF Sum, Sets!MapThenSumSet, Sets!MapThenFoldSet, Folded, Total, Picked

LEMMA FoldExists ==
  ASSUME NEW f, NEW S, IsFiniteSet(S)
  PROVE  Folded(f, S) = [s \in SUBSET S |-> Total(f, s, Folded(f, S))]
  <1>. DEFINE D(n) == {s \in SUBSET S : Cardinality(s) <= n}
              P == {n \in Nat : \E g : g = [s \in D(n) |-> Total(f, s, g)]}
  <1>0. \A s \in SUBSET S : /\ IsFiniteSet(s) /\ Cardinality(s) \in Nat
                            /\ Cardinality(s) <= Cardinality(S)
                            /\ Cardinality(s) = 0 <=> s = {}
    BY FS_Subset, FS_CardinalityType, FS_EmptySet
  <1>1. \A s \in SUBSET S : s # {} => /\ Picked(s) \in s
                                      /\ s \ {Picked(s)} \in SUBSET S
                                      /\ Cardinality(s \ {Picked(s)}) = Cardinality(s) - 1
    BY <1>0, FS_RemoveElement DEF Picked
  <1>2. 0 \in P
    <2>. DEFINE g == [s \in D(0) |-> 0]
    <2>1. \A s \in D(0) : Total(f, s, g) = 0
      BY <1>0 DEF Total
    <2>. QED BY <2>1
  <1>3. ASSUME NEW n \in Nat, n \in P PROVE n + 1 \in P
    <2>1. PICK g : g = [s \in D(n) |-> Total(f, s, g)]
      BY <1>3
    <2>. DEFINE h == [s \in D(n + 1) |-> IF Cardinality(s) <= n THEN g[s] ELSE Total(f, s, g)]
    <2>2. ASSUME NEW s \in D(n + 1) PROVE h[s] = Total(f, s, h)
      <3>1. h[s] = Total(f, s, g)
        <4>1. s \in D(n) => g[s] = Total(f, s, g)
          BY <2>1
        <4>. QED BY <4>1
      <3>2. s # {} => h[s \ {Picked(s)}] = g[s \ {Picked(s)}]
        <4>. HAVE s # {}
        <4>1. s \ {Picked(s)} \in SUBSET S /\ Cardinality(s \ {Picked(s)}) <= n
          BY <1>0, <1>1
        <4>2. s \ {Picked(s)} \in D(n + 1)
          BY <4>1, <1>0
        <4>. QED BY <4>1, <4>2
      <3>. HIDE DEF h
      <3>. QED BY <3>1, <3>2 DEF Total
    <2>3. h = [s \in D(n + 1) |-> Total(f, s, h)]
      BY <2>2
    <2>. HIDE DEF h
    <2>. QED BY <2>3
  <1>4. Cardinality(S) \in P
    <2>. HIDE DEF P
    <2>1. Nat \subseteq P
      BY <1>2, <1>3, NatSetInduction
    <2>. QED BY <1>0, <2>1
  <1>5. D(Cardinality(S)) = SUBSET S
    BY <1>0
  <1>6. \E g : g = [s \in SUBSET S |-> Total(f, s, g)]
    BY <1>4, <1>5
  <1>. QED BY <1>6 DEF Folded

IntOn(f, S) == \A x \in S : f[x] \in Int

LEMMA SubsetFacts ==
  ASSUME NEW S, IsFiniteSet(S)
  PROVE  /\ \A s \in SUBSET S : /\ IsFiniteSet(s) /\ Cardinality(s) \in Nat
                                /\ Cardinality(s) = 0 <=> s = {}
         /\ \A s \in SUBSET S : \A x \in s : Cardinality(s \ {x}) = Cardinality(s) - 1
  BY FS_Subset, FS_CardinalityType, FS_EmptySet, FS_RemoveElement

LEMMA FoldIn ==
  ASSUME NEW f, NEW S, NEW F, F = [s \in SUBSET S |-> Total(f, s, F)]
  PROVE  \A s \in SUBSET S : F[s] = Total(f, s, F)
  <1>. SUFFICES ASSUME NEW s \in SUBSET S PROVE F[s] = Total(f, s, F)
    OBVIOUS
  <1>. DEFINE R(t) == Total(f, t, F)
  <1>1. F = [t \in SUBSET S |-> R(t)]
    OBVIOUS
  <1>. HIDE DEF R
  <1>2. F[s] = R(s)
    BY <1>1
  <1>. QED BY <1>2 DEF R

LEMMA FoldAt ==
  ASSUME NEW f, NEW S, IsFiniteSet(S)
  PROVE  \A s \in SUBSET S : Folded(f, S)[s] = Total(f, s, Folded(f, S))
  <1>. DEFINE F == Folded(f, S)
  <1>1. F = [s \in SUBSET S |-> Total(f, s, F)]
    BY FoldExists
  <1>. HIDE DEF F
  <1>2. \A s \in SUBSET S : F[s] = Total(f, s, F)
    BY <1>1, FoldIn
  <1>. QED BY <1>2 DEF F

LEMMA SumEmpty == ASSUME NEW f PROVE Sum(f, {}) = 0
  <1>1. Sum(f, {}) = Folded(f, {})[{}]
    BY SumUnfold
  <1>2. Folded(f, {})[{}] = Total(f, {}, Folded(f, {}))
    BY FS_EmptySet, FoldAt
  <1>. QED BY <1>1, <1>2 DEF Total

LEMMA FoldOfSubset ==
  ASSUME NEW f, NEW S, IsFiniteSet(S), NEW T \in SUBSET S
  PROVE  Folded(f, S)[T] = Sum(f, T)
  <1>. DEFINE F == Folded(f, S)
              G == Folded(f, T)
              P == {n \in Nat : \A s \in SUBSET T : Cardinality(s) = n => F[s] = G[s]}
  <1>1. \A s \in SUBSET S : F[s] = Total(f, s, F)
    BY FoldAt
  <1>2. IsFiniteSet(T)
    BY FS_Subset
  <1>3. \A s \in SUBSET T : G[s] = Total(f, s, G)
    BY <1>2, FoldAt
  <1>. HIDE DEF F, G
  <1>4. 0 \in P
    BY <1>1, <1>2, <1>3, SubsetFacts DEF Total
  <1>5. ASSUME NEW n \in Nat, n \in P PROVE n + 1 \in P
    <2>. SUFFICES ASSUME NEW s \in SUBSET T, Cardinality(s) = n + 1 PROVE F[s] = G[s]
      OBVIOUS
    <2>1. s # {} /\ Picked(s) \in s
      BY <1>2, SubsetFacts DEF Picked
    <2>2. Cardinality(s \ {Picked(s)}) = n
      BY <1>2, <2>1, SubsetFacts
    <2>3. F[s \ {Picked(s)}] = G[s \ {Picked(s)}]
      BY <1>5, <2>2
    <2>. QED BY <1>1, <1>3, <2>1, <2>3 DEF Total
  <1>6. Nat \subseteq P
    <2>. HIDE DEF P
    <2>. QED BY <1>4, <1>5, NatSetInduction
  <1>7. F[T] = G[T]
    BY <1>2, <1>6, SubsetFacts
  <1>. QED BY <1>7, SumUnfold DEF F, G

LEMMA SumStep ==
  ASSUME NEW f, NEW S, IsFiniteSet(S), S # {}
  PROVE  Picked(S) \in S /\ Sum(f, S) = f[Picked(S)] + Sum(f, S \ {Picked(S)})
  <1>1. Picked(S) \in S
    BY DEF Picked
  <1>2. Sum(f, S) = Total(f, S, Folded(f, S))
    BY SumUnfold, FoldAt
  <1>3. Folded(f, S)[S \ {Picked(S)}] = Sum(f, S \ {Picked(S)})
    BY FoldOfSubset
  <1>. QED BY <1>1, <1>2, <1>3 DEF Total

LEMMA SumInt ==
  ASSUME NEW f, NEW S, IsFiniteSet(S), IntOn(f, S)
  PROVE  \A s \in SUBSET S : Sum(f, s) \in Int
  <1>. DEFINE P == {n \in Nat : \A s \in SUBSET S : Cardinality(s) = n => Sum(f, s) \in Int}
  <1>1. 0 \in P
    <2>. SUFFICES ASSUME NEW s \in SUBSET S, Cardinality(s) = 0 PROVE Sum(f, s) \in Int
      OBVIOUS
    <2>1. s = {}
      BY SubsetFacts
    <2>2. Sum(f, {}) = 0
      BY SumEmpty
    <2>. QED BY <2>1, <2>2
  <1>2. ASSUME NEW n \in Nat, n \in P PROVE n + 1 \in P
    <2>. SUFFICES ASSUME NEW s \in SUBSET S, Cardinality(s) = n + 1 PROVE Sum(f, s) \in Int
      OBVIOUS
    <2>1. IsFiniteSet(s) /\ s # {}
      BY SubsetFacts
    <2>2. Picked(s) \in s /\ Sum(f, s) = f[Picked(s)] + Sum(f, s \ {Picked(s)})
      BY <2>1, SumStep
    <2>3. Cardinality(s \ {Picked(s)}) = n
      BY <2>2, SubsetFacts
    <2>4. Sum(f, s \ {Picked(s)}) \in Int
      BY <1>2, <2>3
    <2>. QED BY <2>2, <2>4 DEF IntOn
  <1>3. Nat \subseteq P
    <2>. HIDE DEF P
    <2>. QED BY <1>1, <1>2, NatSetInduction
  <1>. QED BY <1>3, SubsetFacts

(* A finite sum may be taken apart at any of its terms.                    *)
LEMMA SumOfTerms ==
  ASSUME NEW f, NEW S, IsFiniteSet(S), IntOn(f, S)
  PROVE  \A x \in S : Sum(f, S) = f[x] + Sum(f, S \ {x})
  <1>. DEFINE P == {n \in Nat : \A s \in SUBSET S : Cardinality(s) = n =>
                      \A x \in s : Sum(f, s) = f[x] + Sum(f, s \ {x})}
  <1>0. \A s \in SUBSET S : Sum(f, s) \in Int
    BY SumInt
  <1>1. 0 \in P
    BY SubsetFacts
  <1>2. ASSUME NEW n \in Nat, n \in P PROVE n + 1 \in P
    <2>. SUFFICES ASSUME NEW s \in SUBSET S, Cardinality(s) = n + 1, NEW x \in s
                  PROVE  Sum(f, s) = f[x] + Sum(f, s \ {x})
      OBVIOUS
    <2>. DEFINE c == Picked(s)
    <2>1. IsFiniteSet(s) /\ s # {}
      BY SubsetFacts
    <2>2. c \in s /\ Sum(f, s) = f[c] + Sum(f, s \ {c})
      BY <2>1, SumStep
    <2>. HIDE DEF c
    <2>3. CASE x = c
      BY <2>2, <2>3
    <2>4. CASE x # c
      <3>. DEFINE r == (s \ {c}) \ {x}
      <3>1. Cardinality(s \ {x}) = n /\ Cardinality(s \ {c}) = n
        BY <2>2, SubsetFacts
      <3>2. Sum(f, s \ {c}) = f[x] + Sum(f, r)
        BY <1>2, <2>4, <3>1
      <3>3. (s \ {x}) \ {c} = r
        OBVIOUS
      <3>4. Sum(f, s \ {x}) = f[c] + Sum(f, r)
        BY <1>2, <2>2, <2>4, <3>1, <3>3
      <3>5. r \in SUBSET S /\ f[x] \in Int /\ f[c] \in Int
        BY <2>2 DEF IntOn
      <3>6. Sum(f, r) \in Int
        BY <1>0, <3>5
      <3>. HIDE DEF r, P
      <3>7. f[c] + (f[x] + Sum(f, r)) = f[x] + (f[c] + Sum(f, r))
        BY <3>5, <3>6
      <3>. QED BY <2>2, <3>2, <3>4, <3>7
    <2>. QED BY <2>3, <2>4
  <1>3. Nat \subseteq P
    <2>. HIDE DEF P
    <2>. QED BY <1>1, <1>2, NatSetInduction
  <1>. QED BY <1>3, SubsetFacts

(* Two families that agree on the set have the same sum over it.           *)
LEMMA SumSame ==
  ASSUME NEW f, NEW g, NEW S, IsFiniteSet(S), \A x \in S : f[x] = g[x]
  PROVE  Sum(f, S) = Sum(g, S)
  <1>. DEFINE P == {n \in Nat : \A s \in SUBSET S : Cardinality(s) = n => Sum(f, s) = Sum(g, s)}
  <1>1. 0 \in P
    BY SubsetFacts, SumEmpty
  <1>2. ASSUME NEW n \in Nat, n \in P PROVE n + 1 \in P
    <2>. SUFFICES ASSUME NEW s \in SUBSET S, Cardinality(s) = n + 1 PROVE Sum(f, s) = Sum(g, s)
      OBVIOUS
    <2>1. IsFiniteSet(s) /\ s # {}
      BY SubsetFacts
    <2>2. /\ Picked(s) \in s
          /\ Sum(f, s) = f[Picked(s)] + Sum(f, s \ {Picked(s)})
          /\ Sum(g, s) = g[Picked(s)] + Sum(g, s \ {Picked(s)})
      BY <2>1, SumStep
    <2>3. Sum(f, s \ {Picked(s)}) = Sum(g, s \ {Picked(s)})
      BY <1>2, <2>2, SubsetFacts
    <2>. QED BY <2>2, <2>3
  <1>3. Nat \subseteq P
    <2>. HIDE DEF P
    <2>. QED BY <1>1, <1>2, NatSetInduction
  <1>. QED BY <1>3, SubsetFacts

(* Terms that compare, each side at its own scale, have sums that compare. *)
LEMMA SumScaledAtMost ==
  ASSUME NEW p \in Int, NEW q \in Int, NEW f, NEW g, NEW S, IsFiniteSet(S),
         IntOn(f, S), IntOn(g, S), \A x \in S : p * f[x] <= q * g[x]
  PROVE  p * Sum(f, S) <= q * Sum(g, S)
  <1>. DEFINE P == {n \in Nat : \A s \in SUBSET S :
                      Cardinality(s) = n => p * Sum(f, s) <= q * Sum(g, s)}
  <1>0. \A s \in SUBSET S : Sum(f, s) \in Int /\ Sum(g, s) \in Int
    BY SumInt
  <1>1. 0 \in P
    <2>. SUFFICES ASSUME NEW s \in SUBSET S, Cardinality(s) = 0
                  PROVE  p * Sum(f, s) <= q * Sum(g, s)
      OBVIOUS
    <2>1. s = {} /\ Sum(f, {}) = 0 /\ Sum(g, {}) = 0
      BY SubsetFacts, SumEmpty
    <2>. QED BY <2>1
  <1>2. ASSUME NEW n \in Nat, n \in P PROVE n + 1 \in P
    <2>. SUFFICES ASSUME NEW s \in SUBSET S, Cardinality(s) = n + 1
                  PROVE  p * Sum(f, s) <= q * Sum(g, s)
      OBVIOUS
    <2>. DEFINE c == Picked(s)
                r == s \ {c}
    <2>1. IsFiniteSet(s) /\ s # {}
      BY SubsetFacts
    <2>2. /\ c \in s
          /\ Sum(f, s) = f[c] + Sum(f, r)
          /\ Sum(g, s) = g[c] + Sum(g, r)
      BY <2>1, SumStep
    <2>3. r \in SUBSET S /\ Cardinality(r) = n
      BY <2>2, SubsetFacts
    <2>. HIDE DEF r
    <2>4. p * Sum(f, r) <= q * Sum(g, r) /\ Sum(f, r) \in Int /\ Sum(g, r) \in Int
      BY <1>0, <1>2, <2>3
    <2>5. p * f[c] <= q * g[c] /\ f[c] \in Int /\ g[c] \in Int
      BY <2>2 DEF IntOn
    <2>. HIDE DEF c, P
    <2>6. /\ p * (f[c] + Sum(f, r)) = p * f[c] + p * Sum(f, r)
          /\ q * (g[c] + Sum(g, r)) = q * g[c] + q * Sum(g, r)
      BY <2>4, <2>5, Distributes
    <2>7. /\ p * f[c] \in Int /\ p * Sum(f, r) \in Int
          /\ q * g[c] \in Int /\ q * Sum(g, r) \in Int
      BY <2>4, <2>5
    <2>. QED BY <2>2, <2>4, <2>5, <2>6, <2>7
  <1>3. Nat \subseteq P
    <2>. HIDE DEF P
    <2>. QED BY <1>1, <1>2, NatSetInduction
  <1>. QED BY <1>3, SubsetFacts

(* The same at one scale: a sum of larger terms is not smaller.            *)
LEMMA SumAtMost ==
  ASSUME NEW f, NEW g, NEW S, IsFiniteSet(S), IntOn(f, S), IntOn(g, S),
         \A x \in S : f[x] <= g[x]
  PROVE  Sum(f, S) <= Sum(g, S)
  <1>1. Sum(f, S) \in Int /\ Sum(g, S) \in Int
    BY SumInt
  <1>2. \A x \in S : 1 * f[x] <= 1 * g[x]
    BY DEF IntOn
  <1>3. 1 * Sum(f, S) <= 1 * Sum(g, S)
    BY <1>2, SumScaledAtMost
  <1>. QED BY <1>1, <1>3

LEMMA SumNonnegative ==
  ASSUME NEW f, NEW S, IsFiniteSet(S), \A x \in S : f[x] \in Nat
  PROVE  Sum(f, S) \in Nat
  <1>1. IntOn(f, S)
    BY DEF IntOn
  <1>2. Sum(f, S) \in Int
    BY <1>1, SumInt
  <1>3. \A x \in S : 0 * f[x] <= 1 * f[x]
    OBVIOUS
  <1>4. 0 * Sum(f, S) <= 1 * Sum(f, S)
    BY <1>1, <1>3, SumScaledAtMost
  <1>. QED BY <1>2, <1>4

LEMMA SumOfZeros ==
  ASSUME NEW f, NEW S, IsFiniteSet(S), \A x \in S : f[x] = 0
  PROVE  Sum(f, S) = 0
  <1>1. IntOn(f, S) /\ \A x \in S : 1 * f[x] <= 0 * f[x]
    BY DEF IntOn
  <1>2. 1 * Sum(f, S) <= 0 * Sum(f, S)
    BY <1>1, SumScaledAtMost
  <1>. QED BY <1>2, SumNonnegative

(* The sum of the sums of two families                                     *)
LEMMA SumPlus ==
  ASSUME NEW f, NEW g, NEW h, NEW S, IsFiniteSet(S), IntOn(f, S), IntOn(g, S),
         \A x \in S : h[x] = f[x] + g[x]
  PROVE  Sum(h, S) = Sum(f, S) + Sum(g, S)
  <1>. DEFINE P == {n \in Nat : \A s \in SUBSET S :
                      Cardinality(s) = n => Sum(h, s) = Sum(f, s) + Sum(g, s)}
  <1>0. \A s \in SUBSET S : Sum(f, s) \in Int /\ Sum(g, s) \in Int
    BY SumInt
  <1>1. 0 \in P
    <2>. SUFFICES ASSUME NEW s \in SUBSET S, Cardinality(s) = 0
                  PROVE  Sum(h, s) = Sum(f, s) + Sum(g, s)
      OBVIOUS
    <2>1. s = {} /\ Sum(f, {}) = 0 /\ Sum(g, {}) = 0 /\ Sum(h, {}) = 0
      BY SubsetFacts, SumEmpty
    <2>. QED BY <2>1
  <1>2. ASSUME NEW n \in Nat, n \in P PROVE n + 1 \in P
    <2>. SUFFICES ASSUME NEW s \in SUBSET S, Cardinality(s) = n + 1
                  PROVE  Sum(h, s) = Sum(f, s) + Sum(g, s)
      OBVIOUS
    <2>. DEFINE c == Picked(s)
                r == s \ {c}
    <2>1. IsFiniteSet(s) /\ s # {}
      BY SubsetFacts
    <2>2. /\ c \in s
          /\ Sum(f, s) = f[c] + Sum(f, r)
          /\ Sum(g, s) = g[c] + Sum(g, r)
          /\ Sum(h, s) = h[c] + Sum(h, r)
      BY <2>1, SumStep
    <2>3. r \in SUBSET S /\ Cardinality(r) = n
      BY <2>2, SubsetFacts
    <2>. HIDE DEF r
    <2>4. Sum(h, r) = Sum(f, r) + Sum(g, r) /\ Sum(f, r) \in Int /\ Sum(g, r) \in Int
      BY <1>0, <1>2, <2>3
    <2>5. h[c] = f[c] + g[c] /\ f[c] \in Int /\ g[c] \in Int
      BY <2>2 DEF IntOn
    <2>. HIDE DEF c, P
    <2>. QED BY <2>2, <2>4, <2>5
  <1>3. Nat \subseteq P
    <2>. HIDE DEF P
    <2>. QED BY <1>1, <1>2, NatSetInduction
  <1>. QED BY <1>3, SubsetFacts

(* A change of one term changes the sum by as much.                        *)
LEMMA SumChange ==
  ASSUME NEW f, NEW g, NEW S, IsFiniteSet(S), IntOn(f, S), IntOn(g, S), NEW x \in S,
         \A y \in S \ {x} : g[y] = f[y]
  PROVE  Sum(g, S) = Sum(f, S) + (g[x] - f[x])
  <1>1. Sum(f, S) = f[x] + Sum(f, S \ {x}) /\ Sum(g, S) = g[x] + Sum(g, S \ {x})
    BY SumOfTerms
  <1>2. Sum(g, S \ {x}) = Sum(f, S \ {x})
    BY SumSame, FS_Subset
  <1>3. Sum(f, S \ {x}) \in Int /\ f[x] \in Int /\ g[x] \in Int
    BY SumInt DEF IntOn
  <1>. QED BY <1>1, <1>2, <1>3

(* A sum over a set is the sum over a part and the sum over the rest.      *)
LEMMA SumSplit ==
  ASSUME NEW f, NEW S, IsFiniteSet(S), IntOn(f, S), NEW T \in SUBSET S
  PROVE  Sum(f, S) = Sum(f, T) + Sum(f, S \ T)
  <1>. DEFINE P == {n \in Nat : \A s \in SUBSET S :
                      Cardinality(s) = n => Sum(f, S) = Sum(f, s) + Sum(f, S \ s)}
  <1>0. \A s \in SUBSET S : Sum(f, s) \in Int /\ Sum(f, S \ s) \in Int
    BY SumInt
  <1>1. 0 \in P
    <2>. SUFFICES ASSUME NEW s \in SUBSET S, Cardinality(s) = 0
                  PROVE  Sum(f, S) = Sum(f, s) + Sum(f, S \ s)
      OBVIOUS
    <2>1. s = {} /\ S \ s = S /\ Sum(f, {}) = 0 /\ Sum(f, S) \in Int
      BY <1>0, SubsetFacts, SumEmpty
    <2>. QED BY <2>1
  <1>2. ASSUME NEW n \in Nat, n \in P PROVE n + 1 \in P
    <2>. SUFFICES ASSUME NEW s \in SUBSET S, Cardinality(s) = n + 1
                  PROVE  Sum(f, S) = Sum(f, s) + Sum(f, S \ s)
      OBVIOUS
    <2>. DEFINE c == Picked(s)
                r == s \ {c}
    <2>1. IsFiniteSet(s) /\ s # {}
      BY SubsetFacts
    <2>2. c \in s /\ Sum(f, s) = f[c] + Sum(f, r)
      BY <2>1, SumStep
    <2>3. r \in SUBSET S /\ Cardinality(r) = n
      BY <2>2, SubsetFacts
    <2>4. Sum(f, S) = Sum(f, r) + Sum(f, S \ r)
      BY <1>2, <2>3
    <2>5. Sum(f, S \ r) = f[c] + Sum(f, S \ s)
      <3>1. c \in S \ r /\ (S \ r) \ {c} = S \ s
        BY <2>2
      <3>2. IsFiniteSet(S \ r) /\ IntOn(f, S \ r)
        BY FS_Subset DEF IntOn
      <3>. HIDE DEF c, r
      <3>. QED BY <3>1, <3>2, SumOfTerms
    <2>6. Sum(f, r) \in Int /\ Sum(f, S \ s) \in Int /\ f[c] \in Int
      BY <1>0, <2>2, <2>3 DEF IntOn
    <2>. HIDE DEF c, r, P
    <2>. QED BY <2>2, <2>4, <2>5, <2>6
  <1>3. Nat \subseteq P
    <2>. HIDE DEF P
    <2>. QED BY <1>1, <1>2, NatSetInduction
  <1>. QED BY <1>3, SubsetFacts

(* What is taken from the sum when the terms of a part become 0            *)
LEMMA SumCleared ==
  ASSUME NEW f, NEW g, NEW S, IsFiniteSet(S), IntOn(f, S), NEW T \in SUBSET S,
         \A x \in S : g[x] = IF x \in T THEN 0 ELSE f[x]
  PROVE  Sum(g, S) = Sum(f, S) - Sum(f, T)
  <1>1. IsFiniteSet(T) /\ IsFiniteSet(S \ T) /\ IntOn(g, S)
    BY FS_Subset DEF IntOn
  <1>2. Sum(g, S) = Sum(g, T) + Sum(g, S \ T) /\ Sum(f, S) = Sum(f, T) + Sum(f, S \ T)
    BY <1>1, SumSplit
  <1>3. Sum(g, T) = 0
    BY <1>1, SumOfZeros
  <1>4. Sum(g, S \ T) = Sum(f, S \ T)
    BY <1>1, SumSame
  <1>5. Sum(f, T) \in Int /\ Sum(f, S \ T) \in Int
    BY SumInt
  <1>. QED BY <1>2, <1>3, <1>4, <1>5

(* The terms may be gathered first by an attribute of theirs.              *)
LEMMA SumGathered ==
  ASSUME NEW f, NEW u, NEW A, NEW B, IsFiniteSet(A), IsFiniteSet(B), IntOn(f, B),
         \A x \in B : u[x] \in A
  PROVE  Sum([a \in A |-> Sum(f, {x \in B : u[x] = a})], A) = Sum(f, B)
  <1>. DEFINE Of(s, a) == {x \in s : u[x] = a}
              G(s) == [a \in A |-> Sum(f, Of(s, a))]
              P == {n \in Nat : \A s \in SUBSET B :
                      Cardinality(s) = n => Sum(G(s), A) = Sum(f, s)}
  <1>0. \A s \in SUBSET B : /\ Sum(f, s) \in Int /\ IntOn(G(s), A)
                            /\ \A a \in A : Of(s, a) \in SUBSET B
    BY SumInt DEF IntOn
  <1>1. 0 \in P
    <2>. SUFFICES ASSUME NEW s \in SUBSET B, Cardinality(s) = 0
                  PROVE  Sum(G(s), A) = Sum(f, s)
      OBVIOUS
    <2>1. s = {} /\ Sum(f, {}) = 0
      BY SubsetFacts, SumEmpty
    <2>2. \A a \in A : G(s)[a] = 0
      BY <2>1
    <2>. HIDE DEF G
    <2>. QED BY <2>1, <2>2, SumOfZeros
  <1>2. ASSUME NEW n \in Nat, n \in P PROVE n + 1 \in P
    <2>. SUFFICES ASSUME NEW s \in SUBSET B, Cardinality(s) = n + 1
                  PROVE  Sum(G(s), A) = Sum(f, s)
      OBVIOUS
    <2>. DEFINE c == Picked(s)
                r == s \ {c}
    <2>1. IsFiniteSet(s) /\ s # {}
      BY SubsetFacts
    <2>2. c \in s /\ Sum(f, s) = f[c] + Sum(f, r)
      BY <2>1, SumStep
    <2>3. r \in SUBSET B /\ Cardinality(r) = n /\ f[c] \in Int /\ u[c] \in A
      BY <2>2, SubsetFacts DEF IntOn
    <2>4. Sum(G(r), A) = Sum(f, r)
      BY <1>2, <2>3
    <2>5. \A a \in A \ {u[c]} : Of(s, a) = Of(r, a)
      OBVIOUS
    <2>6. c \in Of(s, u[c]) /\ Of(s, u[c]) \ {c} = Of(r, u[c])
      BY <2>2
    <2>7. IsFiniteSet(Of(s, u[c])) /\ IntOn(f, Of(s, u[c]))
      BY <2>1, FS_Subset DEF IntOn
    <2>. HIDE DEF c, r, Of, P
    <2>8. Sum(f, Of(s, u[c])) = f[c] + Sum(f, Of(r, u[c]))
      BY <2>6, <2>7, SumOfTerms
    <2>9. /\ \A a \in A \ {u[c]} : G(s)[a] = G(r)[a]
          /\ G(s)[u[c]] = f[c] + G(r)[u[c]]
      BY <2>3, <2>5, <2>8
    <2>10. /\ IntOn(G(s), A) /\ IntOn(G(r), A)
           /\ G(r)[u[c]] \in Int /\ Sum(f, r) \in Int
      BY <1>0, <2>3 DEF IntOn
    <2>. HIDE DEF G
    <2>11. Sum(G(s), A) = Sum(G(r), A) + (G(s)[u[c]] - G(r)[u[c]])
      BY <2>3, <2>9, <2>10, SumChange
    <2>. QED BY <2>2, <2>3, <2>4, <2>9, <2>10, <2>11
  <1>3. Nat \subseteq P
    <2>. HIDE DEF P
    <2>. QED BY <1>1, <1>2, NatSetInduction
  <1>4. Sum(G(B), A) = Sum(f, B)
    <2>. HIDE DEF G
    <2>. QED BY <1>3, SubsetFacts
  <1>. QED BY <1>4

(* What is added to the sum when something is added to the terms of a part *)
LEMMA SumAdded ==
  ASSUME NEW f, NEW g, NEW h, NEW S, IsFiniteSet(S), IntOn(f, S), NEW T \in SUBSET S,
         IntOn(h, T), \A x \in S : g[x] = IF x \in T THEN f[x] + h[x] ELSE f[x]
  PROVE  Sum(g, S) = Sum(f, S) + Sum(h, T)
  <1>1. IsFiniteSet(T) /\ IsFiniteSet(S \ T) /\ IntOn(g, S) /\ IntOn(f, T)
    BY FS_Subset DEF IntOn
  <1>2. Sum(g, S) = Sum(g, T) + Sum(g, S \ T) /\ Sum(f, S) = Sum(f, T) + Sum(f, S \ T)
    BY <1>1, SumSplit
  <1>3. Sum(g, T) = Sum(f, T) + Sum(h, T)
    BY <1>1, SumPlus
  <1>4. Sum(g, S \ T) = Sum(f, S \ T)
    BY <1>1, SumSame
  <1>5. Sum(f, T) \in Int /\ Sum(f, S \ T) \in Int /\ Sum(h, T) \in Int
    BY <1>1, SumInt
  <1>. QED BY <1>2, <1>3, <1>4, <1>5

LEMMA SumScaled ==
  ASSUME NEW p \in Int, NEW f, NEW g, NEW S, IsFiniteSet(S), IntOn(f, S),
         \A x \in S : g[x] = p * f[x]
  PROVE  Sum(g, S) = p * Sum(f, S)
  <1>1. IntOn(g, S)
    BY SMT DEF IntOn
  <1>2. \A x \in S : 1 * g[x] <= p * f[x] /\ p * f[x] <= 1 * g[x]
    BY <1>1 DEF IntOn
  <1>3. 1 * Sum(g, S) <= p * Sum(f, S) /\ p * Sum(f, S) <= 1 * Sum(g, S)
    BY <1>1, <1>2, SumScaledAtMost
  <1>4. Sum(g, S) \in Int /\ Sum(f, S) \in Int
    BY <1>1, SumInt
  <1>5. p * Sum(f, S) \in Int
    BY <1>4, SMT
  <1>. QED BY <1>3, <1>4, <1>5

(* One for each element                                                    *)
Count(S) == Sum([x \in S |-> 1], S)

LEMMA CountTyped == ASSUME NEW S, IsFiniteSet(S) PROVE Count(S) \in Int
  <1>. DEFINE one == [x \in S |-> 1]
  <1>1. IntOn(one, S)
    BY DEF IntOn
  <1>2. Sum(one, S) \in Int
    BY <1>1, SumInt
  <1>. QED BY <1>2 DEF Count

(* A bound of the terms up to r bounds the sum up to r for each term.      *)
LEMMA SumNear ==
  ASSUME NEW p \in Int, NEW q \in Int, NEW r \in Int, NEW f, NEW g, NEW S, IsFiniteSet(S),
         IntOn(f, S), IntOn(g, S), \A x \in S : p * f[x] <= q * g[x] + r
  PROVE  p * Sum(f, S) <= q * Sum(g, S) + r * Count(S)
  <1>. DEFINE one == [x \in S |-> 1]
              k   == [x \in S |-> q * g[x]]
              l   == [x \in S |-> r * one[x]]
              h   == [x \in S |-> k[x] + l[x]]
  <1>1. IntOn(one, S) /\ \A x \in S : one[x] = 1
    BY DEF IntOn
  <1>2. \A x \in S : k[x] = q * g[x] /\ l[x] = r * one[x] /\ h[x] = k[x] + l[x]
    OBVIOUS
  <1>. HIDE DEF one, k, l, h
  <1>3. IntOn(k, S) /\ IntOn(l, S)
    BY <1>1, <1>2, SMT DEF IntOn
  <1>4. IntOn(h, S) /\ \A x \in S : l[x] = r
    BY <1>1, <1>2, <1>3 DEF IntOn
  <1>5. \A x \in S : p * f[x] <= 1 * h[x]
    BY <1>2, <1>4 DEF IntOn
  <1>6. p * Sum(f, S) <= 1 * Sum(h, S) /\ Sum(h, S) = Sum(k, S) + Sum(l, S)
    BY <1>2, <1>3, <1>4, <1>5, SumScaledAtMost, SumPlus
  <1>7. Sum(k, S) = q * Sum(g, S) /\ Sum(l, S) = r * Sum(one, S)
    BY <1>1, <1>2, SumScaled
  <1>8. Sum(h, S) \in Int
    BY <1>4, SumInt
  <1>9. 1 * Sum(h, S) = Sum(h, S)
    BY <1>8
  <1>. QED BY <1>6, <1>7, <1>9 DEF one, Count
==============================================================================
