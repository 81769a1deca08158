--------------------------- MODULE CreditsProofs ---------------------------
(***************************************************************************)
(* What the pricing of packages/credits guarantees for every model name,   *)
(* token count and charge.                                                 *)
(***************************************************************************)
EXTENDS Credits, FiniteSets, FiniteSetTheorems, WellFoundedInduction, TLAPS

\* Every model has a positive price, the ones the table does not name included.
LEMMA PriceType == \A model : PriceFor(model) \in Nat \ {0}
BY DEF PriceFor

\* Prices are whole credits, never less than one (tokenCost).
LEMMA TokenCostType ==
    ASSUME NEW model, NEW n \in Nat
    PROVE  TokenCost(model, n) \in Nat /\ TokenCost(model, n) >= 1
<1> DEFINE price == PriceFor(model)
<1>1. price \in Nat
  BY PriceType
<1>2. n * price \in Nat
  BY <1>1
<1> HIDE DEF price
<1>3. \A k \in Nat : (k + 999) \div 1000 \in Nat
  OBVIOUS
<1> QED
  BY <1>2, <1>3 DEF TokenCost, price

\* More tokens never cost less: the monotonicity reserving rests on.
LEMMA TokenCostMonotone ==
    ASSUME NEW model, NEW m \in Nat, NEW n \in Nat, m <= n
    PROVE  TokenCost(model, m) <= TokenCost(model, n)
<1> DEFINE price == PriceFor(model)
<1>1. price \in Nat
  BY PriceType
<1> HIDE DEF price
<1>2. m * price \in Nat /\ n * price \in Nat /\ m * price <= n * price
  <2>1. PICK d \in Nat : n = m + d
    <3>1. n - m \in Nat /\ n = m + (n - m)
      OBVIOUS
    <3> QED BY <3>1
  <2>2. n * price = m * price + d * price
    BY <1>1, <2>1
  <2>3. m * price \in Nat /\ d * price \in Nat
    BY <1>1
  <2> QED BY <2>2, <2>3
<1>3. \A j, k \in Nat : j <= k => (j + 999) \div 1000 <= (k + 999) \div 1000
  OBVIOUS
<1>4. (m * price + 999) \div 1000 <= (n * price + 999) \div 1000
  BY <1>2, <1>3
<1>5. (m * price + 999) \div 1000 \in Nat /\ (n * price + 999) \div 1000 \in Nat
  BY <1>2
<1> QED
  BY <1>4, <1>5 DEF TokenCost, price

\* A job whose worker reports no more tokens than were reserved for never costs
\* more than its reservation (reserveEstimate, settleCost).  Nothing in the code
\* bounds the report, so this premise is what NoOverdraft hangs on.
THEOREM ReserveCoversSettle ==
    ASSUME NEW model, NEW prompt \in Nat, NEW max \in Nat, NEW used \in Nat,
           used <= prompt + max
    PROVE  SettleCost(model, used) <= ReserveEstimate(model, prompt, max)
<1>1. prompt + max \in Nat
  OBVIOUS
<1> QED
  BY <1>1, TokenCostMonotone DEF SettleCost, ReserveEstimate

\* A provider's share is never negative, even where the double product rounds short.
LEMMA WorkerEarnType == \A charge \in Nat : WorkerEarn(charge) \in Nat
<1> SUFFICES ASSUME NEW charge \in Nat PROVE WorkerEarn(charge) \in Nat
  OBVIOUS
<1>1. (7 * charge) \div 10 \in Nat
  OBVIOUS
<1>2. ASSUME charge \in EarnRoundsShort PROVE (7 * charge) \div 10 >= 1
  BY <1>2, EarnRoundsShortAssumption
<1> QED
  BY <1>1, <1>2 DEF WorkerEarn

LEMMA StakingFeeType == \A charge \in Nat : StakingFee(charge) \in Nat
BY DEF StakingFee

\* What settling a charge pays out, provider and stakers together, never exceeds it.
THEOREM PayOutWithinCharge ==
    \A charge \in Nat : WorkerEarn(charge) + StakingFee(charge) <= charge
<1> SUFFICES ASSUME NEW charge \in Nat
             PROVE  WorkerEarn(charge) + StakingFee(charge) <= charge
  OBVIOUS
<1>1. (7 * charge) \div 10 + charge \div 10 <= charge
  OBVIOUS
<1>2. (7 * charge) \div 10 \in Nat /\ charge \div 10 \in Nat
  OBVIOUS
<1> QED
  BY <1>1, <1>2 DEF WorkerEarn, StakingFee

-----------------------------------------------------------------------------
(***************************************************************************)
(* Induction, over sets the provers can instantiate.                       *)
(***************************************************************************)
\* Every set of natural numbers has a least element.
LEMMA LeastNumber ==
    ASSUME NEW B \in SUBSET Nat, B # {}
    PROVE  \E n \in B : \A m \in B : ~ (m < n)
<1>1. PICK n \in B : \A m \in B : ~ (<<m, n>> \in OpToRel(<, Nat))
  BY NatLessThanWellFounded, WFMin
<1> QED
  BY <1>1 DEF OpToRel

\* A property of subsets of a finite set, given as the set of those that have it,
\* holds of all when it holds of the empty one and survives one more element.
LEMMA SubsetInduction ==
    ASSUME NEW S, IsFiniteSet(S), NEW G \in SUBSET SUBSET S, {} \in G,
           ASSUME NEW s \in G, NEW x \in S \ s PROVE s \cup {x} \in G
    PROVE  G = SUBSET S
<1> DEFINE B == {n \in Nat : \E s \in (SUBSET S) \ G : Cardinality(s) = n}
<1> SUFFICES ASSUME NEW s0 \in (SUBSET S) \ G PROVE FALSE
  OBVIOUS
<1>2. \A s \in SUBSET S : IsFiniteSet(s) /\ Cardinality(s) \in Nat
  BY FS_Subset, FS_CardinalityType
<1>3. B \in SUBSET Nat /\ B # {}
  BY <1>2
<1>4. PICK n \in B : \A m \in B : ~ (m < n)
  <2> HIDE DEF B
  <2> QED  BY <1>3, LeastNumber
<1>5. PICK s \in (SUBSET S) \ G : Cardinality(s) = n
  OBVIOUS
<1>6. PICK x \in S : x \in s
  OBVIOUS
<1>7. /\ s \ {x} \in SUBSET S /\ Cardinality(s \ {x}) = Cardinality(s) - 1
  BY <1>2, <1>6, FS_RemoveElement
<1>8. s \ {x} \in G
  BY <1>2, <1>3, <1>4, <1>5, <1>7
<1>9. (s \ {x}) \cup {x} \in G
  BY <1>8
<1> QED
  BY <1>5, <1>6, <1>9

-----------------------------------------------------------------------------
(***************************************************************************)
(* Sums (SELECT SUM): the fold of a function over its finite domain.       *)
(***************************************************************************)
Chosen(s) == CHOOSE x \in s : TRUE
SumStep(f, g, s) == IF s = {} THEN 0 ELSE f[Chosen(s)] + g[s \ {Chosen(s)}]

\* sum adds up f over the subsets of its domain.
IsSum(f, sum) == sum = [s \in SUBSET DOMAIN f |-> SumStep(f, sum, s)]

\* The fold is well defined.
LEMMA SumExists ==
    ASSUME NEW f, IsFiniteSet(DOMAIN f)
    PROVE  \E sum : IsSum(f, sum) /\ Total(f) = sum[DOMAIN f]
<1> DEFINE D == DOMAIN f
           Upto(n) == {s \in SUBSET D : Cardinality(s) <= n}
           Sums(n, g) == g = [s \in Upto(n) |-> SumStep(f, g, s)]
           B == {n \in Nat : ~ \E g : Sums(n, g)}
<1>1. \A s \in SUBSET D : IsFiniteSet(s) /\ Cardinality(s) \in Nat /\ Cardinality(s) <= Cardinality(D)
  BY FS_Subset, FS_CardinalityType
<1>2. \A s \in SUBSET D : s # {} => /\ s \ {Chosen(s)} \in SUBSET D
                                    /\ Cardinality(s \ {Chosen(s)}) = Cardinality(s) - 1
  BY <1>1, FS_RemoveElement DEF Chosen
<1>3. \E g : Sums(0, g)
  <2>1. \A s \in Upto(0) : s = {}
    BY <1>1, FS_EmptySet
  <2> DEFINE g == [s \in Upto(0) |-> 0]
  <2>2. Sums(0, g)
    BY <2>1 DEF SumStep
  <2> QED  BY <2>2
<1>4. ASSUME NEW n \in Nat, NEW g, Sums(n, g) PROVE \E h : Sums(n + 1, h)
  <2> DEFINE h == [s \in Upto(n + 1) |-> SumStep(f, g, s)]
  <2>1. \A s \in Upto(n) : h[s] = g[s]
    <3>1. \A s \in Upto(n) : s \in Upto(n + 1)
      BY <1>1
    <3> QED BY <1>4, <3>1
  <2>2. \A s \in Upto(n + 1) : s # {} => s \ {Chosen(s)} \in Upto(n)
    BY <1>1, <1>2
  <2>3. \A s \in Upto(n + 1) : SumStep(f, g, s) = SumStep(f, h, s)
    <3> HIDE DEF h, Upto
    <3> QED  BY <2>1, <2>2 DEF SumStep
  <2>4. Sums(n + 1, h)
    BY <2>3
  <2> QED  BY <2>4
<1>5. B = {}
  <2> SUFFICES ASSUME B # {} PROVE FALSE
    OBVIOUS
  <2>0. B \in SUBSET Nat
    OBVIOUS
  <2>1. PICK n \in B : \A m \in B : ~ (m < n)
    <3> HIDE DEF B
    <3> QED  BY <2>0, LeastNumber
  <2>2. n # 0
    BY <1>3
  <2>3. n - 1 \in Nat /\ n - 1 \notin B
    <3> HIDE DEF B
    <3> QED  BY <2>0, <2>1, <2>2
  <2>4. \E g : Sums(n - 1, g)
    BY <2>3
  <2>5. \E h : Sums((n - 1) + 1, h)
    <3> HIDE DEF Sums
    <3> QED  BY <1>4, <2>3, <2>4
  <2>6. (n - 1) + 1 = n
    BY <2>3
  <2> QED
    <3> HIDE DEF Sums
    <3> QED BY <2>5, <2>6 DEF B
<1>6. Upto(Cardinality(D)) = SUBSET D /\ Cardinality(D) \in Nat
  BY <1>1
<1>7. \E g : IsSum(f, g)
  <2>1. PICK g : Sums(Cardinality(D), g)
    <3> HIDE DEF Sums
    <3> QED  BY <1>5, <1>6
  <2> QED
    BY <1>6, <2>1 DEF IsSum
<1>8. Total(f) = (CHOOSE g : IsSum(f, g))[D]
  BY DEF Total, FoldFunction, FoldFunctionOnSet, MapThenFoldSet, SumStep, IsSum, Chosen
<1> QED
  BY <1>7, <1>8

\* One element more or less, whichever it is.
LEMMA SumRemove ==
    ASSUME NEW f, IsFiniteSet(DOMAIN f), f \in [DOMAIN f -> Int],
           NEW sum, IsSum(f, sum)
    PROVE  /\ sum[{}] = 0
           /\ \A s \in SUBSET DOMAIN f :
                /\ sum[s] \in Int
                /\ \A x \in s : sum[s] = f[x] + sum[s \ {x}]
<1> DEFINE D == DOMAIN f
           Good(s) == sum[s] \in Int /\ \A x \in s : sum[s] = f[x] + sum[s \ {x}]
           B == {n \in Nat : \E s \in SUBSET D : Cardinality(s) = n /\ ~ Good(s)}
<1>1. \A s \in SUBSET D : IsFiniteSet(s) /\ Cardinality(s) \in Nat
  BY FS_Subset, FS_CardinalityType
<1>2. \A s \in SUBSET D : \A x \in s : /\ s \ {x} \in SUBSET D
                                       /\ Cardinality(s \ {x}) < Cardinality(s)
  <2> SUFFICES ASSUME NEW s \in SUBSET D, NEW x \in s
               PROVE  /\ s \ {x} \in SUBSET D
                      /\ Cardinality(s \ {x}) < Cardinality(s)
    OBVIOUS
  <2>1. Cardinality(s \ {x}) = Cardinality(s) - 1
    BY <1>1, FS_RemoveElement
  <2> QED  BY <1>1, <2>1
<1>3. sum[{}] = 0
  BY DEF IsSum, SumStep
<1>4. \A s \in SUBSET D : s # {} => /\ Chosen(s) \in s
                                    /\ sum[s] = f[Chosen(s)] + sum[s \ {Chosen(s)}]
  BY DEF IsSum, SumStep, Chosen
<1>5. B = {}
  <2> SUFFICES ASSUME B # {} PROVE FALSE
    OBVIOUS
  <2>1. B \in SUBSET Nat
    OBVIOUS
  <2>2. PICK n \in B : \A m \in B : ~ (m < n)
    <3> HIDE DEF B
    <3> QED  BY <2>1, LeastNumber
  <2>3. PICK s \in SUBSET D : Cardinality(s) = n /\ ~ Good(s)
    OBVIOUS
  <2>4. \A t \in SUBSET D : Cardinality(t) < Cardinality(s) => Good(t)
    <3> SUFFICES ASSUME NEW t \in SUBSET D, Cardinality(t) < Cardinality(s), ~ Good(t)
                 PROVE  FALSE
      OBVIOUS
    <3>1. Cardinality(t) \in B
      BY <1>1
    <3> HIDE DEF B, Good
    <3> QED  BY <2>2, <2>3, <3>1
  <2> DEFINE c == Chosen(s)
  <2>5. s # {}
    BY <1>3, <2>3
  <2>6. c \in s /\ c \in D /\ f[c] \in Int /\ sum[s] = f[c] + sum[s \ {c}]
    BY <1>4, <2>5
  <2>7. Good(s \ {c})
    <3> HIDE DEF Good, c
    <3> QED  BY <1>2, <2>4, <2>6
  <2>8. ASSUME NEW x \in s, x # c PROVE sum[s] = f[x] + sum[s \ {x}]
    <3> HIDE DEF c
    <3>1. Good(s \ {x})
      <4> HIDE DEF Good
      <4> QED  BY <1>2, <2>4, <2>8
    <3>2. (s \ {x}) \ {c} = (s \ {c}) \ {x}
      OBVIOUS
    <3>3. sum[s \ {x}] = f[c] + sum[(s \ {x}) \ {c}]
      BY <2>6, <2>8, <3>1
    <3>4. sum[s \ {c}] = f[x] + sum[(s \ {c}) \ {x}]
      BY <2>7, <2>8
    <3>5. Good((s \ {x}) \ {c})
      <4>1. /\ s \ {x} \in SUBSET D /\ Cardinality(s \ {x}) < Cardinality(s)
        BY <1>2
      <4>2. /\ (s \ {x}) \ {c} \in SUBSET D
            /\ Cardinality((s \ {x}) \ {c}) < Cardinality(s \ {x})
        BY <1>2, <2>6, <2>8
      <4> HIDE DEF Good
      <4> QED  BY <1>1, <2>4, <4>1, <4>2
    <3>6. f[x] \in Int /\ sum[(s \ {x}) \ {c}] \in Int
      BY <3>5
    <3> DEFINE r == sum[(s \ {x}) \ {c}]
    <3>7. /\ sum[s \ {x}] = f[c] + r /\ sum[s \ {c}] = f[x] + r
          /\ f[c] \in Int /\ f[x] \in Int /\ r \in Int
      BY <2>6, <3>2, <3>3, <3>4, <3>6
    <3> HIDE DEF r
    <3> QED
      BY <2>6, <3>7
  <2>9. sum[s] \in Int
    BY <2>6, <2>7
  <2> QED
    BY <2>3, <2>6, <2>8, <2>9
<1>6. \A s \in SUBSET D : Good(s)
  BY <1>1, <1>5
<1> QED
  BY <1>3, <1>6

On(f, T) == [x \in T |-> f[x]]

\* The sum over nothing, and over one element less.
LEMMA TotalRemove ==
    ASSUME NEW f, IsFiniteSet(DOMAIN f), f \in [DOMAIN f -> Int]
    PROVE  /\ Total(f) \in Int
           /\ DOMAIN f = {} => Total(f) = 0
           /\ \A x \in DOMAIN f : Total(f) = f[x] + Total(On(f, DOMAIN f \ {x}))
<1> DEFINE D == DOMAIN f
<1>1. PICK sum : IsSum(f, sum) /\ Total(f) = sum[D]
  BY SumExists
<1>2. /\ sum[{}] = 0
      /\ \A s \in SUBSET D : sum[s] \in Int /\ \A x \in s : sum[s] = f[x] + sum[s \ {x}]
  BY <1>1, SumRemove
<1>3. ASSUME NEW T \in SUBSET D PROVE Total(On(f, T)) = sum[T]
  <2> DEFINE g == On(f, T)
  <2>1. DOMAIN g = T /\ g \in [T -> Int] /\ IsFiniteSet(T) /\ \A x \in T : g[x] = f[x]
    BY FS_Subset DEF On
  <2> HIDE DEF g
  <2>2. PICK sumT : IsSum(g, sumT) /\ Total(g) = sumT[T]
    BY <2>1, SumExists
  <2>3. /\ sumT[{}] = 0
        /\ \A s \in SUBSET T : \A x \in s : sumT[s] = g[x] + sumT[s \ {x}]
    BY <2>1, <2>2, SumRemove
  <2> DEFINE G == {s \in SUBSET T : sumT[s] = sum[s]}
  <2>4. {} \in G
    BY <1>2, <2>3
  <2>5. ASSUME NEW s \in G, NEW x \in T \ s PROVE s \cup {x} \in G
    <3>1. (s \cup {x}) \ {x} = s /\ s \cup {x} \in SUBSET T /\ s \cup {x} \in SUBSET D
      OBVIOUS
    <3>2. sumT[s \cup {x}] = g[x] + sumT[s] /\ sum[s \cup {x}] = f[x] + sum[s]
      BY <1>2, <2>3, <3>1
    <3> QED  BY <2>1, <3>1, <3>2
  <2>6. G = SUBSET T
    <3>1. G \in SUBSET SUBSET T
      OBVIOUS
    <3>2. IsFiniteSet(T)
      BY <2>1
    <3> HIDE DEF G, D
    <3> QED  BY <2>4, <2>5, <3>1, <3>2, SubsetInduction
  <2> QED  BY <2>2, <2>6 DEF g
<1> QED
  BY <1>1, <1>2, <1>3

\* The same, added.
LEMMA TotalAdd ==
    ASSUME NEW S, IsFiniteSet(S), NEW f \in [S -> Int], NEW T \in SUBSET S, NEW x \in S \ T
    PROVE  Total(On(f, T \cup {x})) = f[x] + Total(On(f, T))
<1> DEFINE g == On(f, T \cup {x})
<1>1. /\ DOMAIN g = T \cup {x} /\ g \in [DOMAIN g -> Int] /\ g[x] = f[x]
      /\ On(g, DOMAIN g \ {x}) = On(f, T)
  BY DEF On
<1>2. IsFiniteSet(DOMAIN g)
  BY <1>1, FS_Subset
<1> HIDE DEF g
<1>3. Total(g) = g[x] + Total(On(g, DOMAIN g \ {x}))
  BY <1>1, <1>2, TotalRemove
<1> QED
  BY <1>1, <1>3 DEF g

LEMMA TotalType ==
    ASSUME NEW S, IsFiniteSet(S), NEW f \in [S -> Int], NEW T \in SUBSET S
    PROVE  /\ Total(On(f, T)) \in Int /\ Total(f) \in Int
           /\ On(f, S) = f /\ Total(On(f, {})) = 0
<1>1. /\ DOMAIN On(f, T) = T /\ On(f, T) \in [T -> Int] /\ IsFiniteSet(T)
      /\ DOMAIN On(f, {}) = {} /\ On(f, {}) \in [{} -> Int] /\ IsFiniteSet({})
  BY FS_Subset, FS_EmptySet DEF On
<1> QED
  BY <1>1, TotalRemove DEF On

\* A sum is the sum of its terms' parts.
LEMMA TotalPlus ==
    ASSUME NEW S, IsFiniteSet(S), NEW f \in [S -> Int], NEW g \in [S -> Int],
           NEW h \in [S -> Int], \A x \in S : h[x] = f[x] + g[x]
    PROVE  Total(h) = Total(f) + Total(g)
<1> DEFINE G == {T \in SUBSET S : Total(On(h, T)) = Total(On(f, T)) + Total(On(g, T))}
<1>1. {} \in G
  BY TotalType
<1>2. ASSUME NEW T \in G, NEW x \in S \ T PROVE T \cup {x} \in G
  <2>1. /\ Total(On(f, T)) \in Int /\ Total(On(g, T)) \in Int /\ Total(On(h, T)) \in Int
    BY TotalType
  <2>2. /\ Total(On(f, T \cup {x})) = f[x] + Total(On(f, T))
        /\ Total(On(g, T \cup {x})) = g[x] + Total(On(g, T))
        /\ Total(On(h, T \cup {x})) = h[x] + Total(On(h, T))
    BY TotalAdd
  <2>3. Total(On(h, T \cup {x})) = Total(On(f, T \cup {x})) + Total(On(g, T \cup {x}))
    BY <2>1, <2>2
  <2> QED  BY <2>3
<1>3. G = SUBSET S
  <2>1. G \in SUBSET SUBSET S
    OBVIOUS
  <2> HIDE DEF G
  <2> QED  BY <1>1, <1>2, <2>1, SubsetInduction
<1>4. On(f, S) = f /\ On(g, S) = g /\ On(h, S) = h
  BY TotalType
<1> QED
  BY <1>3, <1>4

\* Larger terms have a larger sum, and k times larger ones k times that sum.
LEMMA TotalScaled ==
    ASSUME NEW S, IsFiniteSet(S), NEW k \in Int, NEW f \in [S -> Int], NEW g \in [S -> Int],
           \A x \in S : k * f[x] <= g[x]
    PROVE  k * Total(f) <= Total(g)
<1> DEFINE G == {T \in SUBSET S : k * Total(On(f, T)) <= Total(On(g, T))}
<1>1. {} \in G
  BY TotalType
<1>2. ASSUME NEW T \in G, NEW x \in S \ T PROVE T \cup {x} \in G
  <2>1. /\ Total(On(f, T)) \in Int /\ Total(On(g, T)) \in Int
    BY TotalType
  <2>2. /\ Total(On(f, T \cup {x})) = f[x] + Total(On(f, T))
        /\ Total(On(g, T \cup {x})) = g[x] + Total(On(g, T))
    BY TotalAdd
  <2>3. \A a, b \in Int : k * (a + b) = k * a + k * b /\ k * a \in Int
    OBVIOUS
  <2>4. k * (f[x] + Total(On(f, T))) = k * f[x] + k * Total(On(f, T))
        /\ k * f[x] \in Int /\ k * Total(On(f, T)) \in Int
    BY <2>1, <2>3
  <2>5. k * f[x] <= g[x] /\ k * Total(On(f, T)) <= Total(On(g, T)) /\ g[x] \in Int
    OBVIOUS
  <2> DEFINE a == k * f[x]  b == k * Total(On(f, T))
  <2>6. a + b <= g[x] + Total(On(g, T))
    <3>1. a \in Int /\ b \in Int /\ a <= g[x] /\ b <= Total(On(g, T))
      BY <2>4, <2>5
    <3> HIDE DEF a, b
    <3> QED  BY <2>1, <2>5, <3>1
  <2>7. k * Total(On(f, T \cup {x})) <= Total(On(g, T \cup {x}))
    BY <2>2, <2>4, <2>6
  <2> QED  BY <2>7
<1>3. G = SUBSET S
  <2>1. G \in SUBSET SUBSET S
    OBVIOUS
  <2> HIDE DEF G
  <2> QED  BY <1>1, <1>2, <2>1, SubsetInduction
<1>4. On(f, S) = f /\ On(g, S) = g
  BY TotalType
<1> QED
  BY <1>3, <1>4

LEMMA TotalMonotone ==
    ASSUME NEW S, IsFiniteSet(S), NEW f \in [S -> Int], NEW g \in [S -> Int],
           \A x \in S : f[x] <= g[x]
    PROVE  Total(f) <= Total(g)
<1>1. \A x \in S : 1 * f[x] <= g[x]
  OBVIOUS
<1>2. 1 * Total(f) <= Total(g)
  BY <1>1, TotalScaled
<1>3. Total(f) \in Int
  BY TotalType
<1> QED
  BY <1>2, <1>3

LEMMA TotalZero ==
    ASSUME NEW S, IsFiniteSet(S), NEW f \in [S -> Int], \A x \in S : f[x] = 0
    PROVE  Total(f) = 0
<1> DEFINE t == Total(f)
<1>1. \A x \in S : f[x] = f[x] + f[x]
  OBVIOUS
<1>2. t = t + t
  BY <1>1, TotalPlus
<1>3. t \in Int
  BY TotalType
<1> HIDE DEF t
<1>4. t = 0
  BY <1>2, <1>3
<1> QED
  BY <1>4 DEF t

\* One term changed.
LEMMA TotalUpdate ==
    ASSUME NEW S, IsFiniteSet(S), NEW f \in [S -> Int], NEW u \in S, NEW v \in Int
    PROVE  Total([f EXCEPT ![u] = v]) = Total(f) - f[u] + v
<1> DEFINE g == [f EXCEPT ![u] = v]
<1>1. g \in [S -> Int] /\ g[u] = v /\ On(g, S \ {u}) = On(f, S \ {u})
  BY DEF On
<1> HIDE DEF g
<1>2. /\ Total(f) = f[u] + Total(On(f, S \ {u}))
      /\ Total(g) = g[u] + Total(On(g, S \ {u}))
  BY <1>1, TotalRemove
<1>3. Total(On(f, S \ {u})) \in Int
  BY TotalType
<1> QED
  BY <1>1, <1>2, <1>3 DEF g

\* The sum over some of the domain, the other terms being zero.
LEMMA TotalFilter ==
    ASSUME NEW S, IsFiniteSet(S), NEW T \in SUBSET S, NEW f \in [T -> Int],
           NEW g \in [S -> Int], \A x \in S : g[x] = IF x \in T THEN f[x] ELSE 0
    PROVE  Total(f) = Total(g)
<1> DEFINE G == {R \in SUBSET S : Total(On(f, R \cap T)) = Total(On(g, R))}
<1>1. IsFiniteSet(T)
  BY FS_Subset
<1>2. {} \in G
  <2>1. {} \cap T = {} /\ On(f, {} \cap T) = On(f, {})
    BY DEF On
  <2> QED  BY <1>1, <2>1, TotalType
<1>3. ASSUME NEW R \in G, NEW x \in S \ R PROVE R \cup {x} \in G
  <2>1. Total(On(g, R \cup {x})) = g[x] + Total(On(g, R)) /\ Total(On(g, R)) \in Int
    BY TotalAdd, TotalType
  <2>2. CASE x \in T
    <3>1. (R \cup {x}) \cap T = (R \cap T) \cup {x} /\ x \in T \ (R \cap T) /\ g[x] = f[x]
      BY <2>2
    <3>2. Total(On(f, (R \cap T) \cup {x})) = f[x] + Total(On(f, R \cap T))
      BY <1>1, <3>1, TotalAdd
    <3> QED  BY <2>1, <3>1, <3>2
  <2>3. CASE x \notin T
    <3>1. (R \cup {x}) \cap T = R \cap T /\ g[x] = 0
      BY <2>3
    <3>2. Total(On(g, R)) = Total(On(f, R \cap T))
      OBVIOUS
    <3>3. Total(On(g, R \cup {x})) = Total(On(g, R))
      BY <2>1, <3>1
    <3>4. Total(On(f, (R \cup {x}) \cap T)) = Total(On(g, R \cup {x}))
      BY <3>1, <3>2, <3>3, Zenon
    <3> QED  BY <3>4
  <2> QED  BY <2>2, <2>3
<1>4. G = SUBSET S
  <2>1. G \in SUBSET SUBSET S
    OBVIOUS
  <2> HIDE DEF G
  <2> QED  BY <1>2, <1>3, <2>1, SubsetInduction
<1>5. S \cap T = T /\ On(f, T) = f /\ On(g, S) = g
  BY <1>1, TotalType
<1>6. S \in G
  BY <1>4
<1> QED
  BY <1>5, <1>6

\* The sums of two functions, as one.
LEMMA TotalTogether ==
    ASSUME NEW S, IsFiniteSet(S), NEW f \in [S -> Int], NEW g \in [S -> Int]
    PROVE  Total([x \in S |-> f[x] + g[x]]) = Total(f) + Total(g)
<1> DEFINE h == [x \in S |-> f[x] + g[x]]
<1>1. h \in [S -> Int] /\ \A x \in S : h[x] = f[x] + g[x]
  OBVIOUS
<1> HIDE DEF h
<1>2. Total(h) = Total(f) + Total(g)
  BY <1>1, TotalPlus
<1> QED
  BY <1>2 DEF h

LEMMA TotalMinus ==
    ASSUME NEW S, IsFiniteSet(S), NEW f \in [S -> Int], NEW g \in [S -> Int],
           \A x \in S : g[x] = -f[x]
    PROVE  Total(g) = -Total(f)
<1> DEFINE z == [x \in S |-> f[x] + g[x]]
<1>1. z \in [S -> Int] /\ \A x \in S : z[x] = 0
  OBVIOUS
<1>2. Total(z) = Total(f) + Total(g)
  BY TotalTogether
<1> HIDE DEF z
<1>3. Total(z) = 0
  BY <1>1, TotalZero
<1>4. Total(f) \in Int /\ Total(g) \in Int
  BY TotalType
<1> QED
  BY <1>2, <1>3, <1>4

\* A common factor.
LEMMA TotalTimes ==
    ASSUME NEW S, IsFiniteSet(S), NEW k \in Int, NEW f \in [S -> Int], NEW h \in [S -> Int],
           \A x \in S : h[x] = k * f[x]
    PROVE  Total(h) = k * Total(f)
<1> DEFINE n == [x \in S |-> -h[x]]
<1>1. n \in [S -> Int] /\ -k \in Int /\ \A x \in S : n[x] = -h[x]
  OBVIOUS
<1>2. \A x \in S : k * f[x] <= h[x]
  OBVIOUS
<1>3. \A x \in S : (-k) * f[x] <= n[x]
  OBVIOUS
<1> HIDE DEF n
<1>4. k * Total(f) <= Total(h)
  BY <1>2, TotalScaled
<1>5. (-k) * Total(f) <= Total(n)
  BY <1>1, <1>3, TotalScaled
<1>6. Total(n) = -Total(h)
  BY <1>1, TotalMinus
<1>7. Total(f) \in Int /\ Total(h) \in Int
  BY TotalType
<1>8. \A a, b \in Int : k * a <= b /\ (-k) * a <= -b => b = k * a
  OBVIOUS
<1> QED
  BY <1>4, <1>5, <1>6, <1>7, <1>8
=============================================================================
