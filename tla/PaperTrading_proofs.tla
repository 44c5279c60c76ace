-------------------------- MODULE PaperTrading_proofs --------------------------
(***************************************************************************)
(* Proofs about PaperTrading for any number of workers and positions, any  *)
(* prices, quantities and scales: what trades and revaluations cannot do   *)
(* to quantities, to the cash and to the books, however they interleave.   *)
(***************************************************************************)
EXTENDS PaperTrading, FiniteSetTheorems, TLAPS

-------------------------------------------------------------------------------
(* Facts about sums over finite sets.                                      *)

(* Induction over the natural numbers, for a set of them.                  *)
LEMMA AllNaturals ==
  ASSUME NEW T, 0 \in T, \A n \in Nat : n \in T => n + 1 \in T
  PROVE  \A n \in Nat : n \in T
<1> SUFFICES ASSUME Nat \ T # {} PROVE FALSE
  OBVIOUS
<1> DEFINE Less == {ss \in Nat \X Nat : ss[1] < ss[2]}
<1>1. IsWellFoundedOn(Less, Nat)
  BY NatLessThanWellFounded DEF OpToRel
<1>2. \A n \in Nat : <<n, n + 1>> \in Less
  OBVIOUS
<1> HIDE DEF Less
<1>3. PICK m \in Nat \ T : \A y \in Nat \ T : ~(<<y, m>> \in Less)
  BY <1>1, WFMin
<1>4. m - 1 \in Nat /\ (m - 1) + 1 = m
  BY <1>3
<1>5. <<m - 1, m>> \in Less
  BY <1>2, <1>4
<1> QED BY <1>3, <1>4, <1>5

(* The function that SumFunctionOnSet iterates.                            *)
Chosen(s) == CHOOSE x \in s : TRUE
SumStep(f, g, s) == IF s = {} THEN 0 ELSE f[Chosen(s)] + g[s \ {Chosen(s)}]
Sums(f, S) == CHOOSE g : g = [s \in SUBSET S |-> SumStep(f, g, s)]

LEMMA StepOfEmpty ==
  ASSUME NEW f, NEW g
  PROVE  SumStep(f, g, {}) = 0
BY DEF SumStep

LEMMA SumIsSums ==
  ASSUME NEW f, NEW S
  PROVE  SumFunctionOnSet(f, S) = Sums(f, S)[S]
BY DEF SumFunctionOnSet, FoldFunctionOnSet, MapThenFoldSet, Sums, SumStep, Chosen

LEMMA Smaller ==
  ASSUME NEW S, IsFiniteSet(S), NEW s \in SUBSET S, s # {}
  PROVE  /\ Chosen(s) \in s
         /\ \A x \in s : /\ s \ {x} \in SUBSET S
                         /\ Cardinality(s \ {x}) \in Nat
                         /\ Cardinality(s) = Cardinality(s \ {x}) + 1
<1>1. Chosen(s) \in s
  BY DEF Chosen
<1>2. IsFiniteSet(s) /\ Cardinality(s) \in Nat
  BY FS_Subset, FS_CardinalityType
<1>3. ASSUME NEW x \in s
      PROVE  /\ s \ {x} \in SUBSET S
             /\ Cardinality(s \ {x}) \in Nat /\ Cardinality(s) = Cardinality(s \ {x}) + 1
  <2>1. Cardinality(s \ {x}) = Cardinality(s) - 1 /\ IsFiniteSet(s \ {x})
    BY <1>2, FS_RemoveElement
  <2>2. Cardinality(s \ {x}) \in Nat
    BY <2>1, FS_CardinalityType
  <2> QED BY <1>2, <2>1, <2>2
<1> QED BY <1>1, <1>3

LEMMA SumsDef ==
  ASSUME NEW S, IsFiniteSet(S), NEW f, \A x \in S : f[x] \in Int
  PROVE  /\ \A s \in SUBSET S : Sums(f, S)[s] = SumStep(f, Sums(f, S), s)
         /\ Sums(f, S) = [s \in SUBSET S |-> Sums(f, S)[s]]
<1> DEFINE Good(g, n) == \A s \in SUBSET S : Cardinality(s) <= n => g[s] = SumStep(f, g, s)
           T == {n \in Nat : \E g \in [SUBSET S -> Int] : Good(g, n)}
<1>0. \A s \in SUBSET S : IsFiniteSet(s) /\ Cardinality(s) \in Nat /\ (Cardinality(s) = 0 <=> s = {})
  BY FS_Subset, FS_CardinalityType, FS_EmptySet
<1>1. 0 \in T
  <2>1. [s \in SUBSET S |-> 0] \in [SUBSET S -> Int]
    OBVIOUS
  <2>2. Good([s \in SUBSET S |-> 0], 0)
    BY <1>0 DEF SumStep
  <2> QED BY <2>1, <2>2
<1>2. ASSUME NEW n \in Nat, n \in T PROVE n + 1 \in T
  <2>1. PICK g \in [SUBSET S -> Int] : Good(g, n)
    BY <1>2
  <2> DEFINE h == [s \in SUBSET S |-> SumStep(f, g, s)]
  <2>2. h \in [SUBSET S -> Int]
    <3>1. ASSUME NEW s \in SUBSET S PROVE SumStep(f, g, s) \in Int
      <4>1. CASE s = {}
        BY <4>1 DEF SumStep
      <4>2. CASE s # {}
        BY <4>2, Smaller DEF SumStep
      <4> QED BY <4>1, <4>2
    <3> QED BY <3>1
  <2>3. ASSUME NEW s \in SUBSET S, Cardinality(s) <= n + 1
        PROVE  h[s] = SumStep(f, h, s)
    <3>1. CASE s = {}
      BY <3>1 DEF SumStep
    <3>2. CASE s # {}
      <4> DEFINE x == Chosen(s)
      <4>1. s \ {x} \in SUBSET S /\ Cardinality(s \ {x}) <= n
        BY <1>0, <2>3, <3>2, Smaller
      <4>2. h[s \ {x}] = g[s \ {x}]
        BY <2>1, <4>1
      <4> QED BY <3>2, <4>2 DEF SumStep
    <3> QED BY <3>1, <3>2
  <2>4. Good(h, n + 1)
    BY <2>3
  <2> HIDE DEF h, Good
  <2> QED BY <2>2, <2>4
<1>3. Cardinality(S) \in Nat /\ \A s \in SUBSET S : Cardinality(s) <= Cardinality(S)
  BY FS_Subset, FS_CardinalityType
<1>4. PICK g \in [SUBSET S -> Int] : Good(g, Cardinality(S))
  <2> HIDE DEF Good
  <2>1. Cardinality(S) \in T
    <3> HIDE DEF T
    <3> QED BY <1>1, <1>2, <1>3, AllNaturals
  <2> QED BY <2>1
<1>5. g = [s \in SUBSET S |-> SumStep(f, g, s)]
  BY <1>3, <1>4
<1>6. Sums(f, S) = [s \in SUBSET S |-> SumStep(f, Sums(f, S), s)]
  BY <1>5 DEF Sums
<1>7. \A s \in SUBSET S : Sums(f, S)[s] = SumStep(f, Sums(f, S), s)
  <2> TAKE s \in SUBSET S
  <2> QED BY <1>6, Zenon
<1>8. Sums(f, S) = [s \in SUBSET S |-> Sums(f, S)[s]]
  BY <1>6
<1> QED BY <1>7, <1>8

LEMMA SumsType ==
  ASSUME NEW S, IsFiniteSet(S), NEW f, \A x \in S : f[x] \in Int
  PROVE  Sums(f, S) \in [SUBSET S -> Int]
<1>1. PICK k : k = Sums(f, S)
  OBVIOUS
<1>2. Sums(f, S) = [s \in SUBSET S |-> Sums(f, S)[s]]
  BY SumsDef
<1>3. \A s \in SUBSET S : k[s] = SumStep(f, k, s)
  BY <1>1, SumsDef
<1> DEFINE U == {n \in Nat : \A s \in SUBSET S : Cardinality(s) <= n => k[s] \in Int}
<1>4. k[{}] = 0
  BY <1>3, StepOfEmpty
<1>5. \A s \in SUBSET S : Cardinality(s) \in Nat /\ (Cardinality(s) = 0 => s = {})
  BY FS_Subset, FS_CardinalityType, FS_EmptySet
<1>6. 0 \in U
  BY <1>4, <1>5
<1>7. ASSUME NEW n \in Nat, n \in U PROVE n + 1 \in U
  <2>1. ASSUME NEW s \in SUBSET S, Cardinality(s) <= n + 1 PROVE k[s] \in Int
    <3>1. CASE s = {}
      BY <1>4, <3>1
    <3>2. CASE s # {}
      <4>1. PICK x : x = Chosen(s)
        OBVIOUS
      <4>2. s \ {x} \in SUBSET S /\ Cardinality(s \ {x}) <= n /\ x \in s
        BY <1>5, <2>1, <3>2, <4>1, Smaller
      <4>3. k[s \ {x}] \in Int /\ f[x] \in Int
        BY <1>7, <4>2
      <4>4. k[s] = f[x] + k[s \ {x}]
        BY <1>3, <3>2, <4>1 DEF SumStep
      <4> QED BY <4>3, <4>4
    <3> QED BY <3>1, <3>2
  <2> QED BY <2>1
<1>8. Cardinality(S) \in Nat /\ \A s \in SUBSET S : Cardinality(s) <= Cardinality(S)
  BY FS_Subset, FS_CardinalityType
<1>9. Cardinality(S) \in U
  <2> HIDE DEF U
  <2> QED BY <1>6, <1>7, <1>8, AllNaturals
<1>10. \A s \in SUBSET S : k[s] \in Int
  BY <1>8, <1>9
<1>11. \A s \in SUBSET S : Sums(f, S)[s] \in Int
  BY <1>1, <1>10
<1> QED BY <1>2, <1>11

(* Any element may be taken out of a sum, not only the one chosen first.   *)
LEMMA SumsRemove ==
  ASSUME NEW S, IsFiniteSet(S), NEW f, \A x \in S : f[x] \in Int,
         NEW s \in SUBSET S, NEW e \in s
  PROVE  Sums(f, S)[s] = f[e] + Sums(f, S)[s \ {e}]
<1>1. PICK k : k = Sums(f, S)
  OBVIOUS
<1>2. \A t \in SUBSET S : k[t] = SumStep(f, k, t) /\ k[t] \in Int
  <2>1. Sums(f, S) \in [SUBSET S -> Int]
    BY SumsType
  <2>2. \A t \in SUBSET S : k[t] = SumStep(f, k, t)
    BY <1>1, SumsDef
  <2>3. \A t \in SUBSET S : k[t] \in Int
    BY <1>1, <2>1
  <2> QED BY <2>2, <2>3
<1> DEFINE U == {n \in Nat : \A t \in SUBSET S : Cardinality(t) <= n =>
                               \A y \in t : k[t] = f[y] + k[t \ {y}]}
<1>3. \A t \in SUBSET S : Cardinality(t) \in Nat /\ (Cardinality(t) = 0 => t = {})
  BY FS_Subset, FS_CardinalityType, FS_EmptySet
<1>4. 0 \in U
  BY <1>3
<1>5. ASSUME NEW n \in Nat, n \in U PROVE n + 1 \in U
  <2>1. ASSUME NEW t \in SUBSET S, Cardinality(t) <= n + 1, NEW y \in t
        PROVE  k[t] = f[y] + k[t \ {y}]
    <3>1. PICK x : x = Chosen(t)
      OBVIOUS
    <3>2. /\ x \in t /\ t \ {x} \in SUBSET S /\ Cardinality(t \ {x}) <= n
          /\ t \ {y} \in SUBSET S /\ Cardinality(t \ {y}) <= n
      BY <1>3, <2>1, <3>1, Smaller
    <3>3. k[t] = f[x] + k[t \ {x}]
      BY <1>2, <3>1 DEF SumStep
    <3>4. CASE x = y
      BY <3>3, <3>4
    <3>5. CASE x # y
      <4>1. y \in t \ {x} /\ x \in t \ {y} /\ (t \ {x}) \ {y} = (t \ {y}) \ {x}
        BY <3>2, <3>5
      <4>2. k[t \ {x}] = f[y] + k[(t \ {x}) \ {y}]
        BY <1>5, <3>2, <4>1
      <4>3. k[t \ {y}] = f[x] + k[(t \ {y}) \ {x}]
        BY <1>5, <3>2, <4>1
      <4>4. PICK r \in Int : r = k[(t \ {x}) \ {y}]
        <5>1. (t \ {x}) \ {y} \in SUBSET S
          OBVIOUS
        <5> QED BY <1>2, <5>1
      <4>5. f[x] \in Int /\ f[y] \in Int
        BY <3>2
      <4>6. k[t \ {x}] = f[y] + r /\ k[t \ {y}] = f[x] + r
        BY <4>1, <4>2, <4>3, <4>4
      <4> QED BY <3>3, <4>4, <4>5, <4>6
    <3> QED BY <3>4, <3>5
  <2> QED BY <2>1
<1>6. Cardinality(S) \in Nat /\ Cardinality(s) <= Cardinality(S)
  BY FS_Subset, FS_CardinalityType
<1>7. Cardinality(S) \in U
  <2> HIDE DEF U
  <2> QED BY <1>4, <1>5, <1>6, AllNaturals
<1> QED BY <1>1, <1>6, <1>7

(* A sum depends on what is summed only.                                   *)
LEMMA SumsEqual ==
  ASSUME NEW S, IsFiniteSet(S), NEW f, NEW g, \A x \in S : f[x] \in Int /\ g[x] \in Int,
         NEW s \in SUBSET S, \A x \in s : f[x] = g[x]
  PROVE  Sums(f, S)[s] = Sums(g, S)[s]
<1>1. PICK k, l : k = Sums(f, S) /\ l = Sums(g, S)
  OBVIOUS
<1>2. \A t \in SUBSET S : k[t] = SumStep(f, k, t) /\ l[t] = SumStep(g, l, t)
  BY <1>1, SumsDef
<1> DEFINE U == {n \in Nat : \A t \in SUBSET s : Cardinality(t) <= n => k[t] = l[t]}
<1>3. \A t \in SUBSET S : Cardinality(t) \in Nat /\ (Cardinality(t) = 0 => t = {})
  BY FS_Subset, FS_CardinalityType, FS_EmptySet
<1>4. k[{}] = 0 /\ l[{}] = 0
  BY <1>2, StepOfEmpty
<1>5. 0 \in U
  BY <1>3, <1>4
<1>6. ASSUME NEW n \in Nat, n \in U PROVE n + 1 \in U
  <2>1. ASSUME NEW t \in SUBSET s, Cardinality(t) <= n + 1 PROVE k[t] = l[t]
    <3>1. CASE t = {}
      BY <1>4, <3>1
    <3>2. CASE t # {}
      <4>1. PICK x : x = Chosen(t)
        OBVIOUS
      <4>2. t \in SUBSET S
        OBVIOUS
      <4>3. x \in t /\ Cardinality(t \ {x}) <= n
        BY <1>3, <2>1, <3>2, <4>1, <4>2, Smaller
      <4>4. t \ {x} \in SUBSET s
        OBVIOUS
      <4>5. k[t \ {x}] = l[t \ {x}] /\ f[x] = g[x]
        BY <1>6, <4>3, <4>4
      <4>6. k[t] = f[x] + k[t \ {x}]
        BY <1>2, <3>2, <4>1, <4>2 DEF SumStep
      <4>7. l[t] = g[x] + l[t \ {x}]
        BY <1>2, <3>2, <4>1, <4>2 DEF SumStep
      <4> QED BY <4>5, <4>6, <4>7
    <3> QED BY <3>1, <3>2
  <2> QED BY <2>1
<1>7. Cardinality(s) \in Nat
  BY <1>3
<1>8. Cardinality(s) \in U
  <2> HIDE DEF U
  <2> QED BY <1>5, <1>6, <1>7, AllNaturals
<1> QED BY <1>1, <1>7, <1>8

-------------------------------------------------------------------------------
(* What the proofs use: the type of a sum, the sum of nothing and of one,  *)
(* and what becomes of a sum when one of its terms changes.                *)

LEMMA SumType ==
  ASSUME NEW S, IsFiniteSet(S), NEW f, \A x \in S : f[x] \in Int
  PROVE  SumFunctionOnSet(f, S) \in Int
BY SumIsSums, SumsType

(* Functions that agree but for one element: so do their sums.             *)
LEMMA SumChanges ==
  ASSUME NEW S, IsFiniteSet(S), NEW f, NEW g, \A x \in S : f[x] \in Int /\ g[x] \in Int,
         NEW e \in S, \A x \in S \ {e} : f[x] = g[x]
  PROVE  SumFunctionOnSet(g, S) = SumFunctionOnSet(f, S) + g[e] - f[e]
<1>1. S \in SUBSET S /\ S \ {e} \in SUBSET S
  OBVIOUS
<1>2. Sums(f, S)[S] = f[e] + Sums(f, S)[S \ {e}]
  BY <1>1, SumsRemove
<1>3. Sums(g, S)[S] = g[e] + Sums(g, S)[S \ {e}]
  BY <1>1, SumsRemove
<1>4. Sums(f, S)[S \ {e}] = Sums(g, S)[S \ {e}]
  BY <1>1, SumsEqual
<1>5. Sums(f, S)[S \ {e}] \in Int
  <2>1. Sums(f, S) \in [SUBSET S -> Int]
    BY SumsType
  <2> QED BY <1>1, <2>1
<1> QED BY <1>2, <1>3, <1>4, <1>5, SumIsSums

-------------------------------------------------------------------------------
(* Arithmetic: rounding keeps natural numbers natural.                     *)

LEMMA ScaleType == Scale \in Nat \ {0}
BY LedgerScales DEF Scale

LEMMA DivType ==
  ASSUME NEW n \in Nat, NEW d \in Nat \ {0}
  PROVE  n \div d \in Nat
OBVIOUS

LEMMA HalfUpNatType ==
  ASSUME NEW n \in Nat, NEW d \in Nat \ {0}
  PROVE  HalfUpNat(n, d) \in Nat
<1>1. 2 * n + d \in Nat /\ 2 * d \in Nat \ {0}
  OBVIOUS
<1> QED BY <1>1, DivType DEF HalfUpNat

LEMMA HalfUpType ==
  ASSUME NEW n \in Int, NEW d \in Nat \ {0}
  PROVE  HalfUp(n, d) \in Int /\ (n >= 0 => HalfUp(n, d) \in Nat)
<1>1. CASE n >= 0
  <2>1. n \in Nat
    BY <1>1
  <2> QED BY <1>1, <2>1, HalfUpNatType DEF HalfUp
<1>2. CASE ~(n >= 0)
  <2>1. -n \in Nat
    BY <1>2
  <2>2. HalfUpNat(-n, d) \in Nat
    BY <2>1, HalfUpNatType
  <2>3. HalfUp(n, d) = -HalfUpNat(-n, d)
    BY <1>2 DEF HalfUp
  <2> QED BY <1>2, <2>2, <2>3
<1> QED BY <1>1, <1>2

LEMMA HalfEvenType ==
  ASSUME NEW n \in Nat, NEW d \in Nat \ {0}
  PROVE  HalfEven(n, d) \in Nat
<1> DEFINE up == HalfUpNat(n, d)
<1>1. up \in Nat
  BY HalfUpNatType
<1>2. up % 2 = 1 => up # 0
  BY <1>1
<1>3. up % 2 = 1 => up - 1 \in Nat
  BY <1>1, <1>2
<1> QED BY <1>1, <1>3 DEF HalfEven

LEMMA TimesType ==
  ASSUME NEW m \in Nat, NEW n \in Nat
  PROVE  m * n \in Nat
OBVIOUS

LEMMA AmountType ==
  ASSUME NEW q \in Nat, NEW x \in Nat
  PROVE  Amount(q, x) \in Nat
<1>1. q * x \in Nat
  BY TimesType
<1> QED BY <1>1, ScaleType, HalfUpType DEF Amount

(* The quotient and the rest.                                              *)
LEMMA DivIs ==
  ASSUME NEW n \in Nat, NEW d \in Nat \ {0}
  PROVE  n \div d \in Nat /\ (n \div d) * d <= n /\ n < (n \div d) * d + d
OBVIOUS

LEMMA DivMod ==
  ASSUME NEW n \in Nat, NEW d \in Nat \ {0}, n % d = 0
  PROVE  n = (n \div d) * d
OBVIOUS

(* Rounding is off by half a unit at most, up or down.                     *)
LEMMA HalfUpNatIs ==
  ASSUME NEW n \in Nat, NEW d \in Nat \ {0}
  PROVE  /\ HalfUpNat(n, d) \in Nat
         /\ 2 * (HalfUpNat(n, d) * d) <= 2 * n + d
         /\ 2 * (HalfUpNat(n, d) * d) > 2 * n - d
<1>1. 2 * n + d \in Nat /\ 2 * d \in Nat \ {0}
  OBVIOUS
<1>2. PICK k : k = (2 * n + d) \div (2 * d)
  OBVIOUS
<1>3. k \in Nat /\ k * (2 * d) <= 2 * n + d /\ 2 * n + d < k * (2 * d) + 2 * d
  BY <1>1, <1>2, DivIs
<1>4. k * (2 * d) = 2 * (k * d) /\ k * d \in Nat
  BY <1>3
<1> QED BY <1>2, <1>3, <1>4 DEF HalfUpNat

LEMMA HalfUpIs ==
  ASSUME NEW n \in Int, NEW d \in Nat \ {0}
  PROVE  /\ HalfUp(n, d) \in Int
         /\ 2 * (HalfUp(n, d) * d) <= 2 * n + d
         /\ 2 * (HalfUp(n, d) * d) >= 2 * n - d
         /\ n >= 0 => 2 * (HalfUp(n, d) * d) > 2 * n - d
<1>1. CASE n >= 0
  <2>1. n \in Nat /\ HalfUp(n, d) = HalfUpNat(n, d)
    BY <1>1 DEF HalfUp
  <2>2. PICK k : k = HalfUpNat(n, d)
    OBVIOUS
  <2>3. k \in Nat /\ 2 * (k * d) <= 2 * n + d /\ 2 * (k * d) > 2 * n - d
    BY <2>1, <2>2, HalfUpNatIs
  <2>4. k * d \in Nat
    BY <2>3
  <2> QED BY <2>1, <2>2, <2>3, <2>4
<1>2. CASE ~(n >= 0)
  <2>1. -n \in Nat /\ HalfUp(n, d) = -HalfUpNat(-n, d)
    BY <1>2 DEF HalfUp
  <2>2. PICK k \in Nat : k = HalfUpNat(-n, d)
    BY <2>1, HalfUpNatIs
  <2>3. 2 * (k * d) <= 2 * (-n) + d /\ 2 * (k * d) > 2 * (-n) - d
    BY <2>1, <2>2, HalfUpNatIs
  <2>4. (-k) * d = -(k * d) /\ k * d \in Nat /\ HalfUp(n, d) = -k
    BY <2>1, <2>2
  <2> QED BY <1>2, <2>3, <2>4
<1> QED BY <1>1, <1>2

LEMMA HalfEvenIs ==
  ASSUME NEW n \in Nat, NEW d \in Nat \ {0}
  PROVE  /\ HalfEven(n, d) \in Nat
         /\ 2 * (HalfEven(n, d) * d) <= 2 * n + d
         /\ 2 * (HalfEven(n, d) * d) >= 2 * n - d
<1>1. PICK up : up = HalfUpNat(n, d)
  OBVIOUS
<1>2. /\ up \in Nat /\ 2 * (up * d) <= 2 * n + d /\ 2 * (up * d) > 2 * n - d
      /\ up * d \in Nat
  <2>1. /\ up \in Nat /\ 2 * (up * d) <= 2 * n + d /\ 2 * (up * d) > 2 * n - d
    BY <1>1, HalfUpNatIs
  <2>2. up * d \in Nat
    BY <2>1
  <2> QED BY <2>1, <2>2
<1>3. CASE (2 * n + d) % (2 * d) = 0 /\ up % 2 = 1
  <2>1. HalfEven(n, d) = up - 1
    BY <1>1, <1>3 DEF HalfEven
  <2>2. up - 1 \in Nat /\ (up - 1) * d = up * d - d
    BY <1>2, <1>3
  <2>3. 2 * (up * d) = 2 * n + d
    <3>1. PICK m \in Nat \ {0} : m = 2 * d
      OBVIOUS
    <3>2. PICK k \in Nat : k = 2 * n + d
      OBVIOUS
    <3>3. up = k \div m /\ k % m = 0
      BY <1>1, <1>3, <3>1, <3>2 DEF HalfUpNat
    <3>4. k = up * m
      BY <3>3, DivMod
    <3>5. k = up * (2 * d)
      BY <3>1, <3>4
    <3> QED BY <1>2, <3>2, <3>5
  <2> QED BY <1>2, <2>1, <2>2, <2>3
<1>4. CASE ~((2 * n + d) % (2 * d) = 0 /\ up % 2 = 1)
  <2>1. HalfEven(n, d) = up
    BY <1>1, <1>4 DEF HalfEven
  <2> QED BY <1>2, <2>1
<1> QED BY <1>3, <1>4

LEMMA AmountIs ==
  ASSUME NEW q \in Nat, NEW x \in Nat
  PROVE  /\ Amount(q, x) \in Nat /\ Amount(q, x) * Scale \in Nat
         /\ 2 * (Amount(q, x) * Scale) <= 2 * (q * x) + Scale
         /\ 2 * (Amount(q, x) * Scale) > 2 * (q * x) - Scale
<1>1. q * x \in Nat
  BY TimesType
<1>2. Amount(q, x) \in Nat
  BY AmountType
<1>3. Amount(q, x) * Scale \in Nat
  BY <1>2, ScaleType, TimesType
<1> QED BY <1>1, <1>2, <1>3, ScaleType, HalfUpIs DEF Amount

(* The cost basis after a BUY is that before and what was paid, but for    *)
(* the rounding of the average entry price, which counts for every unit.   *)
LEMMA BoughtCosts ==
  ASSUME NEW r \in Position, NEW q \in Nat \ {0}, NEW x \in Nat,
         NEW d \in Int, d = CostBasis(Bought(r, q, x)) - CostBasis(r) - Amount(q, x)
  PROVE  2 * (Scale * d) <= r.qty + q + Scale /\ 2 * (Scale * d) >= -(r.qty + q + Scale)
<1>1. PICK S \in Nat \ {0} : S = Scale
  BY ScaleType
<1>2. PICK n \in Nat \ {0} : n = r.qty + q
  BY DEF Position
<1>3. PICK c \in Nat : c = CostBasis(r) + Amount(q, x)
  <2>1. CostBasis(r) \in Nat /\ Amount(q, x) \in Nat
    BY AmountType DEF CostBasis, Position
  <2> QED BY <2>1
<1>4. PICK t \in Nat : t = c * S
  BY TimesType
<1>5. PICK avg : avg = HalfEven(t, n)
  OBVIOUS
<1>6. avg \in Nat /\ 2 * (avg * n) <= 2 * t + n /\ 2 * (avg * n) >= 2 * t - n
  BY <1>5, HalfEvenIs
<1>7. PICK k : k = Amount(n, avg)
  OBVIOUS
<1>8. /\ k \in Nat /\ k * S \in Nat
      /\ 2 * (k * S) <= 2 * (n * avg) + S /\ 2 * (k * S) > 2 * (n * avg) - S
  BY <1>1, <1>6, <1>7, AmountIs
<1>9. n * avg = avg * n /\ avg * n \in Nat
  BY <1>6
<1>10. CostBasis(Bought(r, q, x)) = k
  <2>1. Bought(r, q, x).qty = n /\ Bought(r, q, x).avg = avg
    BY <1>1, <1>2, <1>3, <1>4, <1>5 DEF Bought, Position
  <2> QED BY <1>7, <2>1 DEF CostBasis
<1>11. d = k - c
  <2>1. CostBasis(r) \in Nat /\ Amount(q, x) \in Nat
    BY AmountType DEF CostBasis, Position
  <2> QED BY <1>3, <1>8, <1>10, <2>1
<1>12. S * d = k * S - t
  <2>1. k \in Nat
    BY <1>8
  <2>2. S * (k - c) = k * S - c * S
    BY <2>1
  <2> QED BY <1>4, <1>11, <2>2
<1>13. 2 * (S * d) <= n + S /\ 2 * (S * d) >= -(n + S)
  BY <1>6, <1>8, <1>9, <1>12
<1> QED BY <1>1, <1>2, <1>13

(* A SELL is rounded four times, and each time by half a cent at most.     *)
LEMMA SoldCosts ==
  ASSUME NEW r \in Position, NEW q \in Nat, NEW x \in Nat, r.qty >= q,
         NEW d \in Int,
         d = Amount(q, x) + (CostBasis(Sold(r, q, x)) - Sold(r, q, x).realized)
             - (CostBasis(r) - r.realized)
  PROVE  d <= 1 /\ d >= -1
<1>1. PICK S \in Nat \ {0} : S = Scale
  BY ScaleType
<1>2. PICK n \in Nat : n = r.qty
  BY DEF Position
<1>3. PICK avg \in Nat : avg = r.avg
  BY DEF Position
<1>4. PICK left \in Nat : left = n - q
  BY <1>2
<1>5. PICK a : a = Amount(q, x)
  OBVIOUS
<1>6. PICK c : c = Amount(n, avg)
  OBVIOUS
<1>7. PICK k : k = Amount(left, avg)
  OBVIOUS
<1>8. PICK gain \in Int : gain = (x - avg) * q
  OBVIOUS
<1>9. PICK g : g = HalfUp(gain, S)
  OBVIOUS
<1>10. /\ a \in Nat /\ a * S \in Nat
       /\ 2 * (a * S) <= 2 * (q * x) + S /\ 2 * (a * S) > 2 * (q * x) - S
  BY <1>1, <1>5, AmountIs
<1>11. /\ c \in Nat /\ c * S \in Nat
       /\ 2 * (c * S) <= 2 * (n * avg) + S /\ 2 * (c * S) > 2 * (n * avg) - S
  BY <1>1, <1>6, AmountIs
<1>12. /\ k \in Nat /\ k * S \in Nat
       /\ 2 * (k * S) <= 2 * (left * avg) + S /\ 2 * (k * S) > 2 * (left * avg) - S
  BY <1>1, <1>7, AmountIs
<1>13. g \in Int /\ 2 * (g * S) <= 2 * gain + S /\ 2 * (g * S) >= 2 * gain - S
  BY <1>9, HalfUpIs
<1>14. q * x + left * avg = gain + n * avg
  BY <1>4, <1>8
<1>15. CostBasis(Sold(r, q, x)) = k
  <2>1. CASE n = q
    <3>1. Sold(r, q, x).qty = 0 /\ Sold(r, q, x).avg = 0 /\ left = 0
      BY <1>2, <1>4, <2>1 DEF Sold, Position
    <3>2. 0 * 0 = 0 /\ 0 * avg = 0
      OBVIOUS
    <3> QED BY <1>7, <3>1, <3>2 DEF CostBasis, Amount
  <2>2. CASE n # q
    <3>1. Sold(r, q, x).qty = left /\ Sold(r, q, x).avg = avg
      BY <1>2, <1>3, <1>4, <2>2 DEF Sold, Position
    <3> QED BY <1>7, <3>1 DEF CostBasis
  <2> QED BY <2>1, <2>2
<1>16. Sold(r, q, x).realized = r.realized + g /\ r.realized \in Int
  BY <1>1, <1>3, <1>8, <1>9 DEF Sold, Position
<1>17. CostBasis(r) = c
  BY <1>2, <1>3, <1>6 DEF CostBasis
<1>18. d = a + k - g - c
  BY <1>5, <1>10, <1>11, <1>12, <1>13, <1>15, <1>16, <1>17
<1>19. g * S \in Int /\ q * x \in Nat /\ n * avg \in Nat /\ left * avg \in Nat
  BY <1>13
<1>20. d * S = a * S + k * S - g * S - c * S
  BY <1>10, <1>11, <1>12, <1>13, <1>18
<1>21. PICK e \in Int : e = d * S
  OBVIOUS
<1>22. e < 2 * S /\ e > -(2 * S)
  BY <1>10, <1>11, <1>12, <1>13, <1>14, <1>19, <1>20, <1>21
<1>23. d >= 2 => d * S >= 2 * S
  OBVIOUS
<1>24. d <= -2 => d * S <= -(2 * S)
  OBVIOUS
<1> QED BY <1>21, <1>22, <1>23, <1>24

(* What trading and revaluing do to a position's row.                      *)
LEMMA BoughtType ==
  ASSUME NEW r \in Position, NEW q \in Nat \ {0}, NEW x \in Nat
  PROVE  Bought(r, q, x) \in Position /\ Bought(r, q, x).qty = r.qty + q
<1> DEFINE total == (CostBasis(r) + Amount(q, x)) * Scale
           avg == HalfEven(total, r.qty + q)
<1>1. r.qty \in Nat /\ r.avg \in Nat
  BY DEF Position
<1>2. CostBasis(r) \in Nat /\ Amount(q, x) \in Nat
  BY <1>1, AmountType DEF CostBasis
<1>3. total \in Nat
  BY <1>2, ScaleType, TimesType
<1>4. r.qty + q \in Nat \ {0}
  BY <1>1
<1> HIDE DEF total
<1>5. avg \in Nat
  BY <1>3, <1>4, HalfEvenType
<1>6. Bought(r, q, x) =
        [r EXCEPT !.qty = r.qty + q, !.avg = avg, !.open = TRUE]
  BY DEF Bought, total
<1> HIDE DEF avg
<1> QED BY <1>4, <1>5, <1>6 DEF Position

LEMMA SoldType ==
  ASSUME NEW r \in Position, NEW q \in Nat, NEW x \in Nat, r.qty >= q
  PROVE  Sold(r, q, x) \in Position /\ Sold(r, q, x).qty = r.qty - q
<1> DEFINE profit == HalfUp((x - r.avg) * q, Scale)
           avg == IF r.qty = q THEN 0 ELSE r.avg
           open == (r.qty # q)
<1>1. /\ r.qty \in Nat /\ r.avg \in Nat /\ r.realized \in Int
      /\ r.qty - q \in Nat
  BY DEF Position
<1>2. (x - r.avg) * q \in Int
  BY <1>1
<1>3. profit \in Int /\ avg \in Nat
  BY <1>1, <1>2, ScaleType, HalfUpType
<1>5. open \in BOOLEAN
  OBVIOUS
<1>6. r.realized + profit \in Int
  BY <1>1, <1>3
<1>4. Sold(r, q, x) =
        [r EXCEPT !.qty = r.qty - q, !.avg = avg,
                  !.realized = r.realized + profit, !.open = open]
  BY DEF Sold
<1> HIDE DEF profit, avg, open
<1> QED BY <1>1, <1>3, <1>4, <1>5, <1>6 DEF Position

LEMMA MarkedType ==
  ASSUME NEW r \in Position, NEW x \in Nat
  PROVE  /\ Marked(r, x) \in Position
         /\ Marked(r, x).qty = r.qty /\ Marked(r, x).realized = r.realized
         /\ Marked(r, x).avg = r.avg
<1> DEFINE value == Amount(r.qty, x)
           open == (r.qty > 0)
<1>1. value \in Nat
  BY AmountType DEF Position
<1>3. open \in BOOLEAN
  OBVIOUS
<1>2. Marked(r, x) = [r EXCEPT !.value = value, !.open = open]
  BY DEF Marked
<1> HIDE DEF value, open
<1> QED BY <1>1, <1>2, <1>3 DEF Position

LEMMA RevaluedType ==
  ASSUME NEW r \in Position, NEW l \in Position
  PROVE  /\ Revalued(r, l) \in Position
         /\ Revalued(r, l).qty = r.qty /\ Revalued(r, l).realized = r.realized
         /\ Revalued(r, l).avg = r.avg /\ Revalued(r, l).value = l.value
BY DEF Revalued, Position

-------------------------------------------------------------------------------
(* What the actions do to the workers' memory.                             *)

LEMMA EmptyType == Empty \in Memory
BY DEF Empty, Memory, NewPosition, Position

LEMMA FreshType ==
  ASSUME NEW cash \in Int, NEW stale \in BOOLEAN
  PROVE  LET e == [Empty EXCEPT !.cash = cash, !.stale = stale] IN
         /\ e \in Memory /\ e.cash = cash /\ e.stale = stale
         /\ e.target = Free /\ e.flow = 0
BY EmptyType DEF Memory, Empty

(* A priced trade, bought or sold: its position is locked, and the row it  *)
(* holds has the quantity of the row and of the trade.                     *)
LEMMA TradePriced ==
  ASSUME LedgerTyped, NEW w \in Workers, NEW p \in Positions,
         NEW q \in Quantities, NEW x \in Prices,
         Buy(w, p, q, x) \/ Sell(w, p, q, x)
  PROVE  \E row \in Position, size \in Int, flow \in Int :
           /\ Priced(w, p, row, size, flow)
           /\ row.qty = rows[p].qty + size
           /\ mem[w].cash >= 0 => mem[w].cash + flow >= 0
<1>1. q \in Nat \ {0} /\ x \in Nat /\ rows[p] \in Position
  BY TradingAssumption DEF LedgerTyped
<1>2. Amount(q, x) \in Nat /\ mem[w].cash \in Int /\ rows[p].qty \in Nat
  BY <1>1, AmountType DEF LedgerTyped, Memory, Position
<1>3. CASE Buy(w, p, q, x)
  <2> DEFINE row == Bought(rows[p], q, x)
             flow == -Amount(q, x)
  <2>1. row \in Position /\ row.qty = rows[p].qty + q
    BY <1>1, BoughtType
  <2>2. Priced(w, p, row, q, flow) /\ mem[w].cash >= Amount(q, x)
    BY <1>3 DEF Buy, Affordable
  <2>3. flow \in Int /\ q \in Int /\ mem[w].cash + flow >= 0
    BY <1>1, <1>2, <2>2
  <2> HIDE DEF row, flow
  <2> QED BY <2>1, <2>2, <2>3
<1>4. CASE Sell(w, p, q, x)
  <2> DEFINE row == Sold(rows[p], q, x)
             flow == Amount(q, x)
             size == -q
  <2>1. Priced(w, p, row, size, flow) /\ rows[p].qty >= q
    BY <1>4 DEF Sell
  <2>2. row \in Position /\ row.qty = rows[p].qty - q
    BY <1>1, <2>1, SoldType
  <2>3. /\ flow \in Int /\ size \in Int /\ rows[p].qty - q = rows[p].qty + size
        /\ mem[w].cash >= 0 => mem[w].cash + flow >= 0
    BY <1>1, <1>2
  <2> HIDE DEF row, flow, size
  <2> QED BY <2>1, <2>2, <2>3
<1> QED BY <1>3, <1>4

LEMMA PricedEffect ==
  ASSUME LedgerTyped, NEW w \in Workers, NEW p \in Positions,
         NEW row \in Position, NEW size \in Int, NEW flow \in Int,
         Priced(w, p, row, size, flow)
  PROVE  /\ mem' \in [Workers -> Memory]
         /\ mem'[w].cash = mem[w].cash + flow /\ mem'[w].stale = mem[w].stale
         /\ mem'[w].target = p /\ mem'[w].size = size /\ mem'[w].flow = flow
         /\ mem'[w].list[p] = row
         /\ \A v \in Workers \ {w} : mem'[v] = mem[v]
         /\ lock' = [lock EXCEPT ![p] = w] /\ lock[p] \in {Free, w}
         /\ pc[w] = "ready" /\ pc' = [pc EXCEPT ![w] = "priced"]
<1> DEFINE list == [mem[w].list EXCEPT ![p] = row]
           cash == mem[w].cash + flow
<1>1. mem[w] \in Memory /\ list \in [Positions -> Position] /\ cash \in Int
  BY DEF LedgerTyped, Memory
<1>2. list[p] = row
  BY <1>1 DEF LedgerTyped, Memory
<1>3. mem' = [mem EXCEPT ![w].cash = cash, ![w].target = p, ![w].size = size,
                         ![w].flow = flow, ![w].list = list]
  BY DEF Priced
<1> HIDE DEF list, cash
<1>4. /\ mem' \in [Workers -> Memory]
      /\ mem'[w].cash = cash /\ mem'[w].stale = mem[w].stale
      /\ mem'[w].target = p /\ mem'[w].size = size /\ mem'[w].flow = flow
      /\ mem'[w].list = list
      /\ \A v \in Workers \ {w} : mem'[v] = mem[v]
  BY <1>1, <1>3 DEF LedgerTyped, Memory
<1> QED BY <1>2, <1>4 DEF Priced, CanLock, cash

LEMMA SaveCashEffect ==
  ASSUME LedgerTyped, NEW w \in Workers, SaveCash(w), Trading(w)
  PROVE  /\ mem' \in [Workers -> Memory]
         /\ mem'[w].cash = mem[w].cash /\ mem'[w].stale = mem[w].stale
         /\ mem'[w].target = mem[w].target /\ mem'[w].size = mem[w].size
         /\ mem'[w].flow = mem[w].flow
         /\ mem'[w].list[mem[w].target] = mem[w].list[mem[w].target]
         /\ \A p \in Positions \ {mem[w].target} : mem'[w].list[p] = rows[p]
         /\ \A v \in Workers \ {w} : mem'[v] = mem[v]
<1> DEFINE t == mem[w].target
           list == [rows EXCEPT ![t] = mem[w].list[t]]
           todo == known \cup {t}
<1>1. mem[w] \in Memory /\ t \in Positions
  BY DEF LedgerTyped, Memory, Trading
<1>2. /\ list \in [Positions -> Position] /\ todo \in SUBSET Positions
      /\ list[t] = mem[w].list[t] /\ \A p \in Positions \ {t} : list[p] = rows[p]
  BY <1>1 DEF LedgerTyped, Memory
<1>3. mem' = [mem EXCEPT ![w].list = list, ![w].todo = todo]
  BY DEF SaveCash
<1> HIDE DEF list, todo
<1>4. /\ mem' \in [Workers -> Memory]
      /\ mem'[w].cash = mem[w].cash /\ mem'[w].stale = mem[w].stale
      /\ mem'[w].target = mem[w].target /\ mem'[w].size = mem[w].size
      /\ mem'[w].flow = mem[w].flow /\ mem'[w].list = list
      /\ \A v \in Workers \ {w} : mem'[v] = mem[v]
  BY <1>1, <1>2, <1>3 DEF LedgerTyped, Memory
<1> QED BY <1>2, <1>4

LEMMA BeginRevalueEffect ==
  ASSUME LedgerTyped, NEW w \in Workers, BeginRevalue(w)
  PROVE  /\ mem' \in [Workers -> Memory]
         /\ mem'[w].cash = mem[w].cash /\ mem'[w].stale = mem[w].stale
         /\ mem'[w].target = mem[w].target /\ mem'[w].flow = mem[w].flow
         /\ \A v \in Workers \ {w} : mem'[v] = mem[v]
<1>1. mem' = [mem EXCEPT ![w].list = rows, ![w].todo = known]
  BY DEF BeginRevalue
<1>2. /\ mem \in [Workers -> Memory] /\ mem[w] \in Memory
      /\ rows \in [Positions -> Position] /\ known \in SUBSET Positions
  BY DEF LedgerTyped
<1>3. /\ mem'[w] = [mem[w] EXCEPT !.list = rows, !.todo = known]
      /\ \A v \in Workers \ {w} : mem'[v] = mem[v]
      /\ mem' = [v \in Workers |-> mem'[v]]
  BY <1>1, <1>2
<1>4. mem'[w] \in Memory
  BY <1>2, <1>3 DEF Memory
<1>5. mem' \in [Workers -> Memory]
  <2>1. \A v \in Workers : mem'[v] \in Memory
    BY <1>2, <1>3, <1>4
  <2> QED BY <1>3, <2>1
<1> QED BY <1>2, <1>3, <1>5 DEF Memory

LEMMA RevalueRowEffect ==
  ASSUME LedgerTyped, NEW w \in Workers, NEW p \in Positions, NEW x \in Marks,
         RevalueRow(w, p, x)
  PROVE  /\ mem' \in [Workers -> Memory]
         /\ mem'[w].cash = mem[w].cash /\ mem'[w].stale = mem[w].stale
         /\ mem'[w].target = mem[w].target /\ mem'[w].size = mem[w].size
         /\ mem'[w].flow = mem[w].flow
         /\ \A s \in Positions : /\ mem'[w].list[s].qty = mem[w].list[s].qty
                                 /\ mem'[w].list[s].avg = mem[w].list[s].avg
                                 /\ mem'[w].list[s].realized
                                      = mem[w].list[s].realized
                                 /\ s # p => mem'[w].list[s] = mem[w].list[s]
         /\ \A v \in Workers \ {w} : mem'[v] = mem[v]
<1> DEFINE row == Marked(mem[w].list[p], x)
           list == [mem[w].list EXCEPT ![p] = row]
           todo == mem[w].todo \ {p}
<1>1. mem[w] \in Memory /\ mem[w].list[p] \in Position /\ x \in Nat
  BY TradingAssumption DEF LedgerTyped, Memory
<1>2. /\ row \in Position /\ row.qty = mem[w].list[p].qty
      /\ row.avg = mem[w].list[p].avg
      /\ row.realized = mem[w].list[p].realized
  BY <1>1, MarkedType
<1>3. mem' = [mem EXCEPT ![w].list = list, ![w].todo = todo]
  BY DEF RevalueRow, LedgerTyped, Memory
<1> HIDE DEF row
<1>4. /\ list \in [Positions -> Position] /\ todo \in SUBSET Positions
      /\ list[p] = row /\ \A s \in Positions \ {p} : list[s] = mem[w].list[s]
  BY <1>1, <1>2 DEF Memory
<1> HIDE DEF list, todo
<1>5. /\ mem' \in [Workers -> Memory]
      /\ mem'[w].cash = mem[w].cash /\ mem'[w].stale = mem[w].stale
      /\ mem'[w].target = mem[w].target /\ mem'[w].size = mem[w].size
      /\ mem'[w].flow = mem[w].flow /\ mem'[w].list = list
      /\ \A v \in Workers \ {w} : mem'[v] = mem[v]
  BY <1>1, <1>3, <1>4 DEF LedgerTyped, Memory
<1> QED BY <1>2, <1>4, <1>5

LEMMA SkipRowEffect ==
  ASSUME LedgerTyped, NEW w \in Workers, NEW p \in Positions, SkipRow(w, p)
  PROVE  /\ mem' \in [Workers -> Memory]
         /\ mem'[w].cash = mem[w].cash /\ mem'[w].stale = mem[w].stale
         /\ mem'[w].target = mem[w].target /\ mem'[w].size = mem[w].size
         /\ mem'[w].flow = mem[w].flow /\ mem'[w].list = mem[w].list
         /\ \A v \in Workers \ {w} : mem'[v] = mem[v]
<1> DEFINE todo == mem[w].todo \ {p}
<1>1. mem' = [mem EXCEPT ![w].todo = todo]
  BY DEF SkipRow
<1>2. todo \in SUBSET Positions
  BY DEF LedgerTyped, Memory
<1> HIDE DEF todo
<1> QED BY <1>1, <1>2 DEF LedgerTyped, Memory

LEMMA UnlockEffect ==
  ASSUME LedgerTyped, NEW w \in Workers, Unlock(w)
  PROVE  /\ lock' \in [Positions -> Workers \cup {Free}]
         /\ \A p \in Positions : lock[p] # w => lock'[p] = lock[p]
         /\ acct' \in Workers \cup {Free} /\ (acct # w => acct' = acct)
BY DEF LedgerTyped, Unlock

LEMMA CommitTradeEffect ==
  ASSUME LedgerTyped, NEW w \in Workers, CommitTrade(w)
  PROVE  /\ mem[w].target \in Positions
         /\ rows' \in [Positions -> Position]
         /\ rows'[mem[w].target] = mem[w].list[mem[w].target]
         /\ \A p \in Positions \ {mem[w].target} :
              /\ rows'[p].qty = rows[p].qty /\ rows'[p].avg = rows[p].avg
              /\ rows'[p].realized = rows[p].realized
              /\ lock[p] = w => rows'[p].value = mem[w].list[p].value
              /\ lock[p] # w => rows'[p] = rows[p]
         /\ account'.cash = mem[w].cash
         /\ book' \in Book /\ book'.flow = book.flow + mem[w].flow
         /\ book'.net = [book.net EXCEPT ![mem[w].target] = @ + mem[w].size]
<1> DEFINE m == mem[w]
           t == mem[w].target
<1>1. m \in Memory /\ t \in Positions
  BY DEF LedgerTyped, Memory, CommitTrade, Trading
<1>2. \A p \in Positions : rows[p] \in Position /\ m.list[p] \in Position
  BY <1>1 DEF LedgerTyped, Memory
<1>3. \A p \in Positions : rows'[p] = IF p = t THEN m.list[p]
                             ELSE IF p \in Locked(w)
                                  THEN Revalued(rows[p], m.list[p]) ELSE rows[p]
  BY DEF CommitTrade
<1>4. \A p \in Positions : p \in Locked(w) <=> lock[p] = w
  BY DEF Locked
<1>5. \A p \in Positions \ {t} :
        /\ rows'[p] \in Position /\ rows'[p].qty = rows[p].qty
        /\ rows'[p].avg = rows[p].avg
        /\ rows'[p].realized = rows[p].realized
        /\ lock[p] = w => rows'[p].value = m.list[p].value
        /\ lock[p] # w => rows'[p] = rows[p]
  <2> TAKE p \in Positions \ {t}
  <2>1. rows[p] \in Position /\ m.list[p] \in Position
    BY <1>2
  <2>2. CASE lock[p] = w
    <3>1. rows'[p] = Revalued(rows[p], m.list[p])
      BY <1>3, <1>4, <2>2
    <3> QED BY <2>1, <2>2, <3>1, RevaluedType
  <2>3. CASE lock[p] # w
    <3>1. rows'[p] = rows[p]
      BY <1>3, <1>4, <2>3
    <3> QED BY <2>1, <2>3, <3>1
  <2> QED BY <2>2, <2>3
<1>6. rows'[t] = m.list[t] /\ rows'[t] \in Position
  BY <1>1, <1>2, <1>3
<1>7. rows' = [p \in Positions |-> rows'[p]]
  BY DEF CommitTrade
<1>8. rows' \in [Positions -> Position]
  BY <1>5, <1>6, <1>7
<1>9. account'.cash = m.cash
  BY DEF CommitTrade, Valued
<1>10. /\ book'.flow = book.flow + m.flow
       /\ book'.net = [book.net EXCEPT ![t] = @ + m.size]
       /\ book'.count = book.count + 1
       /\ book' = [net |-> book'.net, flow |-> book'.flow, count |-> book'.count]
  BY DEF CommitTrade
<1>11. /\ book.net \in [Positions -> Int] /\ book.flow \in Int
       /\ book.count \in Nat /\ m.flow \in Int /\ m.size \in Int
  BY <1>1 DEF LedgerTyped, Book, Memory
<1>12. book'.net \in [Positions -> Int] /\ book'.flow \in Int /\ book'.count \in Nat
  BY <1>1, <1>10, <1>11
<1>13. book' \in Book
  BY <1>10, <1>12 DEF Book
<1> QED BY <1>1, <1>5, <1>6, <1>8, <1>9, <1>10, <1>13

(* After a commit the others' objects have been overtaken.                 *)
LEMMA CommitTradeMemory ==
  ASSUME LedgerTyped, NEW w \in Workers, CommitTrade(w)
  PROVE  /\ mem' \in [Workers -> Memory]
         /\ mem'[w].cash = mem[w].cash /\ mem'[w].stale = mem[w].stale
         /\ mem'[w].target = Free /\ mem'[w].flow = 0
         /\ \A v \in Workers \ {w} :
              /\ mem'[v].cash = mem[v].cash /\ mem'[v].target = mem[v].target
              /\ mem'[v].size = mem[v].size /\ mem'[v].flow = mem[v].flow
              /\ mem'[v].list = mem[v].list
              /\ pc[v] # "idle" => mem'[v].stale = TRUE
<1> DEFINE fresh == [Empty EXCEPT !.cash = mem[w].cash, !.stale = mem[w].stale]
<1>1. \A v \in Workers : mem[v] \in Memory
  BY DEF LedgerTyped
<1>2. /\ fresh \in Memory /\ fresh.cash = mem[w].cash
      /\ fresh.stale = mem[w].stale /\ fresh.target = Free /\ fresh.flow = 0
  BY <1>1, FreshType DEF Memory
<1>3. mem' = [v \in Workers |->
                IF v = w THEN fresh
                ELSE IF pc[v] = "idle" THEN mem[v]
                ELSE [mem[v] EXCEPT !.stale = TRUE]]
  BY DEF CommitTrade
<1> HIDE DEF fresh
<1>4. mem'[w] = fresh
  BY <1>3
<1>5. ASSUME NEW v \in Workers \ {w}
      PROVE  /\ mem'[v] \in Memory
             /\ mem'[v].cash = mem[v].cash /\ mem'[v].target = mem[v].target
             /\ mem'[v].size = mem[v].size /\ mem'[v].flow = mem[v].flow
             /\ mem'[v].list = mem[v].list
             /\ pc[v] # "idle" => mem'[v].stale = TRUE
  <2>1. mem[v] \in Memory
    BY <1>1
  <2>2. CASE pc[v] = "idle"
    BY <1>3, <2>1, <2>2
  <2>3. CASE pc[v] # "idle"
    <3>1. mem'[v] = [mem[v] EXCEPT !.stale = TRUE]
      BY <1>3, <2>3
    <3> QED BY <2>1, <3>1 DEF Memory
  <2> QED BY <2>2, <2>3
<1>6. mem' \in [Workers -> Memory]
  BY <1>2, <1>3, <1>4, <1>5
<1> QED BY <1>2, <1>4, <1>5, <1>6

LEMMA CommitRevalueEffect ==
  ASSUME LedgerTyped, NEW w \in Workers, CommitRevalue(w)
  PROVE  /\ rows' \in [Positions -> Position]
         /\ \A p \in Positions : /\ rows'[p].qty = rows[p].qty
                                 /\ lock[p] # w => rows'[p] = rows[p]
         /\ account'.cash = account.cash
         /\ mem' = [mem EXCEPT ![w] = Empty]
         /\ book' = book /\ lost' = lost /\ acct = Free
<1> DEFINE m == mem[w]
<1>1. \A p \in Positions : rows[p] \in Position /\ m.list[p] \in Position
  BY DEF LedgerTyped, Memory
<1>2. rows' = [p \in Positions |-> IF p \in Locked(w)
                                   THEN Revalued(rows[p], m.list[p])
                                   ELSE rows[p]]
  BY DEF CommitRevalue
<1>3. ASSUME NEW p \in Positions
      PROVE  /\ rows'[p] \in Position /\ rows'[p].qty = rows[p].qty
             /\ lock[p] # w => rows'[p] = rows[p]
  <2>1. rows[p] \in Position /\ m.list[p] \in Position
    BY <1>1
  <2>2. CASE p \in Locked(w)
    <3>1. rows'[p] = Revalued(rows[p], m.list[p]) /\ lock[p] = w
      BY <1>2, <2>2 DEF Locked
    <3> QED BY <2>1, <3>1, RevaluedType
  <2>3. CASE p \notin Locked(w)
    <3>1. rows'[p] = rows[p]
      BY <1>2, <2>3
    <3> QED BY <2>1, <3>1
  <2> QED BY <2>2, <2>3
<1>4. rows' \in [Positions -> Position]
  BY <1>2, <1>3
<1>5. account'.cash = account.cash
  BY DEF CommitRevalue, Valued
<1> QED BY <1>3, <1>4, <1>5 DEF CommitRevalue

-------------------------------------------------------------------------------
(* Type correctness.                                                       *)

LEMMA TypedInit == Init => LedgerTyped
<1>1. NewPosition \in Position
  BY DEF NewPosition, Position
<1> SUFFICES ASSUME Init PROVE LedgerTyped
  OBVIOUS
<1>2. /\ account.cash \in Int /\ rows \in [Positions -> Position]
      /\ known \in SUBSET Positions
      /\ lock \in [Positions -> Workers \cup {Free}]
      /\ acct \in Workers \cup {Free} /\ pc \in [Workers -> Points]
  BY <1>1, TradingAssumption DEF Init, Points
<1>3. mem \in [Workers -> Memory]
  BY EmptyType DEF Init
<1>4. book \in Book
  BY DEF Init, Book
<1>5. lost \in BOOLEAN
  BY DEF Init
<1> QED BY <1>2, <1>3, <1>4, <1>5 DEF LedgerTyped

LEMMA TypedNext ==
  ASSUME LedgerTyped, LocksKept, [Next]_vars
  PROVE  LedgerTyped'
<1>1. ASSUME NEW w \in Workers, LoadAccount(w) PROVE LedgerTyped'
  <2> DEFINE fresh == [Empty EXCEPT !.cash = account.cash]
  <2>1. fresh \in Memory
    BY EmptyType DEF LedgerTyped, Memory
  <2>2. mem' = [mem EXCEPT ![w] = fresh]
    BY <1>1 DEF LoadAccount
  <2> HIDE DEF fresh
  <2>3. mem' \in [Workers -> Memory]
    BY <2>1, <2>2 DEF LedgerTyped
  <2> QED BY <1>1, <2>3 DEF LoadAccount, LedgerTyped, Points
<1>2. ASSUME NEW w \in Workers, Release(w) PROVE LedgerTyped'
  BY <1>2, EmptyType DEF Release, LedgerTyped, Points
<1>3. ASSUME NEW w \in Workers, BeginRevalue(w) PROVE LedgerTyped'
  BY <1>3, BeginRevalueEffect DEF BeginRevalue, LedgerTyped, Points
<1>4. ASSUME NEW w \in Workers, SaveCash(w) PROVE LedgerTyped'
  <2>1. Trading(w)
    BY <1>4 DEF SaveCash, LocksKept
  <2> QED BY <1>4, <2>1, SaveCashEffect DEF SaveCash, LedgerTyped, Points
<1>5. ASSUME NEW w \in Workers, CommitTrade(w) PROVE LedgerTyped'
  <2>1. account'.cash \in Int
    BY <1>5, CommitTradeEffect DEF LedgerTyped, Memory
  <2>2. known' \in SUBSET Positions /\ pc' \in [Workers -> Points]
    <3>1. known' = known \cup {mem[w].target} /\ pc' = [pc EXCEPT ![w] = "ready"]
      BY <1>5, Zenon DEF CommitTrade
    <3>2. mem[w].target \in Positions
      BY <1>5, CommitTradeEffect
    <3>3. known \in SUBSET Positions /\ pc \in [Workers -> Points] /\ "ready" \in Points
      BY DEF LedgerTyped, Points
    <3> QED BY <3>1, <3>2, <3>3
  <2>3. lost' \in BOOLEAN
    BY <1>5, Zenon DEF CommitTrade, LedgerTyped, Memory
  <2>4. Unlock(w)
    BY <1>5 DEF CommitTrade
  <2> QED BY <1>5, <2>1, <2>2, <2>3, <2>4, CommitTradeEffect,
             CommitTradeMemory, UnlockEffect DEF LedgerTyped
<1>6. ASSUME NEW w \in Workers, CommitRevalue(w) PROVE LedgerTyped'
  <2>1. Unlock(w) /\ known' = known /\ pc' = [pc EXCEPT ![w] = "idle"]
    BY <1>6 DEF CommitRevalue
  <2> QED BY <1>6, <2>1, CommitRevalueEffect, UnlockEffect, EmptyType
          DEF LedgerTyped, Points
<1>7. ASSUME NEW w \in Workers, AbortDeadlocked(w) PROVE LedgerTyped'
  <2>1. Unlock(w)
    BY <1>7 DEF AbortDeadlocked
  <2> QED BY <1>7, <2>1, UnlockEffect, EmptyType
          DEF AbortDeadlocked, LedgerTyped, Points
<1>8. ASSUME NEW w \in Workers, NEW p \in Positions, SkipRow(w, p)
      PROVE  LedgerTyped'
  BY <1>8, SkipRowEffect DEF SkipRow, LedgerTyped
<1>9. ASSUME NEW w \in Workers, NEW p \in Positions, NEW x \in Marks,
             RevalueRow(w, p, x)
      PROVE  LedgerTyped'
  BY <1>9, RevalueRowEffect DEF RevalueRow, LedgerTyped
<1>10. ASSUME NEW w \in Workers, NEW p \in Positions, NEW q \in Quantities,
              NEW x \in Prices, Buy(w, p, q, x) \/ Sell(w, p, q, x)
       PROVE  LedgerTyped'
  <2>1. PICK row \in Position, size \in Int, flow \in Int :
          Priced(w, p, row, size, flow)
    BY <1>10, TradePriced
  <2> QED BY <2>1, PricedEffect DEF Priced, LedgerTyped, Points
<1>11. CASE UNCHANGED vars
  BY <1>11 DEF vars, LedgerTyped
<1> QED BY <1>1, <1>2, <1>3, <1>4, <1>5, <1>6, <1>7, <1>8, <1>9, <1>10, <1>11
        DEF Next, Step

(* Rows, account and trades are written by the two commits only.           *)
LEMMA StepsThatWrite ==
  ASSUME [Next]_vars
  PROVE  \/ \E w \in Workers : CommitTrade(w) \/ CommitRevalue(w)
         \/ UNCHANGED <<account, rows, book, lost>>
<1>1. ASSUME NEW w \in Workers,
             \/ LoadAccount(w) \/ Release(w) \/ BeginRevalue(w)
             \/ SaveCash(w) \/ AbortDeadlocked(w)
      PROVE  UNCHANGED <<account, rows, book, lost>>
  BY <1>1 DEF LoadAccount, Release, BeginRevalue, SaveCash, AbortDeadlocked
<1>2. ASSUME NEW w \in Workers, NEW p \in Positions,
             SkipRow(w, p) \/ \E x \in Marks : RevalueRow(w, p, x)
      PROVE  UNCHANGED <<account, rows, book, lost>>
  BY <1>2 DEF SkipRow, RevalueRow
<1>3. ASSUME NEW w \in Workers, NEW p \in Positions, NEW q \in Quantities,
             NEW x \in Prices, Buy(w, p, q, x) \/ Sell(w, p, q, x)
      PROVE  UNCHANGED <<account, rows, book, lost>>
  BY <1>3 DEF Buy, Sell, Priced
<1>4. CASE UNCHANGED vars
  BY <1>4 DEF vars
<1> QED BY <1>1, <1>2, <1>3, <1>4 DEF Next, Step

-------------------------------------------------------------------------------
(* Locks: what keeps quantities right.                                     *)

LEMMA LocksInit == Init => LocksKept
<1> SUFFICES ASSUME Init, NEW w \in Workers
             PROVE  ~Trading(w) /\ pc[w] = "idle"
  BY DEF LocksKept
<1> QED BY DEF Init, Trading, Empty

(* A step that only gives up locks of w, and the trade of w with them.     *)
LEMMA LocksReleased ==
  ASSUME LedgerTyped, LocksKept, NEW w \in Workers,
         pc' \in [Workers -> Points], pc'[w] \in {"idle", "ready"},
         mem'[w].target = Free,
         \A v \in Workers \ {w} :
           /\ pc'[v] = pc[v] /\ mem'[v].target = mem[v].target
           /\ mem'[v].size = mem[v].size /\ mem'[v].list = mem[v].list,
         \A p \in Positions : lock[p] # w => /\ lock'[p] = lock[p]
                                             /\ rows'[p].qty = rows[p].qty
  PROVE  LocksKept'
<1> SUFFICES ASSUME NEW v \in Workers
             PROVE  /\ Trading(v)' =>
                         /\ lock'[mem'[v].target] = v
                         /\ mem'[v].list[mem'[v].target].qty
                              = rows'[mem'[v].target].qty + mem'[v].size
                    /\ pc'[v] \in {"idle", "ready"} => ~Trading(v)'
                    /\ pc'[v] = "priced" => Trading(v)'
  BY DEF LocksKept
<1>1. CASE v = w
  BY <1>1 DEF Trading
<1>2. CASE v # w
  <2>1. Trading(v)' = Trading(v)
    BY <1>2 DEF Trading
  <2>2. ASSUME Trading(v)
        PROVE  /\ mem[v].target \in Positions /\ lock[mem[v].target] = v
               /\ mem[v].list[mem[v].target].qty
                    = rows[mem[v].target].qty + mem[v].size
    BY <2>2 DEF Trading, LocksKept, LedgerTyped, Memory
  <2>3. /\ pc[v] \in {"idle", "ready"} => ~Trading(v)
        /\ pc[v] = "priced" => Trading(v)
    BY DEF LocksKept
  <2> QED BY <1>2, <2>1, <2>2, <2>3
<1> QED BY <1>1, <1>2

(* A step of w that changes no row, and no lock but to take it for w.      *)
LEMMA LocksHeld ==
  ASSUME LedgerTyped, LocksKept, NEW w \in Workers,
         rows' = rows,
         \A p \in Positions : lock[p] # Free => lock'[p] = lock[p],
         \A v \in Workers \ {w} : pc'[v] = pc[v] /\ mem'[v] = mem[v],
         Trading(w)' => /\ lock'[mem'[w].target] = w
                        /\ mem'[w].list[mem'[w].target].qty
                             = rows[mem'[w].target].qty + mem'[w].size,
         pc'[w] \in {"idle", "ready"} => ~Trading(w)',
         pc'[w] = "priced" => Trading(w)'
  PROVE  LocksKept'
<1> SUFFICES ASSUME NEW v \in Workers
             PROVE  /\ Trading(v)' =>
                         /\ lock'[mem'[v].target] = v
                         /\ mem'[v].list[mem'[v].target].qty
                              = rows'[mem'[v].target].qty + mem'[v].size
                    /\ pc'[v] \in {"idle", "ready"} => ~Trading(v)'
                    /\ pc'[v] = "priced" => Trading(v)'
  BY DEF LocksKept
<1>1. CASE v = w
  BY <1>1
<1>2. CASE v # w
  <2>1. Trading(v)' = Trading(v)
    BY <1>2 DEF Trading
  <2>2. ASSUME Trading(v)
        PROVE  /\ mem[v].target \in Positions /\ lock[mem[v].target] = v
               /\ mem[v].list[mem[v].target].qty
                    = rows[mem[v].target].qty + mem[v].size
    BY <2>2 DEF Trading, LocksKept, LedgerTyped, Memory
  <2>3. v # Free
    BY TradingAssumption
  <2>4. /\ pc[v] \in {"idle", "ready"} => ~Trading(v)
        /\ pc[v] = "priced" => Trading(v)
    BY DEF LocksKept
  <2> QED BY <1>2, <2>1, <2>2, <2>3, <2>4
<1> QED BY <1>1, <1>2

LEMMA LocksNext ==
  ASSUME LedgerTyped, LocksKept, [Next]_vars
  PROVE  LocksKept'
<1>0. LedgerTyped'
  BY TypedNext
<1>1. ASSUME NEW w \in Workers, LoadAccount(w) \/ Release(w)
      PROVE  LocksKept'
  <2>1. /\ mem'[w].target = Free /\ pc'[w] \in {"idle", "ready"}
        /\ rows' = rows /\ lock' = lock
        /\ \A v \in Workers \ {w} : pc'[v] = pc[v] /\ mem'[v] = mem[v]
    BY <1>1 DEF LoadAccount, Release, LedgerTyped, Empty
  <2> QED BY <1>0, <2>1, LocksReleased DEF LedgerTyped
<1>2. ASSUME NEW w \in Workers, BeginRevalue(w) PROVE LocksKept'
  <2>1. /\ pc[w] = "ready" /\ pc'[w] = "rows"
        /\ \A v \in Workers \ {w} : pc'[v] = pc[v]
        /\ rows' = rows /\ lock' = lock
    BY <1>2 DEF BeginRevalue, LedgerTyped
  <2>2. ~Trading(w) /\ ~Trading(w)'
    BY <1>2, <2>1, BeginRevalueEffect DEF LocksKept, Trading
  <2> QED BY <1>2, <2>1, <2>2, BeginRevalueEffect, LocksHeld
<1>3. ASSUME NEW w \in Workers, SaveCash(w) PROVE LocksKept'
  <2>1. /\ pc[w] = "priced" /\ pc'[w] = "rows"
        /\ \A v \in Workers \ {w} : pc'[v] = pc[v]
        /\ rows' = rows /\ lock' = lock
    BY <1>3 DEF SaveCash, LedgerTyped
  <2>2. /\ Trading(w) /\ lock[mem[w].target] = w
        /\ mem[w].list[mem[w].target].qty
             = rows[mem[w].target].qty + mem[w].size
    BY <2>1 DEF LocksKept
  <2> QED BY <1>3, <2>1, <2>2, SaveCashEffect, LocksHeld
<1>4. ASSUME NEW w \in Workers, CommitTrade(w) PROVE LocksKept'
  <2>1. Unlock(w) /\ pc' = [pc EXCEPT ![w] = "ready"]
    BY <1>4 DEF CommitTrade
  <2>2. pc'[w] = "ready" /\ \A v \in Workers \ {w} : pc'[v] = pc[v]
    BY <2>1 DEF LedgerTyped
  <2>3. lock[mem[w].target] = w
    BY <1>4 DEF CommitTrade, LocksKept
  <2>4. \A p \in Positions : lock[p] # w => /\ lock'[p] = lock[p]
                                            /\ rows'[p].qty = rows[p].qty
    BY <1>4, <2>1, <2>3, UnlockEffect, CommitTradeEffect
  <2>5. /\ mem'[w].target = Free /\ pc' \in [Workers -> Points]
        /\ \A v \in Workers \ {w} :
             /\ mem'[v].target = mem[v].target
             /\ mem'[v].size = mem[v].size /\ mem'[v].list = mem[v].list
    BY <1>0, <1>4, CommitTradeMemory DEF LedgerTyped
  <2> QED BY <2>2, <2>4, <2>5, LocksReleased
<1>5. ASSUME NEW w \in Workers, CommitRevalue(w) PROVE LocksKept'
  <2>1. Unlock(w) /\ pc' = [pc EXCEPT ![w] = "idle"]
    BY <1>5 DEF CommitRevalue
  <2>2. /\ pc'[w] = "idle" /\ mem'[w].target = Free
        /\ \A v \in Workers \ {w} : pc'[v] = pc[v] /\ mem'[v] = mem[v]
    BY <1>5, <2>1, CommitRevalueEffect DEF LedgerTyped, Empty
  <2>3. \A p \in Positions : lock[p] # w => /\ lock'[p] = lock[p]
                                            /\ rows'[p].qty = rows[p].qty
    BY <1>5, <2>1, UnlockEffect, CommitRevalueEffect
  <2> QED BY <1>0, <2>2, <2>3, LocksReleased DEF LedgerTyped
<1>6. ASSUME NEW w \in Workers, AbortDeadlocked(w) PROVE LocksKept'
  <2>1. Unlock(w) /\ rows' = rows
    BY <1>6 DEF AbortDeadlocked
  <2>2. /\ pc'[w] = "idle" /\ mem'[w].target = Free
        /\ \A v \in Workers \ {w} : pc'[v] = pc[v] /\ mem'[v] = mem[v]
    BY <1>6 DEF AbortDeadlocked, LedgerTyped, Empty
  <2> QED BY <1>0, <2>1, <2>2, UnlockEffect, LocksReleased DEF LedgerTyped
<1>7. ASSUME NEW w \in Workers, NEW p \in Positions, SkipRow(w, p)
      PROVE  LocksKept'
  <2>1. rows' = rows /\ lock' = lock /\ pc' = pc /\ pc[w] = "rows"
    BY <1>7 DEF SkipRow
  <2>2. Trading(w)' = Trading(w)
    BY <1>7, SkipRowEffect DEF Trading
  <2> QED BY <1>7, <2>1, <2>2, SkipRowEffect, LocksHeld DEF LocksKept
<1>8. ASSUME NEW w \in Workers, NEW p \in Positions, NEW x \in Marks,
             RevalueRow(w, p, x)
      PROVE  LocksKept'
  <2>1. /\ rows' = rows /\ pc' = pc /\ pc[w] = "rows"
        /\ lock' = [lock EXCEPT ![p] = w] /\ lock[p] \in {Free, w}
    BY <1>8 DEF RevalueRow, CanLock
  <2>2. \A s \in Positions : lock[s] # Free => lock'[s] = lock[s]
    BY <2>1 DEF LedgerTyped
  <2>3. Trading(w)' = Trading(w)
    BY <1>8, RevalueRowEffect DEF Trading
  <2>4. ASSUME Trading(w)
        PROVE  /\ lock'[mem'[w].target] = w
               /\ mem'[w].list[mem'[w].target].qty
                    = rows[mem'[w].target].qty + mem'[w].size
    <3>1. /\ mem[w].target \in Positions /\ lock[mem[w].target] = w
          /\ mem[w].list[mem[w].target].qty
               = rows[mem[w].target].qty + mem[w].size
      BY <2>4 DEF Trading, LocksKept, LedgerTyped, Memory
    <3>2. w # Free
      BY TradingAssumption
    <3> QED BY <1>8, <2>2, <3>1, <3>2, RevalueRowEffect
  <2> QED BY <1>8, <2>1, <2>2, <2>3, <2>4, RevalueRowEffect, LocksHeld
<1>9. ASSUME NEW w \in Workers, NEW p \in Positions, NEW q \in Quantities,
             NEW x \in Prices, Buy(w, p, q, x) \/ Sell(w, p, q, x)
      PROVE  LocksKept'
  <2>1. PICK row \in Position, size \in Int, flow \in Int :
          Priced(w, p, row, size, flow) /\ row.qty = rows[p].qty + size
    BY <1>9, TradePriced
  <2>2. /\ mem'[w].target = p /\ mem'[w].size = size /\ mem'[w].list[p] = row
        /\ \A v \in Workers \ {w} : mem'[v] = mem[v]
        /\ lock' = [lock EXCEPT ![p] = w] /\ lock[p] \in {Free, w}
        /\ pc' = [pc EXCEPT ![w] = "priced"] /\ rows' = rows
    <3>1. rows' = rows
      BY <2>1 DEF Priced
    <3> QED BY <2>1, <3>1, PricedEffect
  <2>3. /\ lock'[p] = w
        /\ \A s \in Positions : lock[s] # Free => lock'[s] = lock[s]
    BY <2>2 DEF LedgerTyped
  <2>4. pc'[w] = "priced" /\ \A v \in Workers \ {w} : pc'[v] = pc[v]
    BY <2>2 DEF LedgerTyped
  <2>5. Trading(w)'
    BY <2>2, TradingAssumption DEF Trading
  <2> QED BY <2>1, <2>2, <2>3, <2>4, <2>5, LocksHeld
<1>10. CASE UNCHANGED vars
  BY <1>10 DEF vars, LocksKept, Trading
<1> QED BY <1>1, <1>2, <1>3, <1>4, <1>5, <1>6, <1>7, <1>8, <1>9, <1>10
        DEF Next, Step

(* Every row, lock and object in memory is well typed, and who is about to *)
(* write a row holds its lock.                                             *)
THEOREM TypedAndLocked == Spec => [](LedgerTyped /\ LocksKept)
BY TypedInit, LocksInit, TypedNext, LocksNext, PTL DEF Spec

(* What a commit saves of the account are sums over the loaded positions.  *)
LEMMA TotalType ==
  ASSUME NEW list \in [Positions -> Position], NEW field \in {"value", "realized"}
  PROVE  Total(list, field) \in Int
<1>1. \A p \in Positions : list[p].value \in Int /\ list[p].realized \in Int
  BY DEF Position
<1>2. PICK f : f = [p \in Positions |-> list[p][field]]
  OBVIOUS
<1>3. DOMAIN f = Positions /\ \A p \in Positions : f[p] \in Int
  BY <1>1, <1>2
<1>4. Total(list, field) = SumFunctionOnSet(f, Positions)
  BY <1>2, <1>3 DEF Total, SumFunction
<1> QED BY <1>3, <1>4, SumType, TradingAssumption

LEMMA ValuedType ==
  ASSUME NEW cash \in Int, NEW list \in [Positions -> Position]
  PROVE  Valued(cash, list) \in Account
<1>1. Total(list, "value") \in Int /\ Total(list, "realized") \in Int
  BY TotalType
<1> QED BY <1>1 DEF Valued, Account

AccountTyped == account \in Account

LEMMA AccountNext ==
  ASSUME LedgerTyped, AccountTyped, [Next]_vars
  PROVE  AccountTyped'
<1> USE DEF AccountTyped
<1>1. ASSUME NEW w \in Workers, CommitTrade(w) PROVE account' \in Account
  <2>1. mem[w].cash \in Int /\ mem[w].list \in [Positions -> Position]
    BY DEF LedgerTyped, Memory
  <2>2. account' = Valued(mem[w].cash, mem[w].list)
    BY <1>1 DEF CommitTrade
  <2> QED BY <2>1, <2>2, ValuedType
<1>2. ASSUME NEW w \in Workers, CommitRevalue(w) PROVE account' \in Account
  <2>1. mem[w].cash \in Int /\ mem[w].list \in [Positions -> Position]
    BY DEF LedgerTyped, Memory
  <2>2. PICK valued : valued = Valued(mem[w].cash, mem[w].list)
    OBVIOUS
  <2>3. valued \in Account /\ account.cash \in Int
    BY <2>1, <2>2, ValuedType DEF LedgerTyped
  <2>4. account' = [valued EXCEPT !.cash = account.cash]
    BY <1>2, <2>2 DEF CommitRevalue
  <2> QED BY <2>3, <2>4 DEF Account
<1>3. CASE account' = account
  BY <1>3
<1> QED BY <1>1, <1>2, <1>3, StepsThatWrite

(* Every reachable state of a paper account is well typed, its equity and  *)
(* realized profit, which are sums over positions, among it.               *)
THEOREM TypeCorrect == Spec => []TypeOK
<1>1. Init => AccountTyped
  BY TradingAssumption DEF Init, Account, AccountTyped
<1>2. Spec => []AccountTyped
  BY <1>1, AccountNext, TypedAndLocked, PTL DEF Spec
<1>3. LedgerTyped /\ AccountTyped => TypeOK
  BY DEF AccountTyped, TypeOK
<1> QED BY <1>2, <1>3, TypedAndLocked, PTL

(* No trade is lost from a position and none is sold short: the quantity   *)
(* of a row is what the trades on it add up to, however requests overlap.  *)
THEOREM QuantitiesHold == Spec => []QuantityIsTraded
<1>1. Init => QuantityIsTraded
  BY DEF Init, QuantityIsTraded, NewPosition
<1>2. LedgerTyped /\ LocksKept /\ QuantityIsTraded /\ [Next]_vars
        => QuantityIsTraded'
  <2> SUFFICES ASSUME LedgerTyped, LocksKept, QuantityIsTraded, [Next]_vars
               PROVE  QuantityIsTraded'
    OBVIOUS
  <2>1. ASSUME NEW w \in Workers, CommitTrade(w) PROVE QuantityIsTraded'
    <3> DEFINE t == mem[w].target
    <3>1. t \in Positions /\ mem[w].list[t].qty = rows[t].qty + mem[w].size
      BY <2>1, CommitTradeEffect DEF CommitTrade, LocksKept
    <3>2. book.net \in [Positions -> Int]
      BY DEF LedgerTyped, Book
    <3>3. book'.net[t] = book.net[t] + mem[w].size
      BY <2>1, <3>1, <3>2, CommitTradeEffect
    <3>4. \A p \in Positions \ {t} : /\ book'.net[p] = book.net[p]
                                     /\ rows'[p].qty = rows[p].qty
      BY <2>1, <3>2, CommitTradeEffect
    <3>5. rows'[t].qty = mem[w].list[t].qty
      BY <2>1, CommitTradeEffect
    <3> QED BY <3>1, <3>3, <3>4, <3>5 DEF QuantityIsTraded
  <2>2. ASSUME NEW w \in Workers, CommitRevalue(w) PROVE QuantityIsTraded'
    BY <2>2, CommitRevalueEffect DEF QuantityIsTraded
  <2>3. CASE UNCHANGED <<rows, book>>
    BY <2>3 DEF QuantityIsTraded
  <2>4. \/ \E w \in Workers : CommitTrade(w) \/ CommitRevalue(w)
        \/ UNCHANGED <<rows, book>>
    BY StepsThatWrite
  <2> QED BY <2>1, <2>2, <2>3, <2>4
<1> QED BY <1>1, <1>2, TypedAndLocked, PTL DEF Spec

-------------------------------------------------------------------------------
(* Cash: what keeps the account's cash exact and free of debt.             *)

LEMMA CashInit == Init => CashInMemory /\ CashExactUnlessStale /\ NoDebt
<1> SUFFICES ASSUME Init
             PROVE  CashInMemory /\ CashExactUnlessStale /\ NoDebt
  OBVIOUS
<1>1. \A w \in Workers : pc[w] = "idle" /\ mem[w].cash = 0 /\ mem[w].flow = 0
  BY DEF Init, Empty
<1>2. account.cash = InitialBalance /\ book.flow = 0
  BY DEF Init
<1> QED BY <1>1, <1>2, TradingAssumption
        DEF CashInMemory, CashExactUnlessStale, NoDebt

(* A step of w that leaves the account's cash and the others alone.        *)
LEMMA CashOfOthers ==
  ASSUME CashInMemory, NEW w \in Workers,
         account'.cash = account.cash,
         \A v \in Workers \ {w} : pc'[v] = pc[v] /\ mem'[v] = mem[v],
         pc'[w] # "idle" /\ ~mem'[w].stale =>
           mem'[w].cash = account.cash + mem'[w].flow,
         mem'[w].cash >= 0,
         pc'[w] \in {"idle", "ready"} => mem'[w].flow = 0
  PROVE  CashInMemory'
<1> SUFFICES ASSUME NEW v \in Workers
             PROVE  /\ pc'[v] # "idle" /\ ~mem'[v].stale =>
                         mem'[v].cash = account'.cash + mem'[v].flow
                    /\ mem'[v].cash >= 0
                    /\ pc'[v] \in {"idle", "ready"} => mem'[v].flow = 0
  BY DEF CashInMemory
<1>1. CASE v = w
  BY <1>1
<1>2. CASE v # w
  <2>1. pc'[v] = pc[v] /\ mem'[v] = mem[v]
    BY <1>2
  <2>2. /\ pc[v] # "idle" /\ ~mem[v].stale =>
             mem[v].cash = account.cash + mem[v].flow
        /\ mem[v].cash >= 0
        /\ pc[v] \in {"idle", "ready"} => mem[v].flow = 0
    BY DEF CashInMemory
  <2> QED BY <2>1, <2>2
<1> QED BY <1>1, <1>2

(* A step of w in the middle of a transaction.                             *)
LEMMA CashUnmoved ==
  ASSUME CashInMemory, NEW w \in Workers,
         account'.cash = account.cash,
         \A v \in Workers \ {w} : pc'[v] = pc[v] /\ mem'[v] = mem[v],
         pc[w] # "idle", pc'[w] = "rows",
         mem'[w].cash = mem[w].cash, mem'[w].flow = mem[w].flow,
         mem'[w].stale = mem[w].stale
  PROVE  CashInMemory'
<1>1. /\ ~mem[w].stale => mem[w].cash = account.cash + mem[w].flow
      /\ mem[w].cash >= 0
  BY DEF CashInMemory
<1>2. ~mem'[w].stale => ~mem[w].stale
  OBVIOUS
<1> QED BY <1>1, <1>2, CashOfOthers

LEMMA CashNext ==
  ASSUME LedgerTyped, LocksKept, CashInMemory, NoDebt, [Next]_vars
  PROVE  CashInMemory'
<1>1. ASSUME NEW w \in Workers, LoadAccount(w) PROVE CashInMemory'
  <2> DEFINE fresh == [Empty EXCEPT !.cash = account.cash]
  <2>1. fresh.cash = account.cash /\ fresh.flow = 0
    BY DEF Empty
  <2>2. mem' = [mem EXCEPT ![w] = fresh] /\ account' = account
        /\ pc' = [pc EXCEPT ![w] = "ready"]
    BY <1>1 DEF LoadAccount
  <2> HIDE DEF fresh
  <2>3. /\ mem'[w] = fresh
        /\ \A v \in Workers \ {w} : pc'[v] = pc[v] /\ mem'[v] = mem[v]
    BY <2>2 DEF LedgerTyped
  <2>4. account.cash \in Int /\ account.cash >= 0
    BY DEF NoDebt, LedgerTyped
  <2> QED BY <2>1, <2>2, <2>3, <2>4, CashOfOthers
<1>2. ASSUME NEW w \in Workers,
             Release(w) \/ AbortDeadlocked(w) \/ CommitRevalue(w)
      PROVE  CashInMemory'
  <2>1. Empty.cash = 0 /\ Empty.flow = 0
    BY DEF Empty
  <2>2. /\ mem' = [mem EXCEPT ![w] = Empty] /\ pc' = [pc EXCEPT ![w] = "idle"]
        /\ account'.cash = account.cash
    BY <1>2, CommitRevalueEffect DEF Release, AbortDeadlocked, CommitRevalue
  <2>3. /\ mem'[w] = Empty /\ pc'[w] = "idle"
        /\ \A v \in Workers \ {w} : pc'[v] = pc[v] /\ mem'[v] = mem[v]
    BY <2>2 DEF LedgerTyped
  <2> QED BY <2>1, <2>2, <2>3, CashOfOthers
<1>3. ASSUME NEW w \in Workers, BeginRevalue(w) PROVE CashInMemory'
  <2>1. /\ pc[w] = "ready" /\ pc'[w] = "rows" /\ account' = account
        /\ \A v \in Workers \ {w} : pc'[v] = pc[v]
    BY <1>3 DEF BeginRevalue, LedgerTyped
  <2> QED BY <1>3, <2>1, BeginRevalueEffect, CashUnmoved
<1>4. ASSUME NEW w \in Workers, SaveCash(w) PROVE CashInMemory'
  <2>1. /\ pc[w] = "priced" /\ pc'[w] = "rows" /\ account' = account
        /\ \A v \in Workers \ {w} : pc'[v] = pc[v]
    BY <1>4 DEF SaveCash, LedgerTyped
  <2>2. Trading(w)
    BY <2>1 DEF LocksKept
  <2> QED BY <1>4, <2>1, <2>2, SaveCashEffect, CashUnmoved
<1>5. ASSUME NEW w \in Workers, NEW p \in Positions,
             SkipRow(w, p) \/ \E x \in Marks : RevalueRow(w, p, x)
      PROVE  CashInMemory'
  <2>1. pc[w] = "rows" /\ pc' = pc /\ account' = account
    BY <1>5 DEF SkipRow, RevalueRow
  <2>2. /\ mem'[w].cash = mem[w].cash /\ mem'[w].flow = mem[w].flow
        /\ mem'[w].stale = mem[w].stale
        /\ \A v \in Workers \ {w} : mem'[v] = mem[v]
    BY <1>5, SkipRowEffect, RevalueRowEffect
  <2> QED BY <2>1, <2>2, CashUnmoved
<1>6. ASSUME NEW w \in Workers, NEW p \in Positions, NEW q \in Quantities,
             NEW x \in Prices, Buy(w, p, q, x) \/ Sell(w, p, q, x)
      PROVE  CashInMemory'
  <2>1. PICK row \in Position, size \in Int, flow \in Int :
          /\ Priced(w, p, row, size, flow)
          /\ mem[w].cash >= 0 => mem[w].cash + flow >= 0
    BY <1>6, TradePriced
  <2>2. /\ mem'[w].cash = mem[w].cash + flow /\ mem'[w].flow = flow
        /\ mem'[w].stale = mem[w].stale /\ pc[w] = "ready"
        /\ \A v \in Workers \ {w} : mem'[v] = mem[v]
        /\ pc' = [pc EXCEPT ![w] = "priced"]
    BY <2>1, PricedEffect
  <2>3. account' = account
    BY <2>1 DEF Priced
  <2>4. pc'[w] = "priced" /\ \A v \in Workers \ {w} : pc'[v] = pc[v]
    BY <2>2 DEF LedgerTyped
  <2>5. /\ ~mem[w].stale => mem[w].cash = account.cash + mem[w].flow
        /\ mem[w].cash >= 0 /\ mem[w].flow = 0
    BY <2>2 DEF CashInMemory
  <2>6. mem[w].cash \in Int /\ account.cash \in Int
    BY DEF LedgerTyped, Memory
  <2>7. ~mem'[w].stale => ~mem[w].stale
    BY <2>2
  <2>8. ~mem'[w].stale => mem'[w].cash = account.cash + mem'[w].flow
    BY <2>2, <2>5, <2>6, <2>7
  <2> QED BY <2>1, <2>2, <2>3, <2>4, <2>5, <2>8, CashOfOthers
<1>7. ASSUME NEW w \in Workers, CommitTrade(w) PROVE CashInMemory'
  <2>1. pc' = [pc EXCEPT ![w] = "ready"]
    BY <1>7 DEF CommitTrade
  <2>2. pc'[w] = "ready" /\ \A v \in Workers \ {w} : pc'[v] = pc[v]
    BY <2>1 DEF LedgerTyped
  <2>3. /\ account'.cash = mem[w].cash /\ mem'[w].cash = mem[w].cash
        /\ mem'[w].flow = 0
    BY <1>7, CommitTradeEffect, CommitTradeMemory
  <2>4. \A v \in Workers \ {w} :
          /\ mem'[v].cash = mem[v].cash /\ mem'[v].flow = mem[v].flow
          /\ pc[v] # "idle" => mem'[v].stale = TRUE
    BY <1>7, CommitTradeMemory
  <2>5. mem[w].cash \in Int
    BY DEF LedgerTyped, Memory
  <2> SUFFICES ASSUME NEW v \in Workers
               PROVE  /\ pc'[v] # "idle" /\ ~mem'[v].stale =>
                           mem'[v].cash = account'.cash + mem'[v].flow
                      /\ mem'[v].cash >= 0
                      /\ pc'[v] \in {"idle", "ready"} => mem'[v].flow = 0
    BY DEF CashInMemory
  <2>6. CASE v = w
    BY <2>2, <2>3, <2>5, <2>6 DEF CashInMemory
  <2>7. CASE v # w
    BY <2>2, <2>4, <2>7 DEF CashInMemory
  <2> QED BY <2>6, <2>7
<1>8. CASE UNCHANGED vars
  BY <1>8 DEF vars, CashInMemory
<1> QED BY <1>1, <1>2, <1>3, <1>4, <1>5, <1>6, <1>7, <1>8 DEF Next, Step

LEMMA CashWritten ==
  ASSUME LedgerTyped, CashInMemory, CashExactUnlessStale, NoDebt, [Next]_vars
  PROVE  CashExactUnlessStale' /\ NoDebt'
<1>1. ASSUME NEW w \in Workers, CommitTrade(w)
      PROVE  CashExactUnlessStale' /\ NoDebt'
  <2>1. /\ account'.cash = mem[w].cash /\ book'.flow = book.flow + mem[w].flow
        /\ pc[w] # "idle"
    BY <1>1, CommitTradeEffect DEF CommitTrade
  <2>2. ~lost' => ~lost /\ ~mem[w].stale
    BY <1>1, Zenon DEF CommitTrade
  <2>3. /\ ~mem[w].stale => mem[w].cash = account.cash + mem[w].flow
        /\ mem[w].cash >= 0
    BY <2>1 DEF CashInMemory
  <2>4. book.flow \in Int /\ mem[w].flow \in Int /\ InitialBalance \in Int
    BY TradingAssumption DEF LedgerTyped, Book, Memory
  <2>5. ~lost' => account'.cash = InitialBalance + book'.flow
    BY <2>1, <2>2, <2>3, <2>4 DEF CashExactUnlessStale
  <2>6. NoDebt'
    BY <2>1, <2>3 DEF NoDebt
  <2> QED BY <2>5, <2>6 DEF CashExactUnlessStale
<1>2. ASSUME NEW w \in Workers, CommitRevalue(w)
      PROVE  CashExactUnlessStale' /\ NoDebt'
  BY <1>2, CommitRevalueEffect DEF CashExactUnlessStale, NoDebt
<1>3. CASE UNCHANGED <<account, book, lost>>
  BY <1>3 DEF CashExactUnlessStale, NoDebt
<1> QED BY <1>1, <1>2, <1>3, StepsThatWrite

LEMMA CashKept == Spec => [](CashInMemory /\ CashExactUnlessStale /\ NoDebt)
BY CashInit, CashNext, CashWritten, TypedAndLocked, PTL DEF Spec

(* As long as no trade is committed with an account object that somebody   *)
(* else's commit has overtaken, the cash is the initial balance and what   *)
(* the trades brought in and cost: nothing else in the handlers moves it.  *)
THEOREM CashIsExact == Spec => []CashExactUnlessStale
BY CashKept, PTL

(* The cash column never shows a debt, overtaken objects or not: every     *)
(* value ever saved has passed the test on the cash.                       *)
THEOREM CashNeverNegative == Spec => []NoDebt
BY CashKept, PTL

-------------------------------------------------------------------------------
(* Books: what makes equity and realized profit agree with the rows.       *)

LEMMA BooksInit == Init => BooksClosable
<1> SUFFICES ASSUME Init, NEW w \in Workers PROVE pc[w] # "rows"
  BY DEF BooksClosable
<1> QED BY DEF Init

(* A step of w that changes no row, and takes no lock from anybody.        *)
LEMMA BooksOfOthers ==
  ASSUME LedgerTyped, LocksKept, BooksClosable, NEW w \in Workers,
         rows' = rows,
         acct \notin {Free, w} => acct' = acct,
         \A p \in Positions : lock[p] \notin {Free, w} => lock'[p] = lock[p],
         \A v \in Workers \ {w} : pc'[v] = pc[v] /\ mem'[v] = mem[v],
         pc'[w] = "rows" /\ Trading(w)' =>
           /\ acct' = w
           /\ \A p \in Positions \ {mem'[w].target} :
                /\ mem'[w].list[p].realized = rows[p].realized
                /\ lock'[p] # w => mem'[w].list[p] = rows[p]
  PROVE  BooksClosable'
<1> SUFFICES ASSUME NEW v \in Workers, pc'[v] = "rows", Trading(v)'
             PROVE  /\ acct' = v
                    /\ \A p \in Positions \ {mem'[v].target} :
                         /\ mem'[v].list[p].realized = rows'[p].realized
                         /\ lock'[p] # v => mem'[v].list[p] = rows'[p]
  BY DEF BooksClosable
<1>1. CASE v = w
  BY <1>1
<1>2. CASE v # w
  <2>1. pc[v] = "rows" /\ Trading(v) /\ mem'[v] = mem[v]
    BY <1>2 DEF Trading
  <2>2. /\ acct = v
        /\ \A p \in Positions \ {mem[v].target} :
             /\ mem[v].list[p].realized = rows[p].realized
             /\ lock[p] # v => mem[v].list[p] = rows[p]
    BY <2>1 DEF BooksClosable
  <2>3. v \notin {Free, w}
    BY <1>2, TradingAssumption
  <2>4. \A p \in Positions : lock'[p] # v => lock[p] # v
    BY <2>3
  <2> QED BY <2>1, <2>2, <2>3, <2>4
<1> QED BY <1>1, <1>2

LEMMA BooksNext ==
  ASSUME LedgerTyped, LocksKept, BooksClosable, [Next]_vars
  PROVE  BooksClosable'
<1>1. ASSUME NEW w \in Workers,
             LoadAccount(w) \/ Release(w) \/ AbortDeadlocked(w)
      PROVE  BooksClosable'
  <2>1. /\ pc'[w] # "rows" /\ rows' = rows
        /\ \A v \in Workers \ {w} : pc'[v] = pc[v] /\ mem'[v] = mem[v]
    BY <1>1 DEF LoadAccount, Release, AbortDeadlocked, LedgerTyped
  <2>2. (lock' = lock /\ acct' = acct) \/ Unlock(w)
    BY <1>1 DEF LoadAccount, Release, AbortDeadlocked
  <2>3. /\ acct \notin {Free, w} => acct' = acct
        /\ \A p \in Positions : lock[p] \notin {Free, w} => lock'[p] = lock[p]
    BY <2>2, UnlockEffect
  <2> QED BY <2>1, <2>3, BooksOfOthers
<1>2. ASSUME NEW w \in Workers, BeginRevalue(w) PROVE BooksClosable'
  <2>1. /\ pc[w] = "ready" /\ \A v \in Workers \ {w} : pc'[v] = pc[v]
        /\ rows' = rows /\ lock' = lock /\ acct' = acct
    BY <1>2 DEF BeginRevalue, LedgerTyped
  <2>2. ~Trading(w)'
    BY <1>2, <2>1, BeginRevalueEffect DEF LocksKept, Trading
  <2> QED BY <1>2, <2>1, <2>2, BeginRevalueEffect, BooksOfOthers
<1>3. ASSUME NEW w \in Workers, SaveCash(w) PROVE BooksClosable'
  <2>1. /\ pc[w] = "priced" /\ \A v \in Workers \ {w} : pc'[v] = pc[v]
        /\ rows' = rows /\ lock' = lock /\ acct = Free /\ acct' = w
    BY <1>3 DEF SaveCash, LedgerTyped
  <2>2. Trading(w)
    BY <2>1 DEF LocksKept
  <2> QED BY <1>3, <2>1, <2>2, SaveCashEffect, BooksOfOthers
<1>4. ASSUME NEW w \in Workers, NEW p \in Positions,
             SkipRow(w, p) \/ \E x \in Marks : RevalueRow(w, p, x)
      PROVE  BooksClosable'
  <2>1. pc[w] = "rows" /\ pc' = pc /\ rows' = rows /\ acct' = acct
    BY <1>4 DEF SkipRow, RevalueRow
  <2>2. \/ lock' = lock /\ mem'[w].list = mem[w].list
        \/ /\ lock' = [lock EXCEPT ![p] = w] /\ lock[p] \in {Free, w}
           /\ \A s \in Positions :
                /\ mem'[w].list[s].realized = mem[w].list[s].realized
                /\ s # p => mem'[w].list[s] = mem[w].list[s]
    <3>1. CASE SkipRow(w, p)
      <4>1. lock' = lock
        BY <3>1 DEF SkipRow
      <4> QED BY <3>1, <4>1, SkipRowEffect
    <3>2. ASSUME NEW x \in Marks, RevalueRow(w, p, x)
          PROVE  /\ lock' = [lock EXCEPT ![p] = w] /\ lock[p] \in {Free, w}
                 /\ \A s \in Positions :
                      /\ mem'[w].list[s].realized = mem[w].list[s].realized
                      /\ s # p => mem'[w].list[s] = mem[w].list[s]
      <4>1. lock' = [lock EXCEPT ![p] = w] /\ lock[p] \in {Free, w}
        BY <3>2 DEF RevalueRow, CanLock
      <4> QED BY <3>2, <4>1, RevalueRowEffect
    <3> QED BY <1>4, <3>1, <3>2
  <2>3. \A s \in Positions : lock[s] \notin {Free, w} => lock'[s] = lock[s]
    BY <2>2 DEF LedgerTyped
  <2>4. \A s \in Positions :
          /\ mem'[w].list[s].realized = mem[w].list[s].realized
          /\ lock'[s] # w => /\ lock[s] # w
                             /\ mem'[w].list[s] = mem[w].list[s]
    BY <2>2 DEF LedgerTyped
  <2>5. /\ mem'[w].target = mem[w].target
        /\ \A v \in Workers \ {w} : mem'[v] = mem[v]
    BY <1>4, SkipRowEffect, RevalueRowEffect
  <2>6. ASSUME Trading(w)'
        PROVE  /\ acct' = w
               /\ \A s \in Positions \ {mem'[w].target} :
                    /\ mem'[w].list[s].realized = rows[s].realized
                    /\ lock'[s] # w => mem'[w].list[s] = rows[s]
    <3>1. Trading(w)
      BY <2>5, <2>6 DEF Trading
    <3>2. /\ acct = w
          /\ \A s \in Positions \ {mem[w].target} :
               /\ mem[w].list[s].realized = rows[s].realized
               /\ lock[s] # w => mem[w].list[s] = rows[s]
      BY <2>1, <3>1 DEF BooksClosable
    <3> QED BY <2>1, <2>4, <2>5, <3>2
  <2> QED BY <2>1, <2>3, <2>5, <2>6, BooksOfOthers
<1>5. ASSUME NEW w \in Workers, NEW p \in Positions, NEW q \in Quantities,
             NEW x \in Prices, Buy(w, p, q, x) \/ Sell(w, p, q, x)
      PROVE  BooksClosable'
  <2>1. PICK row \in Position, size \in Int, flow \in Int :
          Priced(w, p, row, size, flow)
    BY <1>5, TradePriced
  <2>2. /\ \A v \in Workers \ {w} : mem'[v] = mem[v]
        /\ lock' = [lock EXCEPT ![p] = w] /\ lock[p] \in {Free, w}
        /\ pc' = [pc EXCEPT ![w] = "priced"]
    BY <2>1, PricedEffect
  <2>3. rows' = rows /\ acct' = acct
    BY <2>1 DEF Priced
  <2>4. /\ pc'[w] # "rows" /\ \A v \in Workers \ {w} : pc'[v] = pc[v]
        /\ \A s \in Positions : lock[s] \notin {Free, w} => lock'[s] = lock[s]
    BY <2>2 DEF LedgerTyped
  <2> QED BY <2>2, <2>3, <2>4, BooksOfOthers
<1>6. ASSUME NEW w \in Workers, CommitTrade(w) \/ CommitRevalue(w)
      PROVE  BooksClosable'
  <2>1. acct \in {Free, w}
    BY <1>6 DEF CommitTrade, CommitRevalue, BooksClosable
  <2>2. /\ pc'[w] # "rows" /\ \A v \in Workers \ {w} : pc'[v] = pc[v]
    <3>1. \E point \in {"ready", "idle"} : pc' = [pc EXCEPT ![w] = point]
      BY <1>6 DEF CommitTrade, CommitRevalue
    <3>2. pc \in [Workers -> Points]
      BY DEF LedgerTyped
    <3> QED BY <3>1, <3>2
  <2>3. \A v \in Workers \ {w} : mem'[v].target = mem[v].target
    <3>1. CASE CommitTrade(w)
      BY <3>1, CommitTradeMemory
    <3>2. CASE CommitRevalue(w)
      <4>1. mem' = [mem EXCEPT ![w] = Empty] /\ mem \in [Workers -> Memory]
        BY <3>2, CommitRevalueEffect DEF LedgerTyped
      <4> QED BY <4>1
    <3> QED BY <1>6, <3>1, <3>2
  <2> SUFFICES ASSUME NEW v \in Workers, pc'[v] = "rows", Trading(v)'
               PROVE  FALSE
    BY DEF BooksClosable
  <2>4. v # w /\ pc[v] = "rows" /\ Trading(v)
    BY <2>2, <2>3 DEF Trading
  <2>5. acct = v
    BY <2>4 DEF BooksClosable
  <2> QED BY <2>1, <2>4, <2>5, TradingAssumption
<1>7. CASE UNCHANGED vars
  BY <1>7 DEF vars, BooksClosable, Trading
<1> QED BY <1>1, <1>2, <1>3, <1>4, <1>5, <1>6, <1>7 DEF Next, Step

(* The rows a trade leaves have the values it summed up.                   *)
LEMMA RowsAsSummed ==
  ASSUME LedgerTyped, BooksClosable, NEW w \in Workers, CommitTrade(w)
  PROVE  \A p \in Positions : /\ rows'[p].value = mem[w].list[p].value
                              /\ rows'[p].realized = mem[w].list[p].realized
<1>1. \A p \in Positions \ {mem[w].target} :
        /\ mem[w].list[p].realized = rows[p].realized
        /\ lock[p] # w => mem[w].list[p] = rows[p]
  BY DEF CommitTrade, BooksClosable
<1>2. /\ rows'[mem[w].target] = mem[w].list[mem[w].target]
      /\ \A p \in Positions \ {mem[w].target} :
           /\ rows'[p].realized = rows[p].realized
           /\ lock[p] = w => rows'[p].value = mem[w].list[p].value
           /\ lock[p] # w => rows'[p] = rows[p]
  BY CommitTradeEffect
<1> QED BY <1>1, <1>2

(* A trade leaves equity and realized profit that are the sums over the    *)
(* rows it leaves, whatever others hold, wait for and will write.          *)
THEOREM TradesCloseTheBooks == Spec => TradeClosesBooks
<1>1. LedgerTyped /\ BooksClosable =>
        \A w \in Workers : CommitTrade(w) =>
          /\ account'.equity = account'.cash + Total(rows', "value")
          /\ account'.realized = Total(rows', "realized")
  <2> SUFFICES ASSUME LedgerTyped, BooksClosable,
                      NEW w \in Workers, CommitTrade(w)
               PROVE  /\ account'.equity = account'.cash + Total(rows', "value")
                      /\ account'.realized = Total(rows', "realized")
    OBVIOUS
  <2>1. /\ [p \in Positions |-> rows'[p]["value"]]
             = [p \in Positions |-> mem[w].list[p]["value"]]
        /\ [p \in Positions |-> rows'[p]["realized"]]
             = [p \in Positions |-> mem[w].list[p]["realized"]]
    BY RowsAsSummed
  <2>2. /\ Total(rows', "value") = Total(mem[w].list, "value")
        /\ Total(rows', "realized") = Total(mem[w].list, "realized")
    BY <2>1 DEF Total
  <2>3. account' = Valued(mem[w].cash, mem[w].list)
    BY DEF CommitTrade
  <2>4. /\ account'.cash = mem[w].cash
        /\ account'.equity = mem[w].cash + Total(mem[w].list, "value")
        /\ account'.realized = Total(mem[w].list, "realized")
    BY <2>3 DEF Valued
  <2> QED BY <2>2, <2>4
<1>2. Spec => []BooksClosable
  BY BooksInit, BooksNext, TypedAndLocked, PTL DEF Spec
<1> QED BY <1>1, <1>2, TypedAndLocked, PTL DEF Spec, TradeClosesBooks

-------------------------------------------------------------------------------
(* Circular waits.                                                         *)

(* The account row is held by trades that have come to their revaluation.  *)
AccountHeld == acct # Free => pc[acct] = "rows" /\ Trading(acct)

LEMMA HeldNext ==
  ASSUME LedgerTyped, LocksKept, AccountHeld, [Next]_vars
  PROVE  AccountHeld'
<1> SUFFICES ASSUME acct' # Free PROVE pc'[acct'] = "rows" /\ Trading(acct)'
  BY DEF AccountHeld
<1>1. ASSUME NEW w \in Workers,
             \/ LoadAccount(w) \/ Release(w) \/ BeginRevalue(w)
             \/ AbortDeadlocked(w) \/ CommitTrade(w) \/ CommitRevalue(w)
      PROVE  pc'[acct'] = "rows" /\ Trading(acct)'
  <2>1. acct' = acct /\ acct # w
    <3>1. ASSUME LoadAccount(w) \/ Release(w) \/ BeginRevalue(w)
          PROVE  acct' = acct /\ acct # w
      <4>1. acct' = acct /\ (pc[w] = "idle" \/ pc[w] = "ready")
        BY <3>1 DEF LoadAccount, Release, BeginRevalue
      <4> QED BY <4>1 DEF AccountHeld
    <3>2. ASSUME AbortDeadlocked(w) \/ CommitTrade(w) \/ CommitRevalue(w)
          PROVE  acct' = acct /\ acct # w
      <4>1. acct' = IF acct = w THEN Free ELSE acct
        BY <3>2 DEF AbortDeadlocked, CommitTrade, CommitRevalue, Unlock
      <4> QED BY <4>1
    <3> QED BY <1>1, <3>1, <3>2
  <2>2. acct \in Workers \ {w} /\ pc[acct] = "rows" /\ Trading(acct)
    BY <2>1 DEF LedgerTyped, AccountHeld
  <2>3. \A v \in Workers \ {w} : pc'[v] = pc[v]
    BY <1>1 DEF LoadAccount, Release, BeginRevalue, AbortDeadlocked, CommitTrade,
       CommitRevalue, LedgerTyped
  <2>4. \A v \in Workers \ {w} : mem'[v].target = mem[v].target
    <3>1. CASE CommitTrade(w)
      BY <3>1, CommitTradeMemory
    <3>2. CASE BeginRevalue(w)
      BY <3>2, BeginRevalueEffect
    <3>3. CASE LoadAccount(w) \/ Release(w) \/ AbortDeadlocked(w) \/ CommitRevalue(w)
      BY <3>3 DEF LoadAccount, Release, AbortDeadlocked, CommitRevalue, LedgerTyped
    <3> QED BY <1>1, <3>1, <3>2, <3>3
  <2> QED BY <2>1, <2>2, <2>3, <2>4 DEF Trading
<1>2. ASSUME NEW w \in Workers, SaveCash(w)
      PROVE  pc'[acct'] = "rows" /\ Trading(acct)'
  <2>1. pc[w] = "priced" /\ acct' = w /\ pc' = [pc EXCEPT ![w] = "rows"]
    BY <1>2 DEF SaveCash
  <2>2. Trading(w)
    BY <2>1 DEF LocksKept
  <2>3. mem'[w].target = mem[w].target
    BY <1>2, <2>2, SaveCashEffect
  <2> QED BY <2>1, <2>2, <2>3 DEF LedgerTyped, Trading
<1>3. ASSUME NEW w \in Workers, NEW p \in Positions,
             SkipRow(w, p) \/ \E x \in Marks : RevalueRow(w, p, x)
      PROVE  pc'[acct'] = "rows" /\ Trading(acct)'
  <2>1. acct' = acct /\ pc' = pc
    BY <1>3 DEF SkipRow, RevalueRow
  <2>2. /\ mem'[w].target = mem[w].target
        /\ \A v \in Workers \ {w} : mem'[v] = mem[v]
    BY <1>3, SkipRowEffect, RevalueRowEffect
  <2>3. acct \in Workers
    BY <2>1 DEF LedgerTyped
  <2>4. mem'[acct].target = mem[acct].target
    BY <2>2, <2>3
  <2> QED BY <2>1, <2>4 DEF AccountHeld, Trading
<1>4. ASSUME NEW w \in Workers, NEW p \in Positions, NEW q \in Quantities,
             NEW x \in Prices, Buy(w, p, q, x) \/ Sell(w, p, q, x)
      PROVE  pc'[acct'] = "rows" /\ Trading(acct)'
  <2>1. PICK row \in Position, size \in Int, flow \in Int :
          Priced(w, p, row, size, flow)
    BY <1>4, TradePriced
  <2>2. /\ acct' = acct /\ pc[w] = "ready"
        /\ \A v \in Workers \ {w} : mem'[v] = mem[v]
        /\ pc' = [pc EXCEPT ![w] = "priced"]
    <3>1. acct' = acct
      BY <2>1 DEF Priced
    <3> QED BY <2>1, <3>1, PricedEffect
  <2>3. acct \in Workers \ {w} /\ pc[acct] = "rows" /\ Trading(acct)
    BY <2>2 DEF LedgerTyped, AccountHeld
  <2> QED BY <2>2, <2>3 DEF LedgerTyped, Trading
<1>5. CASE UNCHANGED vars
  BY <1>5 DEF vars, AccountHeld, Trading
<1> QED BY <1>1, <1>2, <1>3, <1>4, <1>5 DEF Next, Step

(* Whom a worker waits for: the holder of the account, or that of a row.   *)
LEMMA Waiting ==
  ASSUME LedgerTyped, NEW v \in Workers, Holders(v) # {}
  PROVE  \/ acct \in Holders(v) /\ acct # Free
         \/ /\ pc[v] = "rows" /\ mem[v].todo # {}
            /\ \E p \in Positions : lock[p] \in Holders(v) /\ lock[p] \notin {Free, v}
<1>1. CASE pc[v] = "priced"
  BY <1>1 DEF Holders
<1>2. CASE pc[v] = "rows" /\ mem[v].todo # {}
  <2>1. Holders(v) = IF \A p \in mem[v].todo : ~CanLock(v, p)
                     THEN {lock[p] : p \in mem[v].todo} ELSE {}
    BY <1>2 DEF Holders
  <2>2. mem[v].todo \in SUBSET Positions
    BY DEF LedgerTyped, Memory
  <2>3. PICK p \in mem[v].todo : TRUE
    BY <1>2
  <2> QED BY <1>2, <2>1, <2>2, <2>3 DEF CanLock
<1>3. CASE pc[v] = "rows" /\ mem[v].todo = {}
  BY <1>3 DEF Holders
<1>4. CASE pc[v] \notin {"priced", "rows"}
  BY <1>4 DEF Holders
<1> QED BY <1>1, <1>2, <1>3, <1>4

LEMMA TwoLocked ==
  ASSUME NEW p \in Positions, NEW s \in Positions, p # s, lock[p] # Free, lock[s] # Free
  PROVE  Cardinality({k \in Positions : lock[k] # Free}) > 1
<1> DEFINE held == {k \in Positions : lock[k] # Free}
<1>1. IsFiniteSet(held) /\ p \in held /\ s \in held \ {p}
  BY TradingAssumption, FS_Subset
<1> HIDE DEF held
<1>2. IsFiniteSet(held \ {p}) /\ Cardinality(held \ {p}) = Cardinality(held) - 1
  BY <1>1, FS_RemoveElement
<1>3. Cardinality(held) \in Nat /\ Cardinality(held \ {p}) \in Nat
  BY <1>1, <1>2, FS_CardinalityType
<1>4. Cardinality(held \ {p}) # 0
  BY <1>1, <1>2, FS_EmptySet
<1> QED BY <1>2, <1>3, <1>4 DEF held

LEMMA CircleOfTwo ==
  ASSUME LedgerTyped, LocksKept, AccountHeld, NEW w \in Workers, Deadlocked(w)
  PROVE  Cardinality({p \in Positions : lock[p] # Free}) > 1
<1>1. PICK S \in SUBSET Workers :
        w \in S /\ \A v \in S : Holders(v) # {} /\ Holders(v) \subseteq S
  BY DEF Deadlocked
<1>2. \A v \in S : v \in Workers /\ v # Free
  BY TradingAssumption
(* Somebody waits for the account: its holder waits for a row other than  *)
(* that of its own trade.                                                  *)
<1>3. ASSUME NEW v \in S, acct \in Holders(v), acct # Free
      PROVE  Cardinality({p \in Positions : lock[p] # Free}) > 1
  <2>1. acct \in S /\ acct \in Workers /\ Holders(acct) # {} /\ acct \notin Holders(acct)
    <3>1. acct \in S /\ acct \in Workers /\ Holders(acct) # {}
      BY <1>1, <1>3
    <3>2. pc[acct] = "rows" /\ Trading(acct)
      BY <1>3 DEF AccountHeld
    <3>3. acct \notin Holders(acct)
      <4>1. CASE mem[acct].todo = {}
        BY <3>1, <3>2, <4>1 DEF Holders
      <4>2. CASE mem[acct].todo # {}
        BY <3>2, <4>2 DEF Holders, CanLock
      <4> QED BY <4>1, <4>2
    <3> QED BY <3>1, <3>3
  <2>2. PICK p \in Positions : lock[p] \notin {Free, acct}
    BY <2>1, Waiting
  <2>3. mem[acct].target \in Positions /\ lock[mem[acct].target] = acct
    BY <1>3, <2>1 DEF AccountHeld, LocksKept, Trading, LedgerTyped, Memory
  <2> QED BY <1>3, <2>2, <2>3, TwoLocked
(* Otherwise a row's holder waits for another row.                         *)
<1>4. ASSUME \A v \in S : ~(acct \in Holders(v) /\ acct # Free)
      PROVE  Cardinality({p \in Positions : lock[p] # Free}) > 1
  <2>1. PICK p \in Positions : lock[p] \in Holders(w) /\ lock[p] \notin {Free, w}
    BY <1>1, <1>4, Waiting
  <2>2. PICK u : u = lock[p]
    OBVIOUS
  <2>3. u \in S /\ u \in Workers /\ u # Free
    BY <1>1, <2>1, <2>2
  <2>4. PICK s \in Positions : lock[s] \notin {Free, u}
    BY <1>1, <1>4, <2>3, Waiting
  <2> QED BY <2>2, <2>3, <2>4, TwoLocked
<1> QED BY <1>3, <1>4

(* PostgreSQL has a deadlock to break only where transactions hold rows of *)
(* two positions: a trade takes the account last, and revalues every row.  *)
THEOREM DeadlocksTakeTwoPositions == Spec => []DeadlockNeedsTwoPositions
<1>1. Init => AccountHeld
  BY DEF Init, AccountHeld
<1>2. Spec => []AccountHeld
  BY <1>1, HeldNext, TypedAndLocked, PTL DEF Spec
<1>3. LedgerTyped /\ LocksKept /\ AccountHeld => DeadlockNeedsTwoPositions
  BY CircleOfTwo DEF DeadlockNeedsTwoPositions
<1> QED BY <1>2, <1>3, TypedAndLocked, PTL

-------------------------------------------------------------------------------
(* Rounding: the difference between profit and the books.                  *)

(* A row after a trade of that flow on the row before, whatever is done to *)
(* its valuation.                                                          *)
SameCost(r, s) == r.qty = s.qty /\ r.avg = s.avg /\ r.realized = s.realized
Deal(old, new, flow) ==
  \E q \in Quantities, x \in Prices :
    \/ flow = -Amount(q, x) /\ SameCost(new, Bought(old, q, x))
    \/ old.qty >= q /\ flow = Amount(q, x) /\ SameCost(new, Sold(old, q, x))

Profit(r) == CostBasis(r) - r.realized

LEMMA ProfitType ==
  ASSUME NEW r \in Position
  PROVE  CostBasis(r) \in Nat /\ Profit(r) \in Int
<1>1. CostBasis(r) \in Nat
  BY AmountType DEF CostBasis, Position
<1> QED BY <1>1 DEF Profit, Position

LEMMA DealSame ==
  ASSUME NEW old, NEW new, NEW row, NEW flow, Deal(old, new, flow), SameCost(row, new)
  PROVE  Deal(old, row, flow)
<1>1. \A r : SameCost(new, r) => SameCost(row, r)
  BY DEF SameCost
<1> QED BY <1>1 DEF Deal

LEMMA DealCosts ==
  ASSUME NEW old \in Position, NEW new \in Position, NEW flow \in Int, Deal(old, new, flow),
         NEW d \in Int, d = flow + Profit(new) - Profit(old)
  PROVE  /\ 2 * (Scale * d) <= new.qty + 3 * Scale
         /\ 2 * (Scale * d) >= -(new.qty + 3 * Scale)
<1>1. PICK q \in Quantities, x \in Prices :
        \/ flow = -Amount(q, x) /\ SameCost(new, Bought(old, q, x))
        \/ old.qty >= q /\ flow = Amount(q, x) /\ SameCost(new, Sold(old, q, x))
  BY DEF Deal
<1>2. q \in Nat \ {0} /\ x \in Nat /\ Scale \in Nat \ {0} /\ Amount(q, x) \in Nat
  BY TradingAssumption, ScaleType, AmountType
<1>3. /\ old.qty \in Nat /\ old.realized \in Int /\ new.qty \in Nat /\ new.realized \in Int
      /\ CostBasis(old) \in Nat /\ CostBasis(new) \in Nat
  BY ProfitType DEF Position
<1>4. CASE flow = -Amount(q, x) /\ SameCost(new, Bought(old, q, x))
  <2>1. CostBasis(new) = CostBasis(Bought(old, q, x))
    BY <1>4 DEF SameCost, CostBasis
  <2>2. new.realized = old.realized /\ new.qty = old.qty + q
    BY <1>4 DEF SameCost, Bought, Position
  <2>3. d = CostBasis(Bought(old, q, x)) - CostBasis(old) - Amount(q, x)
    BY <1>2, <1>3, <1>4, <2>1, <2>2 DEF Profit
  <2>4. 2 * (Scale * d) <= old.qty + q + Scale /\ 2 * (Scale * d) >= -(old.qty + q + Scale)
    BY <1>2, <2>3, BoughtCosts
  <2>5. Scale * d \in Int
    BY <1>2
  <2> QED BY <1>2, <1>3, <2>2, <2>4, <2>5
<1>5. CASE old.qty >= q /\ flow = Amount(q, x) /\ SameCost(new, Sold(old, q, x))
  <2>1. /\ CostBasis(new) = CostBasis(Sold(old, q, x))
        /\ new.realized = Sold(old, q, x).realized
    BY <1>5 DEF SameCost, CostBasis
  <2>2. d = Amount(q, x) + (CostBasis(Sold(old, q, x)) - Sold(old, q, x).realized)
            - (CostBasis(old) - old.realized)
    BY <1>2, <1>3, <1>5, <2>1 DEF Profit
  <2>3. d <= 1 /\ d >= -1
    BY <1>2, <1>5, <2>2, SoldCosts
  <2>4. d = 1 \/ d = 0 \/ d = -1
    BY <2>3
  <2>5. Scale * d = Scale \/ Scale * d = 0 \/ Scale * d = -Scale
    BY <1>2, <2>4
  <2> QED BY <1>2, <1>3, <2>5
<1> QED BY <1>1, <1>4, <1>5

(* Why: a trade at hand is one on the row that it holds the lock of.       *)
TradesKnown ==
  \A w \in Workers :
    Trading(w) => Deal(rows[mem[w].target], mem[w].list[mem[w].target], mem[w].flow)

LEMMA KnownKept ==
  ASSUME LedgerTyped, LocksKept, TradesKnown, NEW w \in Workers,
         \A v \in Workers \ {w} :
           /\ mem'[v].target = mem[v].target /\ mem'[v].flow = mem[v].flow
           /\ mem'[v].list = mem[v].list,
         \A p \in Positions : lock[p] # w => rows'[p] = rows[p],
         Trading(w)' =>
           Deal(rows'[mem'[w].target], mem'[w].list[mem'[w].target], mem'[w].flow)
  PROVE  TradesKnown'
<1> SUFFICES ASSUME NEW v \in Workers, Trading(v)'
             PROVE  Deal(rows'[mem'[v].target], mem'[v].list[mem'[v].target], mem'[v].flow)
  BY DEF TradesKnown, Deal
<1>1. CASE v = w
  BY <1>1
<1>2. CASE v # w
  <2>1. /\ mem'[v].target = mem[v].target /\ mem'[v].flow = mem[v].flow
        /\ mem'[v].list = mem[v].list
    BY <1>2
  <2>2. Trading(v) /\ mem[v].target \in Positions
    BY <2>1 DEF Trading, LedgerTyped, Memory
  <2>3. rows'[mem[v].target] = rows[mem[v].target]
    BY <1>2, <2>2 DEF LocksKept
  <2> QED BY <2>1, <2>2, <2>3 DEF TradesKnown
<1> QED BY <1>1, <1>2

LEMMA PricedDeal ==
  ASSUME LedgerTyped, NEW w \in Workers, NEW p \in Positions,
         NEW q \in Quantities, NEW x \in Prices,
         Buy(w, p, q, x) \/ Sell(w, p, q, x)
  PROVE  /\ mem'[w].target = p /\ rows' = rows
         /\ \A v \in Workers \ {w} : mem'[v] = mem[v]
         /\ Deal(rows[p], mem'[w].list[p], mem'[w].flow)
<1>1. q \in Nat \ {0} /\ x \in Nat /\ rows[p] \in Position
  BY TradingAssumption DEF LedgerTyped
<1>2. Amount(q, x) \in Int /\ -Amount(q, x) \in Int /\ q \in Int /\ -q \in Int
  BY <1>1, AmountType
<1>3. CASE Buy(w, p, q, x)
  <2>1. PICK row : row = Bought(rows[p], q, x)
    OBVIOUS
  <2>2. PICK flow : flow = -Amount(q, x)
    OBVIOUS
  <2>8. PICK size : size = q
    OBVIOUS
  <2>3. row \in Position /\ flow \in Int /\ size \in Int /\ Priced(w, p, row, size, flow)
    BY <1>1, <1>2, <1>3, <2>1, <2>2, <2>8, BoughtType DEF Buy
  <2>4. /\ mem'[w].target = p /\ mem'[w].flow = flow /\ mem'[w].list[p] = row
        /\ \A v \in Workers \ {w} : mem'[v] = mem[v]
    BY <2>3, PricedEffect
  <2>5. rows' = rows
    BY <2>3 DEF Priced
  <2> QED BY <2>1, <2>2, <2>4, <2>5 DEF Deal, SameCost
<1>4. CASE Sell(w, p, q, x)
  <2>1. PICK row : row = Sold(rows[p], q, x)
    OBVIOUS
  <2>2. PICK flow : flow = Amount(q, x)
    OBVIOUS
  <2>3. PICK size : size = -q
    OBVIOUS
  <2>4. rows[p].qty >= q /\ Priced(w, p, row, size, flow)
    BY <1>4, <2>1, <2>2, <2>3 DEF Sell
  <2>5. row \in Position /\ flow \in Int /\ size \in Int
    BY <1>1, <1>2, <2>1, <2>2, <2>3, <2>4, SoldType
  <2>6. /\ mem'[w].target = p /\ mem'[w].flow = flow /\ mem'[w].list[p] = row
        /\ \A v \in Workers \ {w} : mem'[v] = mem[v]
    BY <2>4, <2>5, PricedEffect
  <2>7. rows' = rows
    BY <2>4 DEF Priced
  <2> QED BY <2>1, <2>2, <2>4, <2>6, <2>7 DEF Deal, SameCost
<1> QED BY <1>3, <1>4

LEMMA KnownNext ==
  ASSUME LedgerTyped, LocksKept, TradesKnown, [Next]_vars
  PROVE  TradesKnown'
<1>1. ASSUME NEW w \in Workers, LoadAccount(w) \/ Release(w) \/ AbortDeadlocked(w)
      PROVE  TradesKnown'
  <2>1. /\ rows' = rows /\ mem'[w].target = Free
        /\ \A v \in Workers \ {w} : mem'[v] = mem[v]
    BY <1>1 DEF LoadAccount, Release, AbortDeadlocked, LedgerTyped, Empty
  <2> QED BY <2>1, KnownKept DEF Trading
<1>2. ASSUME NEW w \in Workers, BeginRevalue(w) PROVE TradesKnown'
  <2>1. pc[w] = "ready" /\ rows' = rows
    BY <1>2 DEF BeginRevalue
  <2>2. ~Trading(w)'
    BY <1>2, <2>1, BeginRevalueEffect DEF LocksKept, Trading
  <2> QED BY <1>2, <2>1, <2>2, BeginRevalueEffect, KnownKept
<1>3. ASSUME NEW w \in Workers, SaveCash(w) PROVE TradesKnown'
  <2>1. pc[w] = "priced" /\ rows' = rows
    BY <1>3 DEF SaveCash
  <2>2. Trading(w)
    BY <2>1 DEF LocksKept
  <2>3. Deal(rows[mem[w].target], mem[w].list[mem[w].target], mem[w].flow)
    BY <2>2 DEF TradesKnown
  <2> QED BY <1>3, <2>1, <2>2, <2>3, SaveCashEffect, KnownKept
<1>4. ASSUME NEW w \in Workers, NEW p \in Positions,
             SkipRow(w, p) \/ \E x \in Marks : RevalueRow(w, p, x)
      PROVE  TradesKnown'
  <2>1. rows' = rows
    BY <1>4 DEF SkipRow, RevalueRow
  <2>2. /\ mem'[w].target = mem[w].target /\ mem'[w].flow = mem[w].flow
        /\ \A v \in Workers \ {w} : mem'[v] = mem[v]
        /\ \A s \in Positions : SameCost(mem'[w].list[s], mem[w].list[s])
    BY <1>4, SkipRowEffect, RevalueRowEffect DEF SameCost
  <2>3. ASSUME Trading(w)'
        PROVE  Deal(rows'[mem'[w].target], mem'[w].list[mem'[w].target], mem'[w].flow)
    <3>1. Trading(w) /\ mem[w].target \in Positions
      BY <2>2, <2>3 DEF Trading, LedgerTyped, Memory
    <3>2. Deal(rows[mem[w].target], mem[w].list[mem[w].target], mem[w].flow)
      BY <3>1 DEF TradesKnown
    <3>3. SameCost(mem'[w].list[mem[w].target], mem[w].list[mem[w].target])
      BY <2>2, <3>1
    <3>4. Deal(rows[mem[w].target], mem'[w].list[mem[w].target], mem[w].flow)
      BY <3>2, <3>3, DealSame
    <3> QED BY <2>1, <2>2, <3>4
  <2> QED BY <2>1, <2>2, <2>3, KnownKept
<1>5. ASSUME NEW w \in Workers, NEW p \in Positions, NEW q \in Quantities,
             NEW x \in Prices, Buy(w, p, q, x) \/ Sell(w, p, q, x)
      PROVE  TradesKnown'
  BY <1>5, PricedDeal, KnownKept
<1>6. ASSUME NEW w \in Workers, CommitTrade(w) PROVE TradesKnown'
  <2>1. lock[mem[w].target] = w
    BY <1>6 DEF CommitTrade, LocksKept
  <2>2. \A p \in Positions : lock[p] # w => rows'[p] = rows[p]
    BY <1>6, <2>1, CommitTradeEffect
  <2>3. ~Trading(w)'
    BY <1>6, CommitTradeMemory DEF Trading
  <2> QED BY <1>6, <2>2, <2>3, CommitTradeMemory, KnownKept
<1>7. ASSUME NEW w \in Workers, CommitRevalue(w) PROVE TradesKnown'
  <2>1. mem'[w].target = Free /\ \A v \in Workers \ {w} : mem'[v] = mem[v]
    BY <1>7, CommitRevalueEffect DEF LedgerTyped, Empty
  <2> QED BY <1>7, <2>1, CommitRevalueEffect, KnownKept DEF Trading
<1>8. CASE UNCHANGED vars
  BY <1>8 DEF vars, TradesKnown, Trading, Deal
<1> QED BY <1>1, <1>2, <1>3, <1>4, <1>5, <1>6, <1>7, <1>8 DEF Next, Step

(* A trade changes one term of the sum, and the cash.                      *)
LEMMA DriftChanges ==
  ASSUME LedgerTyped, LocksKept, TradesKnown, CashInMemory,
         NEW w \in Workers, CommitTrade(w), ~lost'
  PROVE  2 * Scale * Moved(Drift, Drift') <= rows'[mem[w].target].qty + 3 * Scale
<1>1. PICK t : t = mem[w].target
  OBVIOUS
<1>2. PICK flow : flow = mem[w].flow
  OBVIOUS
<1>3. /\ t \in Positions /\ flow \in Int /\ account.cash \in Int /\ InitialBalance \in Int
      /\ rows \in [Positions -> Position] /\ rows' \in [Positions -> Position]
  <2>1. t \in Positions /\ rows' \in [Positions -> Position]
    BY <1>1, CommitTradeEffect
  <2>2. flow \in Int /\ account.cash \in Int /\ rows \in [Positions -> Position]
    BY <1>2 DEF LedgerTyped, Memory
  <2> QED BY <2>1, <2>2, TradingAssumption
<1>4. PICK f : f = [p \in Positions |-> CostBasis(rows[p]) - rows[p].realized]
  OBVIOUS
<1>5. PICK g : g = [p \in Positions |-> CostBasis(rows'[p]) - rows'[p].realized]
  OBVIOUS
<1>6. /\ DOMAIN f = Positions /\ DOMAIN g = Positions
      /\ \A p \in Positions : f[p] = Profit(rows[p]) /\ g[p] = Profit(rows'[p])
  BY <1>4, <1>5 DEF Profit
<1>7. \A p \in Positions : f[p] \in Int /\ g[p] \in Int
  BY <1>3, <1>6, ProfitType
<1>8. \A p \in Positions \ {t} : f[p] = g[p]
  <2> TAKE p \in Positions \ {t}
  <2>1. rows'[p].qty = rows[p].qty /\ rows'[p].avg = rows[p].avg
        /\ rows'[p].realized = rows[p].realized
    BY <1>1, CommitTradeEffect
  <2> QED BY <1>6, <2>1 DEF Profit, CostBasis
<1>9. PICK total : total = SumFunctionOnSet(f, Positions)
  OBVIOUS
<1>10. total \in Int /\ SumFunctionOnSet(g, Positions) = total + g[t] - f[t]
  <2>1. IsFiniteSet(Positions)
    BY TradingAssumption
  <2>2. total \in Int
    BY <1>7, <1>9, <2>1, SumType
  <2>3. SumFunctionOnSet(g, Positions) = SumFunctionOnSet(f, Positions) + g[t] - f[t]
    BY <1>3, <1>7, <1>8, <2>1, SumChanges
  <2> QED BY <1>9, <2>2, <2>3
<1>11. Drift = account.cash - InitialBalance + total
  BY <1>4, <1>6, <1>9 DEF Drift, SumFunction
<1>12. Drift' = account'.cash - InitialBalance + SumFunctionOnSet(g, Positions)
  BY <1>5, <1>6 DEF Drift, SumFunction, CostBasis
<1>13. account'.cash = account.cash + flow
  <2>1. account'.cash = mem[w].cash /\ pc[w] # "idle"
    BY CommitTradeEffect DEF CommitTrade
  <2>2. ~mem[w].stale
    BY Zenon DEF CommitTrade
  <2> QED BY <1>2, <2>1, <2>2 DEF CashInMemory
<1>14. PICK d \in Int : d = flow + Profit(rows'[t]) - Profit(rows[t])
  BY <1>3, ProfitType
<1>15. Drift \in Int /\ Drift' = Drift + d
  <2>1. g[t] = Profit(rows'[t]) /\ f[t] = Profit(rows[t]) /\ g[t] \in Int /\ f[t] \in Int
    BY <1>3, <1>6, <1>7
  <2> QED BY <1>3, <1>10, <1>11, <1>12, <1>13, <1>14, <2>1
<1>16. Deal(rows[t], rows'[t], flow)
  <2>1. rows'[t] = mem[w].list[t] /\ Trading(w)
    BY <1>1, CommitTradeEffect DEF CommitTrade
  <2> QED BY <1>1, <1>2, <2>1 DEF TradesKnown
<1>17. /\ 2 * (Scale * d) <= rows'[t].qty + 3 * Scale
       /\ 2 * (Scale * d) >= -(rows'[t].qty + 3 * Scale)
  BY <1>3, <1>14, <1>16, DealCosts
<1>18. PICK S \in Nat \ {0} : S = Scale
  BY ScaleType
<1>19. Moved(Drift, Drift') = d \/ Moved(Drift, Drift') = -d
  BY <1>15 DEF Moved
<1>20. 2 * S * d = 2 * (S * d) /\ 2 * S * (-d) = -(2 * (S * d)) /\ S * d \in Int
  OBVIOUS
<1>21. rows'[t].qty \in Nat
  BY <1>3 DEF Position
<1> QED BY <1>1, <1>17, <1>18, <1>19, <1>20, <1>21

(* Initial balance plus profit follows cash plus positions: each trade     *)
(* moves the difference by its rounding only, half a price unit for each   *)
(* unit held and a money unit and a half, at any scales.                   *)
THEOREM OnlyRoundingDrifts == Spec => DriftIsRounding
<1>1. Init => TradesKnown
  BY DEF Init, TradesKnown, Trading, Empty
<1>2. Spec => []TradesKnown
  BY <1>1, KnownNext, TypedAndLocked, PTL DEF Spec
<1>3. LedgerTyped /\ LocksKept /\ TradesKnown /\ CashInMemory =>
        \A w \in Workers : CommitTrade(w) /\ ~lost' =>
          2 * Scale * Moved(Drift, Drift') <= rows'[mem[w].target].qty + 3 * Scale
  BY DriftChanges
<1> QED BY <1>2, <1>3, TypedAndLocked, CashKept, PTL DEF Spec, DriftIsRounding
===============================================================================
