------------------------------ MODULE Orders_proofs ------------------------------
(***************************************************************************)
(* Proofs about Orders, for any number of orders and of lifecycle runs,    *)
(* any quantities, policies and limits: every safety property its run      *)
(* checks.  And one about Allocation, on which Orders is built: what a     *)
(* whole run over any ranked list gives out.                               *)
(***************************************************************************)
EXTENDS Orders, FiniteSetTheorems, TLAPS

-------------------------------------------------------------------------------
(* Facts about sums over finite sets and about maxima.                     *)

(* Induction over the natural numbers, for a set of them.                  *)
LEMMA AllNaturals ==
  ASSUME NEW T, 0 \in T, \A n \in Nat : n \in T => n + 1 \in T
  PROVE  \A n \in Nat : n \in T
<1> SUFFICES ASSUME Nat \ T # {} PROVE FALSE
  OBVIOUS
<1> DEFINE Less == {ss \in Nat \X Nat : ss[1] < ss[2]}
<1>1. IsWellFoundedOn(Less, Nat)
  BY NatLessThanWellFounded DEF OpToRel
<1>2. \A n \in Nat : <<n, n + 1>> \in Less
  OBVIOUS
<1> HIDE DEF Less
<1>3. PICK m \in Nat \ T : \A y \in Nat \ T : ~(<<y, m>> \in Less)
  BY <1>1, WFMin
<1>4. m - 1 \in Nat /\ (m - 1) + 1 = m
  BY <1>3
<1>5. <<m - 1, m>> \in Less
  BY <1>2, <1>4
<1> QED BY <1>3, <1>4, <1>5

(* The function that SumFunctionOnSet iterates.                            *)
Chosen(s) == CHOOSE x \in s : TRUE
SumStep(f, g, s) == IF s = {} THEN 0 ELSE f[Chosen(s)] + g[s \ {Chosen(s)}]
Sums(f, S) == CHOOSE g : g = [s \in SUBSET S |-> SumStep(f, g, s)]

LEMMA StepOfEmpty ==
  ASSUME NEW f, NEW g
  PROVE  SumStep(f, g, {}) = 0
BY DEF SumStep

LEMMA SumIsSums ==
  ASSUME NEW f, NEW S
  PROVE  SumFunctionOnSet(f, S) = Sums(f, S)[S]
BY DEF SumFunctionOnSet, FoldFunctionOnSet, MapThenFoldSet, Sums, SumStep, Chosen

LEMMA Smaller ==
  ASSUME NEW S, IsFiniteSet(S), NEW s \in SUBSET S, s # {}
  PROVE  /\ Chosen(s) \in s
         /\ \A x \in s : /\ s \ {x} \in SUBSET S
                         /\ Cardinality(s \ {x}) \in Nat
                         /\ Cardinality(s) = Cardinality(s \ {x}) + 1
<1>1. Chosen(s) \in s
  BY DEF Chosen
<1>2. IsFiniteSet(s) /\ Cardinality(s) \in Nat
  BY FS_Subset, FS_CardinalityType
<1>3. ASSUME NEW x \in s
      PROVE  /\ s \ {x} \in SUBSET S
             /\ Cardinality(s \ {x}) \in Nat /\ Cardinality(s) = Cardinality(s \ {x}) + 1
  <2>1. Cardinality(s \ {x}) = Cardinality(s) - 1 /\ IsFiniteSet(s \ {x})
    BY <1>2, FS_RemoveElement
  <2>2. Cardinality(s \ {x}) \in Nat
    BY <2>1, FS_CardinalityType
  <2> QED BY <1>2, <2>1, <2>2
<1> QED BY <1>1, <1>3

LEMMA SumsDef ==
  ASSUME NEW S, IsFiniteSet(S), NEW f, \A x \in S : f[x] \in Int
  PROVE  /\ \A s \in SUBSET S : Sums(f, S)[s] = SumStep(f, Sums(f, S), s)
         /\ Sums(f, S) = [s \in SUBSET S |-> Sums(f, S)[s]]
<1> DEFINE Good(g, n) == \A s \in SUBSET S : Cardinality(s) <= n => g[s] = SumStep(f, g, s)
           T == {n \in Nat : \E g \in [SUBSET S -> Int] : Good(g, n)}
<1>0. \A s \in SUBSET S : IsFiniteSet(s) /\ Cardinality(s) \in Nat /\ (Cardinality(s) = 0 <=> s = {})
  BY FS_Subset, FS_CardinalityType, FS_EmptySet
<1>1. 0 \in T
  <2>1. [s \in SUBSET S |-> 0] \in [SUBSET S -> Int]
    OBVIOUS
  <2>2. Good([s \in SUBSET S |-> 0], 0)
    BY <1>0 DEF SumStep
  <2> QED BY <2>1, <2>2
<1>2. ASSUME NEW n \in Nat, n \in T PROVE n + 1 \in T
  <2>1. PICK g \in [SUBSET S -> Int] : Good(g, n)
    BY <1>2
  <2> DEFINE h == [s \in SUBSET S |-> SumStep(f, g, s)]
  <2>2. h \in [SUBSET S -> Int]
    <3>1. ASSUME NEW s \in SUBSET S PROVE SumStep(f, g, s) \in Int
      <4>1. CASE s = {}
        BY <4>1 DEF SumStep
      <4>2. CASE s # {}
        BY <4>2, Smaller DEF SumStep
      <4> QED BY <4>1, <4>2
    <3> QED BY <3>1
  <2>3. ASSUME NEW s \in SUBSET S, Cardinality(s) <= n + 1
        PROVE  h[s] = SumStep(f, h, s)
    <3>1. CASE s = {}
      BY <3>1 DEF SumStep
    <3>2. CASE s # {}
      <4> DEFINE x == Chosen(s)
      <4>1. s \ {x} \in SUBSET S /\ Cardinality(s \ {x}) <= n
        BY <1>0, <2>3, <3>2, Smaller
      <4>2. h[s \ {x}] = g[s \ {x}]
        BY <2>1, <4>1
      <4> QED BY <3>2, <4>2 DEF SumStep
    <3> QED BY <3>1, <3>2
  <2>4. Good(h, n + 1)
    BY <2>3
  <2> HIDE DEF h, Good
  <2> QED BY <2>2, <2>4
<1>3. Cardinality(S) \in Nat /\ \A s \in SUBSET S : Cardinality(s) <= Cardinality(S)
  BY FS_Subset, FS_CardinalityType
<1>4. PICK g \in [SUBSET S -> Int] : Good(g, Cardinality(S))
  <2> HIDE DEF Good
  <2>1. Cardinality(S) \in T
    <3> HIDE DEF T
    <3> QED BY <1>1, <1>2, <1>3, AllNaturals
  <2> QED BY <2>1
<1>5. g = [s \in SUBSET S |-> SumStep(f, g, s)]
  BY <1>3, <1>4
<1>6. Sums(f, S) = [s \in SUBSET S |-> SumStep(f, Sums(f, S), s)]
  BY <1>5 DEF Sums
<1>7. \A s \in SUBSET S : Sums(f, S)[s] = SumStep(f, Sums(f, S), s)
  <2> TAKE s \in SUBSET S
  <2> QED BY <1>6, Zenon
<1>8. Sums(f, S) = [s \in SUBSET S |-> Sums(f, S)[s]]
  BY <1>6
<1> QED BY <1>7, <1>8

LEMMA SumsType ==
  ASSUME NEW S, IsFiniteSet(S), NEW f, \A x \in S : f[x] \in Int
  PROVE  Sums(f, S) \in [SUBSET S -> Int]
<1>1. PICK k : k = Sums(f, S)
  OBVIOUS
<1>2. Sums(f, S) = [s \in SUBSET S |-> Sums(f, S)[s]]
  BY SumsDef
<1>3. \A s \in SUBSET S : k[s] = SumStep(f, k, s)
  BY <1>1, SumsDef
<1> DEFINE U == {n \in Nat : \A s \in SUBSET S : Cardinality(s) <= n => k[s] \in Int}
<1>4. k[{}] = 0
  BY <1>3, StepOfEmpty
<1>5. \A s \in SUBSET S : Cardinality(s) \in Nat /\ (Cardinality(s) = 0 => s = {})
  BY FS_Subset, FS_CardinalityType, FS_EmptySet
<1>6. 0 \in U
  BY <1>4, <1>5
<1>7. ASSUME NEW n \in Nat, n \in U PROVE n + 1 \in U
  <2>1. ASSUME NEW s \in SUBSET S, Cardinality(s) <= n + 1 PROVE k[s] \in Int
    <3>1. CASE s = {}
      BY <1>4, <3>1
    <3>2. CASE s # {}
      <4>1. PICK x : x = Chosen(s)
        OBVIOUS
      <4>2. s \ {x} \in SUBSET S /\ Cardinality(s \ {x}) <= n /\ x \in s
        BY <1>5, <2>1, <3>2, <4>1, Smaller
      <4>3. k[s \ {x}] \in Int /\ f[x] \in Int
        BY <1>7, <4>2
      <4>4. k[s] = f[x] + k[s \ {x}]
        BY <1>3, <3>2, <4>1 DEF SumStep
      <4> QED BY <4>3, <4>4
    <3> QED BY <3>1, <3>2
  <2> QED BY <2>1
<1>8. Cardinality(S) \in Nat /\ \A s \in SUBSET S : Cardinality(s) <= Cardinality(S)
  BY FS_Subset, FS_CardinalityType
<1>9. Cardinality(S) \in U
  <2> HIDE DEF U
  <2> QED BY <1>6, <1>7, <1>8, AllNaturals
<1>10. \A s \in SUBSET S : k[s] \in Int
  BY <1>8, <1>9
<1>11. \A s \in SUBSET S : Sums(f, S)[s] \in Int
  BY <1>1, <1>10
<1> QED BY <1>2, <1>11

(* The type of a sum, and the sums of nothing and of one term.             *)

LEMMA SumType ==
  ASSUME NEW S, IsFiniteSet(S), NEW f, \A x \in S : f[x] \in Int
  PROVE  SumFunctionOnSet(f, S) \in Int
BY SumIsSums, SumsType

LEMMA SumOfNone ==
  ASSUME NEW f
  PROVE  SumFunctionOnSet(f, {}) = 0
<1>1. Sums(f, {})[{}] = SumStep(f, Sums(f, {}), {})
  BY FS_EmptySet, SumsDef
<1> QED BY <1>1, StepOfEmpty, SumIsSums

LEMMA SumOfOne ==
  ASSUME NEW f, NEW e, f[e] \in Int
  PROVE  SumFunctionOnSet(f, {e}) = f[e]
<1>1. IsFiniteSet({e}) /\ {e} \in SUBSET {e} /\ {} \in SUBSET {e} /\ {e} \ {e} = {}
  BY FS_Singleton
<1>2. Chosen({e}) = e
  BY DEF Chosen
<1>3. \A x \in {e} : f[x] \in Int
  OBVIOUS
<1>4. /\ Sums(f, {e})[{e}] = SumStep(f, Sums(f, {e}), {e})
      /\ Sums(f, {e})[{}] = SumStep(f, Sums(f, {e}), {})
  BY <1>1, <1>3, SumsDef
<1>5. Sums(f, {e})[{}] = 0
  BY <1>4, StepOfEmpty
<1>6. Sums(f, {e})[{e}] = f[e] + Sums(f, {e})[{}]
  BY <1>1, <1>2, <1>4 DEF SumStep
<1> QED BY <1>5, <1>6, SumIsSums

LEMMA MaxIsIn ==
  ASSUME NEW n \in Nat, NEW S \in SUBSET (1..n), S # {}
  PROVE  Max(S) \in S
<1> DEFINE T == {m \in Nat : \A U \in SUBSET (1..m) : U # {} => \E x \in U : \A y \in U : x >= y}
<1>1. 0 \in T
  <2>1. 1..0 = {}
    OBVIOUS
  <2> QED BY <2>1
<1>2. ASSUME NEW m \in Nat, m \in T PROVE m + 1 \in T
  <2>1. ASSUME NEW U \in SUBSET (1..(m + 1)), U # {}
        PROVE  \E x \in U : \A y \in U : x >= y
    <3>1. CASE m + 1 \in U
      BY <3>1
    <3>2. CASE m + 1 \notin U
      <4>1. U \in SUBSET (1..m)
        BY <3>2
      <4> QED BY <1>2, <2>1, <4>1
    <3> QED BY <3>1, <3>2
  <2> QED BY <2>1
<1>3. n \in T
  <2> HIDE DEF T
  <2> QED BY <1>1, <1>2, AllNaturals
<1>4. \E x \in S : \A y \in S : x >= y
  BY <1>3
<1> QED BY <1>4 DEF Max

LEMMA OrdersAreFinite ==
  ASSUME NEW S \in SUBSET Orders
  PROVE  IsFiniteSet(S)
<1>1. 1 \in Int /\ NumOrders \in Int
  BY OrdersAssumption
<1>2. IsFiniteSet(1..NumOrders)
  BY <1>1, FS_Interval
<1> QED BY <1>2, FS_Subset DEF Orders

LEMMA SumOfOrders ==
  ASSUME NEW f \in [Orders -> Int], NEW S \in SUBSET Orders
  PROVE  SumFunctionOnSet(f, S) \in Int
<1>1. IsFiniteSet(S)
  BY OrdersAreFinite
<1>2. \A x \in S : f[x] \in Int
  OBVIOUS
<1> QED BY <1>1, <1>2, SumType

-------------------------------------------------------------------------------
(* Rounded amounts.                                                        *)

LEMMA ScaleIs == Scale \in Nat \ {0}
BY LedgerScales DEF Scale

LEMMA QuotientIs ==
  ASSUME NEW n \in Nat, NEW d \in Nat \ {0}
  PROVE  n \div d \in Nat /\ (n \div d) * d <= n
OBVIOUS

LEMMA ProductGrows ==
  ASSUME NEW q \in Nat, NEW n \in Nat, q <= n, NEW x \in Nat
  PROVE  q * x \in Nat /\ n * x \in Nat /\ q * x <= n * x
<1>1. PICK e \in Nat : n = q + e
  <2>1. n - q \in Nat /\ n = q + (n - q)
    OBVIOUS
  <2> QED BY <2>1
<1>2. q * x \in Nat /\ e * x \in Nat /\ (q + e) * x = q * x + e * x
  OBVIOUS
<1> QED BY <1>1, <1>2

(* Rounding does not pass the next whole unit.                             *)
LEMMA UpWithin ==
  ASSUME NEW n \in Nat, NEW d \in Nat \ {0}, NEW a \in Nat, n <= a * d
  PROVE  HalfUpNat(n, d) \in Nat /\ HalfUpNat(n, d) <= a
<1>1. PICK up : up = HalfUpNat(n, d)
  OBVIOUS
<1>2. 2 * n + d \in Nat /\ 2 * d \in Nat \ {0} /\ a * d \in Nat
  OBVIOUS
<1>3. up \in Nat /\ up * (2 * d) <= 2 * n + d
  BY <1>1, <1>2, QuotientIs DEF HalfUpNat
<1>4. up <= a
  <2>1. up * (2 * d) = 2 * (up * d) /\ up * d \in Nat
    BY <1>3
  <2>2. 2 * (up * d) <= 2 * (a * d) + d
    BY <1>2, <1>3, <2>1
  <2>3. CASE up >= a + 1
    <3>1. PICK e \in Nat : up = a + 1 + e
      <4>1. up - a - 1 \in Nat /\ up = a + 1 + (up - a - 1)
        BY <1>3, <2>3
      <4> QED BY <4>1
    <3>2. (a + 1 + e) * d = a * d + d + e * d /\ e * d \in Nat
      OBVIOUS
    <3> QED BY <1>2, <2>2, <3>1, <3>2
  <2> QED BY <1>3, <2>3
<1> QED BY <1>1, <1>3, <1>4

LEMMA EvenWithin ==
  ASSUME NEW n \in Nat, NEW d \in Nat \ {0}, NEW a \in Nat, n <= a * d
  PROVE  HalfEven(n, d) \in Nat /\ HalfEven(n, d) <= a
<1>1. PICK up : up = HalfUpNat(n, d)
  OBVIOUS
<1>2. up \in Nat /\ up <= a
  BY <1>1, UpWithin
<1>3. HalfEven(n, d) = up \/ (up % 2 = 1 /\ HalfEven(n, d) = up - 1)
  BY <1>1 DEF HalfEven
<1>4. up % 2 = 1 => up # 0
  BY <1>2
<1> QED BY <1>2, <1>3, <1>4

LEMMA AmountWithin ==
  ASSUME NEW q \in Nat, NEW x \in Nat, NEW a \in Nat, q * x <= a * Scale
  PROVE  Amount(q, x) \in Nat /\ Amount(q, x) <= a
<1>1. PICK n \in Nat : n = q * x
  <2>1. q * x \in Nat
    OBVIOUS
  <2> QED BY <2>1
<1>2. Amount(q, x) = HalfUpNat(n, Scale)
  BY <1>1 DEF Amount, HalfUp
<1> QED BY <1>1, <1>2, ScaleIs, UpWithin

LEMMA AmountType ==
  ASSUME NEW q \in Nat, NEW x \in Nat
  PROVE  Amount(q, x) \in Nat
<1>1. PICK n \in Nat : n = q * x
  <2>1. q * x \in Nat
    OBVIOUS
  <2> QED BY <2>1
<1>2. PICK d \in Nat \ {0} : d = Scale
  BY ScaleIs
<1>3. n <= n * d
  <2>1. 1 * n <= d * n
    BY ProductGrows
  <2>2. 1 * n = n /\ d * n = n * d
    OBVIOUS
  <2> QED BY <2>1, <2>2
<1> QED BY <1>1, <1>2, <1>3, AmountWithin

-------------------------------------------------------------------------------
(* What a proposal is given costs, at the price it refers to, no more than *)
(* an amount that fits the budget and its market's limit.                  *)

LEMMA QuantityFits ==
  ASSUME NEW share \in Share, NEW exposure \in [Markets -> Int], NEW p \in Proposal,
         FinalQuantity(share, exposure, p) # 0
  PROVE  /\ ~PassedOver(share, exposure, p)
         /\ share.budget \in Nat /\ MarketCap(share, exposure, p) \in Int
         /\ FinalQuantity(share, exposure, p) \in Nat
         /\ \E a \in Nat : /\ a <= share.budget /\ a <= MarketCap(share, exposure, p)
                         /\ FinalQuantity(share, exposure, p) * p.price <= a * Scale
<1>1. ~PassedOver(share, exposure, p)
  BY DEF FinalQuantity
<1>2. PICK a : a = Allocatable(share, exposure, p)
  OBVIOUS
<1>3. PICK x : x = p.price
  OBVIOUS
<1>4. x \in Nat \ {0} /\ p.requested \in Nat /\ p.market \in Markets
  BY <1>3 DEF Proposal
<1>5. /\ MarketCap(share, exposure, p) \in Int /\ MarketCap(share, exposure, p) > 0
      /\ share.budget \in Nat
  <2>1. exposure[p.market] \in Int /\ share.market[p.market] \in Nat /\ share.budget \in Nat
    BY <1>4 DEF Share
  <2>2. MarketCap(share, exposure, p) \in Int
    BY <2>1, AllocationAssumption DEF MarketCap
  <2> QED BY <1>1, <2>1, <2>2 DEF PassedOver
<1>6. p.requested * x \in Nat
  BY <1>4
<1>7. HalfEven(p.requested * x, Scale) \in Nat
  <2>1. PICK n \in Nat : n = p.requested * x
    BY <1>6
  <2>2. PICK s \in Nat \ {0} : s = Scale
    BY ScaleIs
  <2>3. n <= n * s
    <3>1. 1 * n <= s * n
      BY ProductGrows
    <3>2. 1 * n = n /\ s * n = n * s
      OBVIOUS
    <3> QED BY <3>1, <3>2
  <2> QED BY <2>1, <2>2, <2>3, EvenWithin
<1>8. a \in Nat /\ a <= share.budget /\ a <= MarketCap(share, exposure, p)
  BY <1>2, <1>3, <1>5, <1>7 DEF Allocatable, Lesser
<1>9. PICK s \in Nat \ {0} : s = Scale
  BY ScaleIs
<1>10. PICK n \in Nat : n = a * s
  <2>1. a * s \in Nat
    BY <1>8
  <2> QED BY <2>1
<1>11. PICK q : q = n \div x
  OBVIOUS
<1>12. q \in Nat /\ q * x <= n /\ q * x \in Nat
  <2>1. q \in Nat /\ q * x <= n
    BY <1>4, <1>10, <1>11, QuotientIs
  <2>2. q * x \in Nat
    BY <1>4, <2>1
  <2> QED BY <2>1, <2>2
<1>13. FinalQuantity(share, exposure, p) = q
  BY <1>1, <1>2, <1>3, <1>9, <1>10, <1>11 DEF FinalQuantity
<1> QED BY <1>1, <1>3, <1>5, <1>8, <1>9, <1>10, <1>12, <1>13

(* A supervisor's order is for contracts that there is cash for above the  *)
(* reserve, at the price they were sized at.                               *)
LEMMA SizedFits ==
  ASSUME cash \in Int, NEW requested \in Nat, NEW ref \in Nat \ {0}, NEW worth \in Nat,
         Sized(requested, ref, worth) > 0
  PROVE  /\ Sized(requested, ref, worth) \in Nat
         /\ Sized(requested, ref, worth) * ref <= (cash - ReserveCash) * Scale
<1>1. PICK share : share = FirstShare(cash)
  OBVIOUS
<1>2. PICK exposure : exposure = [k \in Markets |-> worth]
  OBVIOUS
<1>3. PICK p : p = [market |-> Market, requested |-> requested, price |-> ref,
                    policy_decision |-> "AUTO_APPROVE"]
  OBVIOUS
<1>4. PICK n : n = FinalQuantity(share, exposure, p)
  OBVIOUS
<1>5. Sized(requested, ref, worth) = n
  BY <1>1, <1>2, <1>3, <1>4 DEF Sized
<1>6. Available(cash) \in Nat
  BY AllocationAssumption DEF Available
<1>7. share \in Share /\ share.budget \in Nat /\ share.budget <= Available(cash)
  BY <1>1, <1>6, AllocationAssumption DEF FirstShare, Share, Lesser
<1>8. exposure \in [Markets -> Int] /\ p \in Proposal /\ p.price = ref
  BY <1>2, <1>3, OrdersAssumption DEF Proposal
<1>9. n # 0
  BY <1>5
<1>10. n \in Nat /\ ~PassedOver(share, exposure, p)
  BY <1>4, <1>7, <1>8, <1>9, QuantityFits
<1>11. PICK a \in Nat : a <= share.budget /\ n * p.price <= a * Scale
  BY <1>4, <1>7, <1>8, <1>9, QuantityFits
<1>12. share.budget # 0
  BY <1>10 DEF PassedOver
<1>13. Available(cash) = cash - ReserveCash
  BY <1>6, <1>7, <1>12 DEF Available
<1>14. a * Scale <= Available(cash) * Scale /\ a * Scale \in Nat
       /\ Available(cash) * Scale \in Nat
  BY <1>6, <1>7, <1>11, ScaleIs, ProductGrows
<1>15. n * ref \in Nat
  BY <1>10
<1> QED BY <1>5, <1>8, <1>10, <1>11, <1>13, <1>14, <1>15

-------------------------------------------------------------------------------
(* The inductive invariant.                                                *)

(* An order as it should be, when n contracts of it are filled: they and   *)
(* the rest add up, and a closed one is closed for a reason that lasts.    *)
Whole(o, row, n) ==
  /\ row.remaining + n = row.requested
  /\ row.status = "FILLED" => row.remaining = 0
  /\ row.status = "OPEN" => n = 0 /\ row.remaining > 0
  /\ row.status = "PARTIALLY_FILLED" => n > 0 /\ row.remaining > 0
  /\ row.status = "CANCELLED" => Cancels(o, row)
  /\ row.status = "EXPIRED" => Expires(o, row)
RowsWhole == \A o \in Orders \ crossed : Whole(o, order[o], filled[o])

(* Of an order that is not there nothing is filled.                        *)
Unborn == \A o \in Orders : order[o].status = "none" => order[o] = NoOrder /\ filled[o] = 0

(* What a run at work has loaded is the row, or the order of its own       *)
(* caller, unless another run has saved the row since; its cash is the     *)
(* account's, unless another run has traded since.  What its caller was    *)
(* allotted costs no more, at the reference price, than there is above the *)
(* reserve, unless another run has traded since the allocation.            *)
Affordable(r, q, money) ==
  ~mem[r].outdated => q * mem[r].ref <= (money - ReserveCash) * Scale
OwnFits(r, o) ==
  /\ o \in mem[r].loaded /\ order[o].status = "none"
  /\ \E q \in 1..MaxQuantity :
       mem[r].list[o] = NewOrder("BUY", q) /\ Affordable(r, q, mem[r].cash)
Remembers(r) ==
  /\ \A o \in mem[r].loaded : mem[r].list[o].status # "none" /\ mem[r].list[o].wait_cycles < MaxWaits
  /\ \A o \in mem[r].loaded \ mem[r].own :
       /\ order[o].status # "none"
       /\ o \notin mem[r].stale => mem[r].list[o] = order[o]
  /\ \A o \in mem[r].own : OwnFits(r, o)
  /\ ~mem[r].behind => mem[r].cash = cash
Allotted(r) ==
  /\ mem[r].own = {} /\ mem[r].stale = {} /\ ~mem[r].behind
  /\ Affordable(r, mem[r].allotted, cash)

MemoryInv ==
  \A r \in Runs :
    /\ pc[r] = "idle" => mem[r] = Nothing
    /\ pc[r] = "allotted" => Allotted(r)
    /\ pc[r] = "loaded" => Remembers(r)
OwnApart == \A q, r \in Runs : q # r => mem[q].own \cap mem[r].own = {}

Inv ==
  /\ TypeOK /\ RowsWhole /\ Unborn
  /\ MemoryInv /\ OwnApart /\ CashExactUnlessLost

LEMMA NoOrderType == NoOrder \in PaperOrder
BY OrdersAssumption DEF NoOrder, PaperOrder, Statuses, OpenStatuses

LEMMA NothingType == Nothing \in Memory
BY NoOrderType DEF Nothing, Memory

LEMMA NewOrderType ==
  ASSUME NEW side \in {"BUY", "SELL"}, NEW q \in 1..MaxQuantity
  PROVE  NewOrder(side, q) \in PaperOrder
BY OrdersAssumption DEF NewOrder, PaperOrder, Statuses, OpenStatuses

LEMMA OneChanged ==
  ASSUME NEW S, NEW T, NEW f \in [S -> T], NEW s \in S, NEW e \in T
  PROVE  /\ [f EXCEPT ![s] = e] \in [S -> T]
         /\ [f EXCEPT ![s] = e][s] = e
         /\ \A r \in S \ {s} : [f EXCEPT ![s] = e][r] = f[r]
OBVIOUS

LEMMA InvInit == Init => Inv
<1> SUFFICES ASSUME Init PROVE Inv
  OBVIOUS
<1>1. TypeOK
  <2>1. order \in [Orders -> PaperOrder] /\ mem \in [Runs -> Memory]
    BY NoOrderType, NothingType DEF Init
  <2>2. pc \in [Runs -> {"idle", "allotted", "loaded"}] /\ filled \in [Orders -> Nat]
    BY DEF Init
  <2>3. cash \in Int /\ held \in Int /\ flow \in Int
    BY OrdersAssumption DEF Init
  <2>4. lost \in BOOLEAN
    BY DEF Init
  <2> QED BY <2>1, <2>2, <2>3, <2>4 DEF Init, TypeOK
<1>2. RowsWhole /\ Unborn
  BY DEF Init, RowsWhole, Unborn, Whole, NoOrder
<1>3. MemoryInv /\ OwnApart
  BY DEF Init, MemoryInv, OwnApart, Nothing
<1>4. CashExactUnlessLost
  BY OrdersAssumption DEF Init, CashExactUnlessLost
<1> QED BY <1>1, <1>2, <1>3, <1>4 DEF Inv

LEMMA CreateOrderInv ==
  ASSUME Inv, NEW o \in Orders, NEW side \in {"BUY", "SELL"}, CreateOrder(o, side)
  PROVE  Inv'
<1> USE DEF Inv
<1>1. Quantity[o] \in 1..MaxQuantity
  BY OrdersAssumption
<1>2. /\ order' \in [Orders -> PaperOrder] /\ order'[o] = NewOrder(side, Quantity[o])
      /\ \A p \in Orders \ {o} : order'[p] = order[p]
  <2>1. order' = [order EXCEPT ![o] = NewOrder(side, Quantity[o])]
    BY DEF CreateOrder
  <2> QED BY <1>1, <2>1, NewOrderType, OneChanged DEF TypeOK
<1>3. order[o].status = "none" /\ \A r \in Runs : o \notin mem[r].own
  BY DEF CreateOrder, NextOrder, Used
<1>4. TypeOK'
  BY <1>2 DEF CreateOrder, TypeOK
<1>5. RowsWhole'
  <2>1. filled[o] = 0 /\ Quantity[o] > 0 /\ Quantity[o] \in Nat
    BY <1>1, <1>3 DEF Unborn
  <2>2. Whole(o, NewOrder(side, Quantity[o]), 0)
    BY <2>1 DEF Whole, NewOrder
  <2>3. Whole(o, order[o], filled[o])'
    BY <1>2, <2>1, <2>2 DEF CreateOrder, Whole, Cancels, Expires
  <2>4. ASSUME NEW p \in Orders \ crossed, p # o PROVE Whole(p, order[p], filled[p])'
    <3>1. order'[p] = order[p] /\ filled' = filled /\ due' = due
      BY <1>2, <2>4 DEF CreateOrder
    <3> QED BY <2>4, <3>1 DEF RowsWhole, Whole, Cancels, Expires
  <2> QED BY <2>3, <2>4 DEF CreateOrder, RowsWhole
<1>6. Unborn'
  BY <1>2 DEF CreateOrder, Unborn, NewOrder
<1>7. MemoryInv'
  <2>1. mem' = mem /\ pc' = pc /\ cash' = cash
    BY DEF CreateOrder
  <2>2. ASSUME NEW r \in Runs, pc[r] = "loaded" PROVE Remembers(r)'
    <3>1. Remembers(r)
      BY <2>2 DEF MemoryInv
    <3>2. o \notin mem[r].loaded
      BY <1>3, <3>1 DEF Remembers, TypeOK, Memory
    <3>3. mem[r].loaded \subseteq Orders /\ mem[r].own \subseteq Orders
      BY DEF TypeOK, Memory
    <3> QED BY <1>2, <1>3, <2>1, <3>1, <3>2, <3>3 DEF Remembers, OwnFits, Affordable
  <2> QED BY <2>1, <2>2 DEF MemoryInv, Allotted, Affordable
<1>8. OwnApart' /\ CashExactUnlessLost'
  BY DEF CreateOrder, OwnApart, CashExactUnlessLost
<1> QED BY <1>4, <1>5, <1>6, <1>7, <1>8

LEMMA TimePassesInv ==
  ASSUME Inv, NEW o \in Orders, TimePasses(o)
  PROVE  Inv'
<1> USE DEF Inv
<1>1. TypeOK'
  BY DEF TimePasses, TypeOK
<1>2. RowsWhole'
  BY DEF TimePasses, RowsWhole, Whole, Cancels, Expires
<1>3. Unborn' /\ OwnApart' /\ CashExactUnlessLost'
  BY DEF TimePasses, Unborn, OwnApart, CashExactUnlessLost
<1>4. MemoryInv'
  BY DEF TimePasses, MemoryInv, Allotted, Remembers, OwnFits, Affordable
<1> QED BY <1>1, <1>2, <1>3, <1>4

(* A run loads: the other runs and the rows are as they were.              *)
Loadable(r, rows, loaded, own) ==
  /\ \A o \in loaded : rows[o].status # "none"
  /\ \A o \in loaded \ own : order[o].status # "none" /\ rows[o] = order[o]
  /\ \A o \in own :
       /\ o \in loaded /\ order[o].status = "none" /\ \A q \in Runs : o \notin mem[q].own
       /\ \E q \in 1..MaxQuantity : rows[o] = NewOrder("BUY", q) /\ Affordable(r, q, cash)

LEMMA LoadInv ==
  ASSUME Inv, NEW r \in Runs, pc[r] # "loaded", NEW rows \in [Orders -> PaperOrder],
         NEW loaded \in SUBSET Orders, NEW own \in SUBSET Orders,
         Load(r, rows, loaded, own), Loadable(r, rows, loaded, own)
  PROVE  Inv'
<1> USE DEF Inv
<1> DEFINE m == [mem[r] EXCEPT !.list = rows, !.loaded = loaded, !.own = own,
                               !.cash = cash, !.allotted = 0]
<1>1. UNCHANGED <<rowVars, crossed, lost>> /\ pc' = [pc EXCEPT ![r] = "loaded"]
      /\ mem' = [mem EXCEPT ![r] = m]
      /\ \A o \in loaded : rows[o].wait_cycles < MaxWaits
  BY DEF Load
<1>2. mem[r] \in Memory /\ mem[r].stale = {} /\ mem[r].behind = FALSE
  <2>1. pc[r] \in {"idle", "allotted"} /\ mem[r] \in Memory
    BY DEF TypeOK
  <2>2. CASE pc[r] = "idle"
    BY <2>1, <2>2 DEF MemoryInv, Nothing
  <2>3. CASE pc[r] = "allotted"
    <3>1. Allotted(r)
      BY <2>3 DEF MemoryInv
    <3>2. mem[r].behind \in BOOLEAN
      BY <2>1 DEF Memory
    <3> QED BY <2>1, <3>1, <3>2 DEF Allotted
  <2> QED BY <2>1, <2>2, <2>3
<1>3. /\ m.list = rows /\ m.loaded = loaded /\ m.own = own /\ m.cash = cash /\ m.stale = {}
      /\ m.behind = FALSE /\ m.outdated = mem[r].outdated /\ m.ref = mem[r].ref
      /\ m \in Memory
  BY <1>2 DEF TypeOK, Memory
<1> HIDE DEF m
<1>4. mem' \in [Runs -> Memory] /\ mem'[r] = m /\ \A q \in Runs \ {r} : mem'[q] = mem[q]
  BY <1>1, <1>3, OneChanged DEF TypeOK
<1>5. pc' \in [Runs -> {"idle", "allotted", "loaded"}] /\ pc'[r] = "loaded"
      /\ \A q \in Runs \ {r} : pc'[q] = pc[q]
  BY <1>1, OneChanged DEF TypeOK
<1>6. TypeOK'
  BY <1>1, <1>4, <1>5 DEF TypeOK, rowVars
<1>7. RowsWhole' /\ Unborn' /\ CashExactUnlessLost'
  BY <1>1 DEF rowVars, RowsWhole, Whole, Cancels, Expires, Unborn, CashExactUnlessLost
<1>8. Remembers(r)'
  <2>1. ASSUME NEW o \in own PROVE OwnFits(r, o)'
    <3>1. PICK q \in 1..MaxQuantity : rows[o] = NewOrder("BUY", q) /\ Affordable(r, q, cash)
      BY DEF Loadable
    <3>2. mem'[r].list[o] = NewOrder("BUY", q) /\ Affordable(r, q, mem[r].cash)'
      BY <1>3, <1>4, <3>1 DEF Affordable
    <3>3. o \in mem'[r].loaded /\ order'[o].status = "none"
      BY <1>1, <1>3, <1>4 DEF rowVars, Loadable
    <3> QED BY <3>2, <3>3 DEF OwnFits
  <2> QED BY <1>1, <1>3, <1>4, <2>1 DEF rowVars, Loadable, Remembers
<1>9. MemoryInv'
  BY <1>1, <1>4, <1>5, <1>8 DEF rowVars, MemoryInv, Allotted, Remembers, OwnFits, Affordable
<1>10. OwnApart'
  BY <1>3, <1>4 DEF Loadable, OwnApart
<1> QED BY <1>6, <1>7, <1>9, <1>10

LEMMA BeginRunInv ==
  ASSUME Inv, NEW r \in Runs, NEW open_only \in BOOLEAN, BeginRun(r, open_only)
  PROVE  Inv'
<1>1. order \in [Orders -> PaperOrder] /\ ToRun(open_only) \in SUBSET Orders
  BY DEF Inv, TypeOK, ToRun
<1>2. \A o \in ToRun(open_only) : order[o].status # "none"
  BY DEF ToRun, Open, OpenStatuses
<1>3. Loadable(r, order, ToRun(open_only), {})
  BY <1>2 DEF Loadable
<1> QED BY <1>1, <1>3, LoadInv DEF BeginRun

LEMMA SuperviseInv ==
  ASSUME Inv, NEW r \in Runs, NEW o \in Orders, NEW n \in 1..MaxQuantity, Supervise(r, o, n)
  PROVE  Inv'
<1>1. Affordable(r, n, cash)
  <2>1. pc[r] = "allotted" /\ n <= mem[r].allotted
    BY DEF Supervise
  <2>2. Affordable(r, mem[r].allotted, cash)
    BY <2>1 DEF Inv, MemoryInv, Allotted
  <2>3. mem[r].allotted \in Nat /\ mem[r].ref \in Nat /\ n \in Nat
    BY OrdersAssumption DEF Inv, TypeOK, Memory
  <2>4. n * mem[r].ref <= mem[r].allotted * mem[r].ref
        /\ n * mem[r].ref \in Nat /\ mem[r].allotted * mem[r].ref \in Nat
    BY <2>1, <2>3, ProductGrows
  <2>5. PICK left \in Int : left = (cash - ReserveCash) * Scale
    <3>1. cash \in Int /\ ReserveCash \in Nat /\ Scale \in Nat
      BY ScaleIs, AllocationAssumption DEF Inv, TypeOK
    <3>2. (cash - ReserveCash) * Scale \in Int
      BY <3>1
    <3> QED BY <3>2
  <2> QED BY <2>2, <2>4, <2>5 DEF Affordable
<1>2. PICK rows : rows = [order EXCEPT ![o] = NewOrder("BUY", n)]
  OBVIOUS
<1>3. /\ rows \in [Orders -> PaperOrder] /\ rows[o] = NewOrder("BUY", n)
      /\ \A p \in Orders \ {o} : rows[p] = order[p]
  BY <1>2, NewOrderType, OneChanged DEF Inv, TypeOK
<1>4. ToRun(TRUE) \cup {o} \in SUBSET Orders
      /\ \A p \in ToRun(TRUE) : order[p].status # "none"
  BY DEF ToRun, Open, OpenStatuses
<1>5. order[o].status = "none" /\ \A q \in Runs : o \notin mem[q].own
  BY DEF Supervise, NextOrder, Used
<1>6. PICK loaded : loaded = ToRun(TRUE) \cup {o}
  OBVIOUS
<1>7. PICK own : own = {o}
  OBVIOUS
<1>8. /\ Load(r, rows, loaded, own) /\ loaded \in SUBSET Orders /\ own \in SUBSET Orders
      /\ pc[r] # "loaded"
  BY <1>2, <1>4, <1>6, <1>7 DEF Supervise
<1>9. \A p \in loaded : rows[p].status # "none"
  <2>1. rows[o].status # "none"
    BY <1>3 DEF NewOrder
  <2>2. ASSUME NEW p \in loaded, p # o PROVE rows[p].status # "none"
    <3>1. p \in ToRun(TRUE) /\ p \in Orders
      BY <1>6, <1>8, <2>2
    <3> QED BY <1>3, <1>4, <2>2, <3>1
  <2> QED BY <2>1, <2>2
<1>10. \A p \in loaded \ own : order[p].status # "none" /\ rows[p] = order[p]
  BY <1>3, <1>4, <1>6, <1>7
<1>11. \A p \in own :
         /\ p \in loaded /\ order[p].status = "none" /\ \A q \in Runs : p \notin mem[q].own
         /\ \E q \in 1..MaxQuantity : rows[p] = NewOrder("BUY", q) /\ Affordable(r, q, cash)
  BY <1>1, <1>3, <1>5, <1>6, <1>7
<1>12. Loadable(r, rows, loaded, own)
  BY <1>9, <1>10, <1>11 DEF Loadable
<1> QED BY <1>3, <1>8, <1>12, LoadInv

LEMMA AllocateInv ==
  ASSUME Inv, NEW r \in Runs, NEW requested \in Nat, NEW ref \in Nat \ {0}, NEW worth \in Nat,
         Allocate(r, requested, ref, worth)
  PROVE  Inv'
<1> USE DEF Inv
<1>1. PICK n : n = Sized(requested, ref, worth)
  OBVIOUS
<1>2. n \in Nat /\ n * ref <= (cash - ReserveCash) * Scale
  BY <1>1, SizedFits DEF Allocate, TypeOK
<1>3. PICK m : m = [Nothing EXCEPT !.allotted = n, !.ref = ref]
  OBVIOUS
<1>4. UNCHANGED <<rowVars, crossed, lost>> /\ pc' = [pc EXCEPT ![r] = "allotted"]
      /\ mem' = [mem EXCEPT ![r] = m]
  BY <1>1, <1>3 DEF Allocate
<1>5. /\ m \in Memory /\ m.own = {} /\ m.stale = {} /\ m.behind = FALSE
      /\ m.allotted = n /\ m.ref = ref
  <2>1. /\ Nothing.own = {} /\ Nothing.stale = {} /\ Nothing.behind = FALSE
    BY DEF Nothing
  <2>2. n \in Nat /\ ref \in Nat /\ Nothing \in Memory
    BY <1>2, NothingType
  <2> QED BY <1>3, <2>1, <2>2 DEF Memory
<1>6. mem' \in [Runs -> Memory] /\ mem'[r] = m /\ \A q \in Runs \ {r} : mem'[q] = mem[q]
  BY <1>4, <1>5, OneChanged DEF TypeOK
<1>7. pc' \in [Runs -> {"idle", "allotted", "loaded"}] /\ pc'[r] = "allotted"
      /\ \A q \in Runs \ {r} : pc'[q] = pc[q]
  BY <1>4, OneChanged DEF TypeOK
<1>8. TypeOK'
  BY <1>4, <1>6, <1>7 DEF TypeOK, rowVars
<1>9. RowsWhole' /\ Unborn' /\ CashExactUnlessLost'
  BY <1>4 DEF rowVars, RowsWhole, Whole, Cancels, Expires, Unborn, CashExactUnlessLost
<1>10. Allotted(r)'
  BY <1>2, <1>4, <1>5, <1>6 DEF rowVars, Allotted, Affordable
<1>11. MemoryInv'
  BY <1>4, <1>6, <1>7, <1>10 DEF rowVars, MemoryInv, Allotted, Remembers, OwnFits, Affordable
<1>12. OwnApart'
  BY <1>5, <1>6 DEF OwnApart
<1> QED BY <1>8, <1>9, <1>11, <1>12

(* A run ends without a trace.                                             *)
LEMMA DropInv ==
  ASSUME Inv, NEW r \in Runs, UNCHANGED <<rowVars, crossed, lost>>,
         pc' = [pc EXCEPT ![r] = "idle"], mem' = [mem EXCEPT ![r] = Nothing]
  PROVE  Inv'
<1> USE DEF Inv
<1>1. mem' \in [Runs -> Memory] /\ mem'[r] = Nothing /\ \A q \in Runs \ {r} : mem'[q] = mem[q]
  BY NothingType, OneChanged DEF TypeOK
<1>2. pc' \in [Runs -> {"idle", "allotted", "loaded"}] /\ pc'[r] = "idle"
      /\ \A q \in Runs \ {r} : pc'[q] = pc[q]
  BY OneChanged DEF TypeOK
<1>3. TypeOK'
  BY <1>1, <1>2 DEF TypeOK, rowVars
<1>4. RowsWhole' /\ Unborn' /\ CashExactUnlessLost'
  BY DEF rowVars, RowsWhole, Whole, Cancels, Expires, Unborn, CashExactUnlessLost
<1>5. MemoryInv'
  BY <1>1, <1>2 DEF rowVars, MemoryInv, Allotted, Remembers, OwnFits, Affordable
<1>6. OwnApart'
  BY <1>1 DEF OwnApart, Nothing
<1> QED BY <1>3, <1>4, <1>5, <1>6

-------------------------------------------------------------------------------
(* What a run saves of an order: an order as it should be stays one, and a *)
(* closed one stays closed.                                                *)

LEMMA WaitedIs ==
  ASSUME NEW row \in PaperOrder, row.wait_cycles < MaxWaits
  PROVE  /\ Waited(row) \in PaperOrder
         /\ Waited(row).wait_cycles = row.wait_cycles + 1
         /\ Waited(row).status = row.status /\ Waited(row).side = row.side
         /\ Waited(row).requested = row.requested /\ Waited(row).remaining = row.remaining
<1>1. MaxWaits \in Nat /\ row.wait_cycles \in 0..MaxWaits
  BY OrdersAssumption DEF PaperOrder
<1>2. row.wait_cycles + 1 \in 0..MaxWaits
  BY <1>1
<1> QED BY <1>2 DEF Waited, PaperOrder

(* An order that is cancelled or has expired does so again.                *)
LEMMA WaitedAgain ==
  ASSUME NEW o \in Orders, NEW row \in PaperOrder, row.wait_cycles < MaxWaits
  PROVE  /\ Cancels(o, row) => Cancels(o, Waited(row))
         /\ Expires(o, row) => Expires(o, Waited(row))
<1>1. row.wait_cycles \in Nat
  BY OrdersAssumption DEF PaperOrder
<1>2. Policy[o].cancel_after \in Nat /\ Policy[o].max_wait \in Nat
  BY OrdersAssumption
<1> QED BY <1>1, <1>2, WaitedIs DEF Cancels, Expires

LEMMA Reclosed ==
  ASSUME NEW o \in Orders, NEW row \in PaperOrder, NEW status \in Statuses
  PROVE  LET new == [row EXCEPT !.status = status] IN
         /\ new \in PaperOrder /\ new.status = status
         /\ new.remaining = row.remaining /\ new.requested = row.requested
         /\ new.wait_cycles = row.wait_cycles
         /\ Cancels(o, row) => Cancels(o, new)
         /\ Expires(o, row) => Expires(o, new)
BY DEF PaperOrder, Cancels, Expires

LEMMA RestIs ==
  ASSUME NEW row \in PaperOrder, NEW q \in Nat, 0 < q, q <= row.remaining
  PROVE  /\ Rest(row, q) \in PaperOrder
         /\ Rest(row, q).status = IF q = row.remaining THEN "FILLED" ELSE "PARTIALLY_FILLED"
         /\ Rest(row, q).remaining = row.remaining - q
         /\ Rest(row, q).requested = row.requested
<1>1. row.remaining - q \in 0..MaxQuantity
  BY OrdersAssumption DEF PaperOrder
<1>2. PICK st : st = IF q = row.remaining THEN "FILLED" ELSE "PARTIALLY_FILLED"
  OBVIOUS
<1>3. st \in Statuses
  BY <1>2 DEF Statuses, OpenStatuses
<1>4. Rest(row, q) = [row EXCEPT !.remaining = row.remaining - q, !.status = st]
  BY <1>2 DEF Rest, PaperOrder
<1> QED BY <1>1, <1>2, <1>3, <1>4 DEF PaperOrder

(* The rows a run may have loaded, and what it may fill of them.           *)
Fillable(r, o, q) ==
  /\ mem[r].list[o] \in PaperOrder /\ mem[r].list[o].wait_cycles < MaxWaits
  /\ mem[r].list[o].status # "none" /\ o \in mem[r].loaded /\ q \in 0..MaxQuantity
  /\ q <= IF o \in Tried(r) THEN mem[r].list[o].remaining ELSE 0

LEMMA SavedCases ==
  ASSUME NEW r \in Runs, NEW o \in Orders, NEW q, Fillable(r, o, q)
  PROVE  \/ /\ q = 0 /\ Cancels(o, Waited(mem[r].list[o]))
            /\ Saved(r, o, q) = [Waited(mem[r].list[o]) EXCEPT !.status = "CANCELLED"]
         \/ /\ q = 0 /\ Expires(o, Waited(mem[r].list[o])) /\ ~Cancels(o, Waited(mem[r].list[o]))
            /\ Saved(r, o, q) = [Waited(mem[r].list[o]) EXCEPT !.status = "EXPIRED"]
         \/ /\ q > 0 /\ q <= mem[r].list[o].remaining
            /\ ~Cancels(o, Waited(mem[r].list[o])) /\ ~Expires(o, Waited(mem[r].list[o]))
            /\ Saved(r, o, q) = Rest(Waited(mem[r].list[o]), q)
         \/ /\ q = 0 /\ ~Cancels(o, Waited(mem[r].list[o])) /\ ~Expires(o, Waited(mem[r].list[o]))
            /\ Saved(r, o, q) = Waited(mem[r].list[o])
<1>1. q \in Nat
  BY OrdersAssumption DEF Fillable
<1>2. o \in Tried(r) <=> ~Cancels(o, Waited(mem[r].list[o])) /\ ~Expires(o, Waited(mem[r].list[o]))
  BY DEF Fillable, Tried
<1>3. CASE Cancels(o, Waited(mem[r].list[o]))
  <2>1. q = 0
    BY <1>1, <1>2, <1>3 DEF Fillable
  <2> QED BY <1>3, <2>1 DEF Saved
<1>4. CASE ~Cancels(o, Waited(mem[r].list[o])) /\ Expires(o, Waited(mem[r].list[o]))
  <2>1. q = 0
    BY <1>1, <1>2, <1>4 DEF Fillable
  <2> QED BY <1>4, <2>1 DEF Saved
<1>5. CASE o \in Tried(r)
  <2>1. q <= mem[r].list[o].remaining
    BY <1>5 DEF Fillable
  <2>2. CASE q > 0
    <3>1. Saved(r, o, q) = Rest(Waited(mem[r].list[o]), q)
      BY <1>2, <1>5, <2>2 DEF Saved
    <3> QED BY <1>2, <1>5, <2>1, <2>2, <3>1
  <2>3. CASE q = 0
    <3>1. Saved(r, o, q) = Waited(mem[r].list[o])
      BY <1>2, <1>5, <2>3 DEF Saved
    <3> QED BY <1>2, <1>5, <2>3, <3>1
  <2> QED BY <1>1, <2>2, <2>3
<1> QED BY <1>2, <1>3, <1>4, <1>5

LEMMA SavedType ==
  ASSUME NEW r \in Runs, NEW o \in Orders, NEW q, Fillable(r, o, q)
  PROVE  Saved(r, o, q) \in PaperOrder /\ Saved(r, o, q).status # "none"
<1> DEFINE row == Waited(mem[r].list[o])
<1>1. row \in PaperOrder /\ row.status # "none" /\ row.remaining = mem[r].list[o].remaining
  BY WaitedIs DEF Fillable
<1>2. "CANCELLED" \in Statuses /\ "EXPIRED" \in Statuses
  BY DEF Statuses
<1> HIDE DEF row
<1>3. CASE Saved(r, o, q) = [row EXCEPT !.status = "CANCELLED"]
  BY <1>1, <1>2, <1>3, Reclosed
<1>4. CASE Saved(r, o, q) = [row EXCEPT !.status = "EXPIRED"]
  BY <1>1, <1>2, <1>4, Reclosed
<1>5. CASE Saved(r, o, q) = Rest(row, q) /\ q > 0 /\ q <= mem[r].list[o].remaining
  <2>1. q \in Nat
    BY OrdersAssumption DEF Fillable
  <2> QED BY <1>1, <1>5, <2>1, RestIs
<1>6. CASE Saved(r, o, q) = row
  BY <1>1, <1>6
<1> QED BY <1>3, <1>4, <1>5, <1>6, SavedCases DEF row

LEMMA SavedWhole ==
  ASSUME NEW r \in Runs, NEW o \in Orders, NEW q, Fillable(r, o, q),
         NEW n \in Nat, Whole(o, mem[r].list[o], n)
  PROVE  /\ Whole(o, Saved(r, o, q), n + q)
         /\ mem[r].list[o].status \notin OpenStatuses =>
              q = 0 /\ Saved(r, o, q).status \notin OpenStatuses
<1> DEFINE old == mem[r].list[o]
           row == Waited(old)
<1>1. /\ row \in PaperOrder /\ row.status = old.status /\ row.remaining = old.remaining
      /\ row.requested = old.requested
  BY WaitedIs DEF Fillable
<1>2. old.status = "CANCELLED" => Cancels(o, row)
  BY WaitedAgain DEF Fillable, Whole
<1>3. old.status = "EXPIRED" => Expires(o, row)
  BY WaitedAgain DEF Fillable, Whole
<1>4. q \in Nat /\ old.remaining \in Nat /\ old.requested \in Nat
  BY OrdersAssumption DEF Fillable, PaperOrder
<1>5. /\ old.status = "FILLED" => old.remaining = 0
      /\ old.status = "OPEN" => n = 0 /\ old.remaining > 0
      /\ old.status = "PARTIALLY_FILLED" => n > 0 /\ old.remaining > 0
      /\ old.remaining + n = old.requested
  BY DEF Whole
<1>6. old.status \in Statuses /\ old.status # "none"
  BY DEF Fillable, PaperOrder
<1>7. "CANCELLED" \in Statuses /\ "EXPIRED" \in Statuses
  BY DEF Statuses
<1> HIDE DEF old, row
<1>8. CASE q = 0 /\ Cancels(o, row) /\ Saved(r, o, q) = [row EXCEPT !.status = "CANCELLED"]
  <2>1. PICK new : new = Saved(r, o, q)
    OBVIOUS
  <2>2. /\ new.status = "CANCELLED" /\ new.remaining = row.remaining
        /\ new.requested = row.requested /\ Cancels(o, new)
    BY <1>1, <1>7, <1>8, <2>1, Reclosed
  <2>3. Whole(o, new, n + q)
    BY <1>1, <1>4, <1>5, <1>8, <2>2 DEF Whole
  <2> QED BY <1>8, <2>1, <2>2, <2>3 DEF OpenStatuses, old
<1>9. CASE q = 0 /\ Expires(o, row) /\ Saved(r, o, q) = [row EXCEPT !.status = "EXPIRED"]
  <2>1. PICK new : new = Saved(r, o, q)
    OBVIOUS
  <2>2. /\ new.status = "EXPIRED" /\ new.remaining = row.remaining
        /\ new.requested = row.requested /\ Expires(o, new)
    BY <1>1, <1>7, <1>9, <2>1, Reclosed
  <2>3. Whole(o, new, n + q)
    BY <1>1, <1>4, <1>5, <1>9, <2>2 DEF Whole
  <2> QED BY <1>9, <2>1, <2>2, <2>3 DEF OpenStatuses, old
<1>10. CASE /\ q > 0 /\ q <= old.remaining /\ ~Cancels(o, row) /\ ~Expires(o, row)
            /\ Saved(r, o, q) = Rest(row, q)
  <2>1. PICK new : new = Saved(r, o, q)
    OBVIOUS
  <2>2. /\ new.status = IF q = row.remaining THEN "FILLED" ELSE "PARTIALLY_FILLED"
        /\ new.remaining = row.remaining - q /\ new.requested = row.requested
    BY <1>1, <1>4, <1>10, <2>1, RestIs
  <2>3. old.status \in OpenStatuses
    BY <1>2, <1>3, <1>4, <1>5, <1>6, <1>10 DEF Statuses
  <2>4. Whole(o, new, n + q)
    BY <1>1, <1>4, <1>5, <1>10, <2>2 DEF Whole
  <2> QED BY <2>1, <2>3, <2>4 DEF old
<1>11. CASE /\ q = 0 /\ ~Cancels(o, row) /\ ~Expires(o, row) /\ Saved(r, o, q) = row
  <2>1. old.status \in OpenStatuses \cup {"FILLED"}
    BY <1>2, <1>3, <1>6, <1>11 DEF Statuses
  <2>2. Whole(o, row, n + q)
    BY <1>1, <1>4, <1>5, <1>11, <2>1 DEF Whole, OpenStatuses
  <2> QED BY <1>1, <1>11, <2>2 DEF old
<1> QED BY <1>8, <1>9, <1>10, <1>11, SavedCases DEF old, row

-------------------------------------------------------------------------------
(* A commit: what it fills, what it leaves alone and what it costs.        *)

Committed(r, fill, price) ==
  pc[r] = "loaded" /\ pc' = [pc EXCEPT ![r] = "idle"] /\ Booked(r, fill, price)

LEMMA CommitIs ==
  ASSUME NEW r \in Runs, CommitRun(r)
  PROVE  \E fill \in Fillings(r) : \E price \in [Fills(fill) -> Prices] : Committed(r, fill, price)
BY DEF CommitRun, Committed

LEMMA CommitFills ==
  ASSUME Inv, NEW r \in Runs, pc[r] = "loaded", NEW fill \in Fillings(r)
  PROVE  /\ Remembers(r) /\ mem[r] \in Memory
         /\ \A o \in Orders : fill[o] \in Nat
         /\ \A o \in mem[r].loaded : o \in Orders /\ Fillable(r, o, fill[o])
         /\ \A o \in Orders \ mem[r].loaded : fill[o] = 0
         /\ Fills(fill) \in SUBSET Orders
<1>1. Remembers(r) /\ mem[r] \in Memory
  BY DEF Inv, MemoryInv, TypeOK
<1>2. mem[r].loaded \in SUBSET Orders /\ mem[r].list \in [Orders -> PaperOrder]
  BY <1>1 DEF Memory
<1>3. \A o \in Orders : fill[o] \in 0..MaxQuantity
  BY DEF Fillings
<1>4. \A o \in Orders : fill[o] <= IF o \in Tried(r) THEN mem[r].list[o].remaining ELSE 0
  BY DEF Fillings
<1>5. \A o \in Orders : fill[o] \in Nat
  BY <1>3, OrdersAssumption
<1>6. ASSUME NEW o \in Orders \ mem[r].loaded PROVE fill[o] = 0
  <2>1. o \notin Tried(r)
    BY DEF Tried
  <2> QED BY <1>4, <1>5, <2>1
<1>7. \A o \in mem[r].loaded : o \in Orders /\ Fillable(r, o, fill[o])
  BY <1>1, <1>2, <1>3, <1>4 DEF Remembers, Fillable
<1> QED BY <1>1, <1>5, <1>6, <1>7 DEF Fills

LEMMA SignedType ==
  ASSUME NEW r \in Runs, mem[r] \in Memory, NEW o \in Orders, NEW q \in Nat
  PROVE  Signed(r, o, q) \in Int /\ Signed(r, o, q) <= q
<1>1. -q \in Int /\ -q <= q
  OBVIOUS
<1>2. CASE mem[r].list[o].side = "BUY"
  BY <1>2 DEF Signed
<1>3. CASE mem[r].list[o].side # "BUY"
  BY <1>1, <1>3 DEF Signed
<1> QED BY <1>2, <1>3

LEMMA GainedType ==
  ASSUME NEW r \in Runs, mem[r] \in Memory, NEW fill, \A o \in Orders : fill[o] \in Nat,
         NEW S \in SUBSET Orders
  PROVE  Gained(r, fill, S) \in Int
<1>1. PICK f : f = [o \in Orders |-> Signed(r, o, fill[o])]
  OBVIOUS
<1>2. f \in [Orders -> Int]
  BY <1>1, SignedType
<1> QED BY <1>1, <1>2, SumOfOrders DEF Gained

(* Nothing, or one order, is filled.                                       *)
LEMMA GainedLittle ==
  ASSUME NEW r \in Runs, mem[r] \in Memory, NEW fill, \A o \in Orders : fill[o] \in Nat
  PROVE  /\ Gained(r, fill, {}) = 0
         /\ \A o \in Orders : Gained(r, fill, {o}) = Signed(r, o, fill[o])
<1>1. PICK f : f = [o \in Orders |-> Signed(r, o, fill[o])]
  OBVIOUS
<1>2. f \in [Orders -> Int] /\ \A o \in Orders : f[o] = Signed(r, o, fill[o])
  BY <1>1, SignedType
<1>3. Gained(r, fill, {}) = SumFunctionOnSet(f, {})
      /\ \A o \in Orders : Gained(r, fill, {o}) = SumFunctionOnSet(f, {o})
  BY <1>1 DEF Gained
<1>4. \A o \in Orders : SumFunctionOnSet(f, {o}) = f[o]
  BY <1>2, SumOfOne
<1> QED BY <1>2, <1>3, <1>4, SumOfNone

LEMMA MaxOfOne ==
  ASSUME NEW o \in Orders
  PROVE  Max({o}) = o
<1>1. {o} \in SUBSET (1..NumOrders) /\ {o} # {} /\ NumOrders \in Nat
  BY OrdersAssumption DEF Orders
<1> QED BY <1>1, MaxIsIn

(* What is filled costs, and what that comes to.                           *)
LEMMA CostType ==
  ASSUME NEW r \in Runs, mem[r] \in Memory, NEW fill, \A o \in Orders : fill[o] \in Nat,
         NEW price \in [Fills(fill) -> Prices], NEW o \in Fills(fill)
  PROVE  /\ Cost(r, fill, price, o) \in Int
         /\ Cost(r, fill, price, o) <= Amount(fill[o], price[o])
         /\ Amount(fill[o], price[o]) \in Nat
<1>1. o \in Orders /\ fill[o] \in Nat /\ price[o] \in Nat
  BY OrdersAssumption DEF Fills
<1>2. Amount(fill[o], price[o]) \in Nat
  BY <1>1, AmountType
<1> QED BY <1>1, <1>2, SignedType DEF Cost

LEMMA SpentIs ==
  ASSUME NEW r \in Runs, mem[r] \in Memory, NEW fill, \A o \in Orders : fill[o] \in Nat,
         NEW price \in [Fills(fill) -> Prices]
  PROVE  /\ Spent(r, fill, price) \in Int
         /\ Fills(fill) = {} => Spent(r, fill, price) = 0
         /\ \A o \in Orders : Fills(fill) = {o} => Spent(r, fill, price) = Cost(r, fill, price, o)
<1>1. PICK f : f = [o \in Fills(fill) |-> Cost(r, fill, price, o)]
  OBVIOUS
<1>2. \A o \in Fills(fill) : f[o] = Cost(r, fill, price, o) /\ f[o] \in Int
  BY <1>1, CostType
<1>3. Spent(r, fill, price) = SumFunctionOnSet(f, Fills(fill))
  BY <1>1 DEF Spent
<1>4. IsFiniteSet(Fills(fill))
  BY OrdersAreFinite DEF Fills
<1>5. SumFunctionOnSet(f, Fills(fill)) \in Int
  BY <1>2, <1>4, SumType
<1>6. ASSUME NEW o \in Orders, Fills(fill) = {o}
      PROVE  Spent(r, fill, price) = Cost(r, fill, price, o)
  <2>1. f[o] \in Int /\ f[o] = Cost(r, fill, price, o)
    BY <1>2, <1>6
  <2>2. SumFunctionOnSet(f, {o}) = f[o]
    BY <2>1, SumOfOne
  <2> QED BY <1>3, <1>6, <2>1, <2>2
<1> QED BY <1>3, <1>5, <1>6, SumOfNone

LEMMA CashAfterIs ==
  ASSUME NEW r \in Runs, mem[r] \in Memory, cash \in Int,
         NEW fill, \A o \in Orders : fill[o] \in Nat,
         NEW price \in [Fills(fill) -> Prices]
  PROVE  /\ CashAfter(r, fill, price) \in Int
         /\ Fills(fill) = {} => CashAfter(r, fill, price) = cash
         /\ \A o \in Orders : Fills(fill) = {o} =>
              CashAfter(r, fill, price) = mem[r].cash - Cost(r, fill, price, o)
<1>1. mem[r].cash \in Int
  BY DEF Memory
<1>2. CASE Fills(fill) = {}
  BY <1>2 DEF CashAfter
<1>3. CASE Fills(fill) # {}
  <2>1. Fills(fill) \in SUBSET (1..NumOrders) /\ NumOrders \in Nat
    BY OrdersAssumption DEF Fills, Orders
  <2>2. Max(Fills(fill)) \in Fills(fill)
    BY <1>3, <2>1, MaxIsIn
  <2>3. PICK m : m = Max(Fills(fill))
    OBVIOUS
  <2>4. Cost(r, fill, price, m) \in Int
    BY <2>2, <2>3, CostType
  <2>5. CashAfter(r, fill, price) = mem[r].cash - Cost(r, fill, price, m)
    BY <1>3, <2>3 DEF CashAfter
  <2>6. \A o \in Orders : Fills(fill) = {o} => m = o
    BY <2>3, MaxOfOne
  <2> QED BY <1>1, <1>3, <2>4, <2>5, <2>6
<1> QED BY <1>2, <1>3

LEMMA OneFill ==
  ASSUME NEW fill, ~(Cardinality(Fills(fill)) > 1), Fills(fill) # {}
  PROVE  \E o \in Orders : Fills(fill) = {o}
<1>1. PICK o : o \in Fills(fill) /\ o \in Orders
  BY DEF Fills
<1>2. IsFiniteSet(Fills(fill))
  BY OrdersAreFinite DEF Fills
<1>3. Cardinality(Fills(fill) \ {o}) = Cardinality(Fills(fill)) - 1 /\ IsFiniteSet(Fills(fill) \ {o})
  BY <1>1, <1>2, FS_RemoveElement
<1>4. Cardinality(Fills(fill)) \in Nat /\ Cardinality(Fills(fill) \ {o}) \in Nat
  BY <1>2, <1>3, FS_CardinalityType
<1>5. Cardinality(Fills(fill) \ {o}) = 0
  BY <1>3, <1>4
<1>6. Fills(fill) \ {o} = {}
  BY <1>3, <1>5, FS_EmptySet
<1> QED BY <1>1, <1>6

(* What a commit by r leaves to the other runs.                            *)
Kept(q) ==
  /\ mem'[q].list = mem[q].list /\ mem'[q].loaded = mem[q].loaded
  /\ mem'[q].own = mem[q].own /\ mem'[q].cash = mem[q].cash
  /\ mem'[q].allotted = mem[q].allotted /\ mem'[q].ref = mem[q].ref
Overtaken(r, fill) ==
  /\ mem' \in [Runs -> Memory] /\ mem'[r] = Nothing
  /\ \A q \in Runs \ {r} :
       /\ pc[q] = "idle" => mem'[q] = mem[q]
       /\ pc[q] # "idle" /\ ~mem'[q].outdated => ~mem[q].outdated /\ Fills(fill) = {}
       /\ pc[q] = "allotted" =>
            Kept(q) /\ mem'[q].stale = mem[q].stale /\ mem'[q].behind = mem[q].behind
       /\ pc[q] = "loaded" =>
            /\ Kept(q) /\ mem'[q].stale = mem[q].stale \cup mem[r].loaded
            /\ ~mem'[q].behind => ~mem[q].behind /\ Fills(fill) = {}

LEMMA OvertakeIs ==
  ASSUME TypeOK, NEW r \in Runs, NEW fill, mem' = Overtake(r, fill)
  PROVE  Overtaken(r, fill)
<1> DEFINE noted(q) == [mem[q] EXCEPT !.outdated = @ \/ Fills(fill) # {}]
           missed(q) == [mem[q] EXCEPT !.stale = @ \cup mem[r].loaded,
                                       !.behind = @ \/ Fills(fill) # {},
                                       !.outdated = @ \/ Fills(fill) # {}]
           of(q) == IF q = r THEN Nothing
                    ELSE CASE pc[q] = "idle"     -> mem[q]
                           [] pc[q] = "allotted" -> noted(q)
                           [] pc[q] = "loaded"   -> missed(q)
<1>0. mem' = [q \in Runs |-> of(q)]
  BY DEF Overtake
<1> HIDE DEF noted, missed
<1>1. /\ mem' = [q \in Runs |-> mem'[q]] /\ mem'[r] = Nothing
      /\ \A q \in Runs \ {r} :
           /\ pc[q] = "idle" => mem'[q] = mem[q]
           /\ pc[q] = "allotted" => mem'[q] = noted(q)
           /\ pc[q] = "loaded" => mem'[q] = missed(q)
  <2>1. \A q \in Runs : mem'[q] = of(q)
    BY <1>0
  <2>2. mem' = [q \in Runs |-> mem'[q]]
    <3> HIDE DEF of
    <3> QED BY <1>0, <2>1
  <2> QED BY <2>1, <2>2
<1>2. \A q \in Runs : pc[q] \in {"idle", "allotted", "loaded"} /\ mem[q] \in Memory
  BY DEF TypeOK
<1>3. ASSUME NEW q \in Runs \ {r}
      PROVE  \E b, u \in BOOLEAN :
               /\ b = (mem[q].behind \/ Fills(fill) # {})
               /\ u = (mem[q].outdated \/ Fills(fill) # {})
  <2>1. mem[q].behind \in BOOLEAN /\ mem[q].outdated \in BOOLEAN
    BY <1>2 DEF Memory
  <2>2. (mem[q].behind \/ Fills(fill) # {}) \in BOOLEAN
        /\ (mem[q].outdated \/ Fills(fill) # {}) \in BOOLEAN
    BY <2>1
  <2> QED BY <2>2
<1>4. ASSUME NEW q \in Runs \ {r}, pc[q] = "allotted"
      PROVE  /\ mem'[q] \in Memory /\ Kept(q)
             /\ mem'[q].stale = mem[q].stale /\ mem'[q].behind = mem[q].behind
             /\ ~mem'[q].outdated => ~mem[q].outdated /\ Fills(fill) = {}
  <2>1. PICK u \in BOOLEAN : u = (mem[q].outdated \/ Fills(fill) # {})
    BY <1>3
  <2>2. mem'[q] = [mem[q] EXCEPT !.outdated = u]
    BY <1>1, <1>4, <2>1 DEF noted
  <2>3. mem[q] \in Memory
    BY <1>2
  <2>4. mem'[q] \in Memory /\ Kept(q) /\ mem'[q].outdated = u
        /\ mem'[q].stale = mem[q].stale /\ mem'[q].behind = mem[q].behind
    BY <2>2, <2>3 DEF Memory, Kept
  <2> QED BY <2>1, <2>4
<1>5. ASSUME NEW q \in Runs \ {r}, pc[q] = "loaded"
      PROVE  /\ mem'[q] \in Memory /\ Kept(q)
             /\ mem'[q].stale = mem[q].stale \cup mem[r].loaded
             /\ ~mem'[q].behind => ~mem[q].behind /\ Fills(fill) = {}
             /\ ~mem'[q].outdated => ~mem[q].outdated /\ Fills(fill) = {}
  <2>1. PICK b, u \in BOOLEAN :
          b = (mem[q].behind \/ Fills(fill) # {}) /\ u = (mem[q].outdated \/ Fills(fill) # {})
    BY <1>3
  <2>2. mem[q] \in Memory /\ mem[r] \in Memory
    BY <1>2
  <2>3. PICK st \in SUBSET Orders : st = mem[q].stale \cup mem[r].loaded
    BY <2>2 DEF Memory
  <2>4. mem'[q] = [mem[q] EXCEPT !.stale = st, !.behind = b, !.outdated = u]
    BY <1>1, <1>5, <2>1, <2>3 DEF missed
  <2>5. mem'[q] \in Memory /\ Kept(q) /\ mem'[q].stale = st /\ mem'[q].behind = b
        /\ mem'[q].outdated = u
    BY <2>2, <2>4 DEF Memory, Kept
  <2> QED BY <2>1, <2>3, <2>5
<1>6. \A q \in Runs : mem'[q] \in Memory
  BY <1>1, <1>2, <1>4, <1>5, NothingType
<1>7. mem' \in [Runs -> Memory]
  BY <1>1, <1>6
<1> QED BY <1>1, <1>2, <1>4, <1>5, <1>7 DEF Overtaken

(* A row the run has loaded, and no other run has saved since, is as it    *)
(* should be.                                                              *)
LEMMA LoadedWhole ==
  ASSUME Inv, NEW r \in Runs, Remembers(r), mem[r] \in Memory,
         NEW o \in mem[r].loaded, o \notin crossed, o \notin mem[r].stale \ mem[r].own
  PROVE  Whole(o, mem[r].list[o], filled[o])
<1>1. o \in Orders
  BY DEF Memory
<1>2. CASE o \in mem[r].own
  <2>1. PICK q \in 1..MaxQuantity : mem[r].list[o] = NewOrder("BUY", q)
    BY <1>2 DEF Remembers, OwnFits
  <2>2. order[o].status = "none"
    BY <1>2 DEF Remembers, OwnFits
  <2>3. filled[o] = 0
    BY <1>1, <2>2 DEF Inv, Unborn
  <2>4. q \in Nat /\ q > 0
    BY <2>1, OrdersAssumption
  <2> QED BY <2>1, <2>3, <2>4 DEF Whole, NewOrder
<1>3. CASE o \notin mem[r].own
  <2>1. mem[r].list[o] = order[o]
    BY <1>3 DEF Remembers
  <2> QED BY <1>1, <2>1 DEF Inv, RowsWhole
<1> QED BY <1>2, <1>3

LEMMA CommitRunInv ==
  ASSUME Inv, NEW r \in Runs, NEW fill \in Fillings(r),
         NEW price \in [Fills(fill) -> Prices], Committed(r, fill, price)
  PROVE  Inv'
<1>1. /\ order' = [o \in Orders |-> IF o \in mem[r].loaded THEN Saved(r, o, fill[o]) ELSE order[o]]
      /\ filled' = [o \in Orders |-> filled[o] + fill[o]]
      /\ held' = held + Gained(r, fill, Fills(fill))
      /\ flow' = flow - Spent(r, fill, price)
      /\ cash' = CashAfter(r, fill, price)
      /\ crossed' = crossed \cup (mem[r].stale \cap mem[r].loaded)
      /\ lost' = (lost \/ Cardinality(Fills(fill)) > 1 \/ (mem[r].behind /\ Fills(fill) # {}))
      /\ pc' = [pc EXCEPT ![r] = "idle"] /\ mem' = Overtake(r, fill) /\ due' = due
      /\ pc[r] = "loaded"
  BY DEF Committed, Booked
<1>2. /\ Remembers(r) /\ mem[r] \in Memory
      /\ \A o \in Orders : fill[o] \in Nat
      /\ \A o \in mem[r].loaded : o \in Orders /\ Fillable(r, o, fill[o])
      /\ \A o \in Orders \ mem[r].loaded : fill[o] = 0
      /\ Fills(fill) \in SUBSET Orders
  BY <1>1, CommitFills
<1>3. Overtaken(r, fill)
  BY <1>1, OvertakeIs DEF Inv
<1>4. pc' \in [Runs -> {"idle", "allotted", "loaded"}] /\ pc'[r] = "idle"
      /\ \A q \in Runs \ {r} : pc'[q] = pc[q]
  BY <1>1, OneChanged DEF Inv, TypeOK
<1>5. /\ \A o \in mem[r].loaded : /\ order'[o] = Saved(r, o, fill[o])
                                  /\ order'[o] \in PaperOrder /\ order'[o].status # "none"
      /\ \A o \in Orders \ mem[r].loaded : order'[o] = order[o]
      /\ order' \in [Orders -> PaperOrder]
  <2>1. \A o \in mem[r].loaded : Saved(r, o, fill[o]) \in PaperOrder
                                 /\ Saved(r, o, fill[o]).status # "none"
    BY <1>2, SavedType
  <2>2. order \in [Orders -> PaperOrder]
    BY DEF Inv, TypeOK
  <2> QED BY <1>1, <1>2, <2>1, <2>2
<1>6. /\ filled' \in [Orders -> Nat] /\ \A o \in Orders : filled'[o] = filled[o] + fill[o]
      /\ \A o \in Orders : filled[o] \in Nat
  BY <1>1, <1>2 DEF Inv, TypeOK
<1>7. TypeOK'
  <2>1. cash \in Int /\ held \in Int /\ flow \in Int /\ Gained(r, fill, Fills(fill)) \in Int
        /\ Spent(r, fill, price) \in Int
    BY <1>2, GainedType, SpentIs DEF Inv, TypeOK
  <2>2. cash' \in Int /\ held' \in Int /\ flow' \in Int
    BY <1>1, <1>2, <2>1, CashAfterIs
  <2>3. lost' \in BOOLEAN
    BY <1>1
  <2>4. crossed' \subseteq Orders /\ due' \subseteq Orders
    BY <1>1, <1>2 DEF Inv, TypeOK
  <2> QED BY <1>3, <1>4, <1>5, <1>6, <2>2, <2>3, <2>4 DEF TypeOK, Overtaken
<1>8. RowsWhole'
  <2>1. ASSUME NEW o \in Orders \ crossed' PROVE Whole(o, order[o], filled[o])'
    <3>1. o \notin crossed
      BY <1>1, <2>1
    <3>2. CASE o \in mem[r].loaded
      <4>1. o \notin mem[r].stale
        BY <1>1, <2>1, <3>2
      <4>2. Whole(o, mem[r].list[o], filled[o])
        BY <1>2, <3>1, <3>2, <4>1, LoadedWhole
      <4>3. Whole(o, Saved(r, o, fill[o]), filled[o] + fill[o])
        BY <1>2, <1>6, <3>2, <4>2, SavedWhole
      <4>4. order'[o] = Saved(r, o, fill[o]) /\ filled'[o] = filled[o] + fill[o] /\ due' = due
        BY <1>1, <1>5, <1>6, <3>2
      <4> QED BY <4>3, <4>4 DEF Whole, Cancels, Expires
    <3>3. CASE o \notin mem[r].loaded
      <4>1. order'[o] = order[o] /\ filled'[o] = filled[o] /\ due' = due
        BY <1>1, <1>2, <1>5, <1>6, <3>3
      <4> QED BY <3>1, <4>1 DEF Inv, RowsWhole, Whole, Cancels, Expires
    <3> QED BY <3>2, <3>3
  <2> QED BY <2>1 DEF RowsWhole
<1>9. Unborn'
  BY <1>2, <1>5, <1>6 DEF Inv, Unborn
<1>10. MemoryInv'
  <2>1. ASSUME NEW q \in Runs \ {r}, pc[q] = "loaded" PROVE Remembers(q)'
    <3>1. Remembers(q) /\ mem[q] \in Memory /\ mem[q].loaded \in SUBSET Orders
          /\ mem[q].own \in SUBSET Orders
      BY <2>1 DEF Inv, MemoryInv, TypeOK, Memory
    <3>2. /\ Kept(q) /\ mem'[q].stale = mem[q].stale \cup mem[r].loaded
          /\ ~mem'[q].behind => ~mem[q].behind /\ Fills(fill) = {}
          /\ ~mem'[q].outdated => ~mem[q].outdated
      BY <1>3, <2>1 DEF Overtaken
    <3>3. \A o \in mem[q].own : o \notin mem[r].loaded
      <4>1. ASSUME NEW o \in mem[q].own, o \in mem[r].loaded PROVE FALSE
        <5>1. order[o].status = "none"
          BY <3>1 DEF Remembers, OwnFits
        <5>2. o \notin mem[r].own
          BY <2>1 DEF Inv, OwnApart
        <5> QED BY <1>2, <4>1, <5>1, <5>2 DEF Remembers
      <4> QED BY <4>1
    <3>4. \A o \in mem'[q].loaded :
            mem'[q].list[o].status # "none" /\ mem'[q].list[o].wait_cycles < MaxWaits
      BY <3>1, <3>2 DEF Kept, Remembers
    <3>5. \A o \in mem'[q].loaded \ mem'[q].own :
            /\ order'[o].status # "none"
            /\ o \notin mem'[q].stale => mem'[q].list[o] = order'[o]
      BY <1>5, <3>1, <3>2 DEF Kept, Remembers
    <3>6. ASSUME NEW o \in mem[q].own PROVE OwnFits(q, o)'
      <4>1. OwnFits(q, o)
        BY <3>1 DEF Remembers
      <4>2. PICK n \in 1..MaxQuantity :
              mem[q].list[o] = NewOrder("BUY", n) /\ Affordable(q, n, mem[q].cash)
        BY <4>1 DEF OwnFits
      <4>3. mem'[q].list[o] = NewOrder("BUY", n) /\ Affordable(q, n, mem[q].cash)'
        BY <3>2, <4>2 DEF Kept, Affordable
      <4>4. o \in mem'[q].loaded /\ order'[o].status = "none"
        BY <1>5, <3>1, <3>2, <3>3, <4>1 DEF Kept, OwnFits
      <4> QED BY <4>3, <4>4 DEF OwnFits
    <3>7. ~mem'[q].behind => mem'[q].cash = cash'
      BY <1>1, <1>2, <3>1, <3>2, CashAfterIs DEF Kept, Remembers, Inv, TypeOK
    <3> QED BY <3>2, <3>4, <3>5, <3>6, <3>7 DEF Kept, Remembers
  <2>2. ASSUME NEW q \in Runs PROVE (pc[q] = "idle" => mem[q] = Nothing)'
    BY <1>3, <1>4 DEF Overtaken, Inv, MemoryInv
  <2>3. ASSUME NEW q \in Runs \ {r}, pc[q] = "allotted" PROVE Allotted(q)'
    <3>1. Allotted(q)
      BY <2>3 DEF Inv, MemoryInv
    <3>2. /\ Kept(q) /\ mem'[q].stale = mem[q].stale /\ mem'[q].behind = mem[q].behind
          /\ ~mem'[q].outdated => ~mem[q].outdated /\ Fills(fill) = {}
      BY <1>3, <2>3 DEF Overtaken
    <3>3. Fills(fill) = {} => cash' = cash
      BY <1>1, <1>2, CashAfterIs DEF Inv, TypeOK
    <3>4. Affordable(q, mem[q].allotted, cash)'
      BY <3>1, <3>2, <3>3 DEF Kept, Allotted, Affordable
    <3> QED BY <3>1, <3>2, <3>4 DEF Kept, Allotted
  <2> QED BY <1>4, <2>1, <2>2, <2>3 DEF MemoryInv
<1>11. OwnApart'
  <2>1. mem'[r].own = {}
    BY <1>3 DEF Overtaken, Nothing
  <2>2. \A q \in Runs \ {r} : mem'[q].own = mem[q].own
    BY <1>3 DEF Overtaken, Kept, Inv, TypeOK
  <2> QED BY <2>1, <2>2 DEF Inv, OwnApart
<1>12. CashExactUnlessLost'
  <2> SUFFICES ASSUME ~lost' PROVE cash' = InitialCash + flow'
    BY DEF CashExactUnlessLost
  <2>1. /\ cash = InitialCash + flow /\ ~(Cardinality(Fills(fill)) > 1)
        /\ (Fills(fill) # {} => ~mem[r].behind)
    BY <1>1 DEF Inv, CashExactUnlessLost
  <2>2. cash \in Int /\ flow \in Int /\ InitialCash \in Int
    BY OrdersAssumption DEF Inv, TypeOK
  <2>3. CASE Fills(fill) = {}
    <3>1. Spent(r, fill, price) = 0 /\ CashAfter(r, fill, price) = cash
      BY <1>2, <2>2, <2>3, SpentIs, CashAfterIs
    <3> QED BY <1>1, <2>1, <2>2, <3>1
  <2>4. CASE Fills(fill) # {}
    <3>1. PICK o \in Orders : Fills(fill) = {o}
      BY <2>1, <2>4, OneFill
    <3>2. Spent(r, fill, price) = Cost(r, fill, price, o)
      BY <1>2, <3>1, SpentIs
    <3>3. CashAfter(r, fill, price) = mem[r].cash - Cost(r, fill, price, o)
      BY <1>2, <2>2, <3>1, CashAfterIs
    <3>4. mem[r].cash = cash
      BY <1>2, <2>1, <2>4 DEF Remembers
    <3>5. Cost(r, fill, price, o) \in Int
      BY <1>2, <3>1, CostType
    <3> QED BY <1>1, <2>1, <2>2, <3>2, <3>3, <3>4, <3>5
  <2> QED BY <2>3, <2>4
<1> QED BY <1>7, <1>8, <1>9, <1>10, <1>11, <1>12 DEF Inv

-------------------------------------------------------------------------------
(* The theorems.                                                           *)

LEMMA InvStep == Inv /\ [Next]_vars => Inv'
<1> SUFFICES ASSUME Inv, [Next]_vars PROVE Inv'
  OBVIOUS
<1>1. ASSUME NEW r \in Runs, NEW open_only \in BOOLEAN, BeginRun(r, open_only) PROVE Inv'
  BY <1>1, BeginRunInv
<1>2. ASSUME NEW r \in Runs, CommitRun(r) PROVE Inv'
  BY <1>2, CommitIs, CommitRunInv
<1>3. ASSUME NEW r \in Runs, RollBack(r) \/ PassOver(r) PROVE Inv'
  BY <1>3, DropInv DEF RollBack, PassOver
<1>4. ASSUME NEW o \in Orders, TimePasses(o) PROVE Inv'
  BY <1>4, TimePassesInv
<1>5. ASSUME NEW o \in Orders, NEW side \in {"BUY", "SELL"}, CreateOrder(o, side) PROVE Inv'
  BY <1>5, CreateOrderInv
<1>6. ASSUME NEW r \in Supervised, Ordered(r) PROVE Inv'
  BY <1>6, SuperviseInv, OrdersAssumption DEF Ordered
<1>9. ASSUME NEW r \in Supervised, NEW q \in 1..MaxQuantity, NEW ref \in Prices \ {0},
             NEW worth \in Exposures, Allocate(r, q, ref, worth)
      PROVE  Inv'
  <2>1. r \in Runs /\ q \in Nat /\ ref \in Nat \ {0} /\ worth \in Nat
    BY OrdersAssumption
  <2> QED BY <1>9, <2>1, AllocateInv
<1>7. ASSUME NEW r \in Reviews, BeginRun(r, FALSE) PROVE Inv'
  BY <1>7, BeginRunInv, OrdersAssumption
<1>8. ASSUME UNCHANGED vars PROVE Inv'
  BY <1>8 DEF vars, rowVars, Inv, TypeOK, RowsWhole, Whole, Cancels, Expires, Unborn,
     MemoryInv, Allotted, Remembers, OwnFits, Affordable, OwnApart, CashExactUnlessLost
<1> QED BY <1>1, <1>2, <1>3, <1>4, <1>5, <1>6, <1>7, <1>8, <1>9 DEF Next, Ends

LEMMA SpecInv == Spec => []Inv
BY InvInit, InvStep, PTL DEF Spec

(* The variables keep their types, the account's cash and the position     *)
(* among them, which a sum over the orders of a run changes.               *)
THEOREM TypeCorrect == Spec => []TypeOK
<1>1. Inv => TypeOK
  BY DEF Inv
<1> QED BY <1>1, SpecInv, PTL

(* apply_fill: the fills of an order and what is left of it always add up  *)
(* to what was asked for, and its status says which of them there is,      *)
(* unless a run saved it that had loaded it before another run did.        *)
THEOREM FillsAlwaysAddUp == Spec => []FillsAddUp
<1>1. Inv => FillsAddUp
  BY DEF Inv, RowsWhole, Whole, FillsAddUp
<1> QED BY <1>1, SpecInv, PTL

(* The cash is exact as long as each run makes one trade at most and none  *)
(* that another has overtaken.                                             *)
THEOREM CashIsExact == Spec => []CashExactUnlessLost
<1>1. Inv => CashExactUnlessLost
  BY DEF Inv
<1> QED BY <1>1, SpecInv, PTL

(* Of a step, only a commit changes what is filled of an order that is     *)
(* there, or its row.                                                      *)
LEMMA OnlyCommits ==
  ASSUME Inv, [Next]_vars, NEW o \in Orders, order[o].status # "none" \/ filled'[o] # filled[o]
  PROVE  \/ order'[o] = order[o] /\ filled'[o] = filled[o]
         \/ \E r \in Runs : CommitRun(r)
<1>1. ASSUME NEW r \in Runs, NEW open_only \in BOOLEAN, BeginRun(r, open_only)
      PROVE  order' = order /\ filled' = filled
  BY <1>1 DEF BeginRun, Load, rowVars
<1>2. ASSUME NEW r \in Runs, RollBack(r) \/ PassOver(r) PROVE order' = order /\ filled' = filled
  BY <1>2 DEF RollBack, PassOver, rowVars
<1>3. ASSUME NEW p \in Orders, TimePasses(p) PROVE order' = order /\ filled' = filled
  BY <1>3 DEF TimePasses
<1>4. ASSUME NEW p \in Orders, NEW side \in {"BUY", "SELL"}, CreateOrder(p, side)
      PROVE  order'[o] = order[o] /\ filled'[o] = filled[o]
  <2>1. order[p].status = "none" /\ filled' = filled
    BY <1>4 DEF CreateOrder, NextOrder, Used
  <2>2. p # o
    BY <2>1
  <2> QED BY <1>4, <2>1, <2>2 DEF CreateOrder, Inv, TypeOK
<1>5. ASSUME NEW r \in Supervised,
             Ordered(r) \/ \E q \in 1..MaxQuantity, ref \in Prices \ {0}, worth \in Exposures :
                             Allocate(r, q, ref, worth)
      PROVE  order' = order /\ filled' = filled
  BY <1>5 DEF Ordered, Supervise, Load, Allocate, rowVars
<1>6. ASSUME UNCHANGED vars PROVE order' = order /\ filled' = filled
  BY <1>6 DEF vars, rowVars
<1>7. ASSUME NEW r \in Reviews, BeginRun(r, FALSE) PROVE order' = order /\ filled' = filled
  BY <1>1, <1>7, OrdersAssumption
<1> QED BY <1>1, <1>2, <1>3, <1>4, <1>5, <1>6, <1>7 DEF Next, Ends

(* simulate_fill: an order that is closed gets no fill and is not opened   *)
(* again, by a run over all orders, or by one it was open for when loaded, *)
(* unless that one was overtaken.                                          *)
THEOREM ClosedOrdersStayClosed == Spec => ClosedStaysClosed
<1>1. ASSUME Inv, [Next]_vars, NEW o \in Orders,
             order[o].status \notin OpenStatuses \cup {"none"}, o \notin crossed'
      PROVE  filled'[o] = filled[o] /\ order'[o].status \notin OpenStatuses
  <2>1. CASE order'[o] = order[o] /\ filled'[o] = filled[o]
    BY <1>1, <2>1
  <2>2. ASSUME NEW r \in Runs, NEW fill \in Fillings(r),
               NEW price \in [Fills(fill) -> Prices], Committed(r, fill, price)
        PROVE  filled'[o] = filled[o] /\ order'[o].status \notin OpenStatuses
    <3>1. /\ Remembers(r) /\ mem[r] \in Memory
          /\ \A p \in Orders : fill[p] \in Nat
          /\ \A p \in mem[r].loaded : p \in Orders /\ Fillable(r, p, fill[p])
          /\ \A p \in Orders \ mem[r].loaded : fill[p] = 0
      BY <1>1, <2>2, CommitFills DEF Committed, Booked
    <3>2. filled'[o] = filled[o] + fill[o] /\ filled[o] \in Nat
      BY <1>1, <2>2 DEF Committed, Booked, Inv, TypeOK
    <3>3. CASE o \notin mem[r].loaded
      <4>1. order'[o] = order[o] /\ fill[o] = 0
        BY <2>2, <3>1, <3>3 DEF Committed, Booked
      <4> QED BY <1>1, <3>2, <4>1
    <3>4. CASE o \in mem[r].loaded
      <4>1. order'[o] = Saved(r, o, fill[o])
            /\ crossed' = crossed \cup (mem[r].stale \cap mem[r].loaded)
        BY <2>2, <3>4 DEF Committed, Booked
      <4>2. o \notin crossed /\ o \notin mem[r].stale
        BY <1>1, <3>4, <4>1
      <4>3. o \notin mem[r].own
        BY <1>1, <3>1 DEF Remembers, OwnFits
      <4>4. mem[r].list[o] = order[o]
        BY <3>1, <3>4, <4>2, <4>3 DEF Remembers
      <4>5. Whole(o, mem[r].list[o], filled[o])
        BY <1>1, <3>1, <3>4, <4>2, LoadedWhole
      <4>6. fill[o] = 0 /\ Saved(r, o, fill[o]).status \notin OpenStatuses
        BY <1>1, <3>1, <3>2, <3>4, <4>4, <4>5, SavedWhole
      <4> QED BY <3>2, <4>1, <4>6
    <3> QED BY <3>3, <3>4
  <2> QED BY <1>1, <2>1, <2>2, OnlyCommits, CommitIs
<1>2. Inv /\ [Next]_vars =>
        [\A o \in Orders :
           order[o].status \notin OpenStatuses \cup {"none"} /\ o \notin crossed' =>
             filled'[o] = filled[o] /\ order'[o].status \notin OpenStatuses]_vars
  BY <1>1
<1> QED BY <1>2, SpecInv, PTL DEF Spec, ClosedStaysClosed

(* The opportunity supervisor's order was sized, at a reference price, with *)
(* the cash there was when it was allotted: filled at once, alone and with *)
(* no trade in between, at whatever price, it leaves the reserve but for   *)
(* what it costs above the reference price.                                *)
THEOREM ReserveIsKept == Spec => SupervisorKeepsReserve
<1>1. ASSUME Inv, [Next]_vars, NEW r \in Runs, NEW o \in Orders,
             mem[r].own = {o}, filled'[o] > filled[o], ~mem[r].outdated,
             \A p \in Orders \ {o} : filled'[p] = filled[p]
      PROVE  cash' >= ReserveCash - ((flow - flow') - Amount(filled'[o] - filled[o], mem[r].ref))
  <2>1. filled'[o] # filled[o]
    <3>1. filled[o] \in Nat
      BY <1>1 DEF Inv, TypeOK
    <3> QED BY <1>1, <3>1
  <2>0. PICK q \in Runs : CommitRun(q)
    BY <1>1, <2>1, OnlyCommits
  <2>2. PICK fill \in Fillings(q) : \E price \in [Fills(fill) -> Prices] : Committed(q, fill, price)
    BY <2>0, CommitIs
  <2>18. PICK price \in [Fills(fill) -> Prices] : Committed(q, fill, price)
    BY <2>2
  <2>3. /\ Remembers(q) /\ mem[q] \in Memory
        /\ \A p \in Orders : fill[p] \in Nat
        /\ \A p \in mem[q].loaded : p \in Orders /\ Fillable(q, p, fill[p])
        /\ \A p \in Orders \ mem[q].loaded : fill[p] = 0
        /\ Fills(fill) \in SUBSET Orders
    BY <1>1, <2>18, CommitFills DEF Committed
  <2>4. \A p \in Orders : filled'[p] = filled[p] + fill[p] /\ filled[p] \in Nat
    BY <1>1, <2>18 DEF Committed, Booked, Inv, TypeOK
  <2>5. fill[o] > 0 /\ \A p \in Orders \ {o} : fill[p] = 0
    BY <1>1, <2>3, <2>4
  <2>6. Fills(fill) = {o}
    BY <2>5 DEF Fills
  <2>7. pc[r] = "loaded"
    <3>1. Nothing.own = {}
      BY DEF Nothing
    <3> QED BY <1>1, <3>1 DEF Inv, MemoryInv, Allotted, TypeOK
  <2>8. Remembers(r)
    BY <1>1, <2>7 DEF Inv, MemoryInv
  <2>9. order[o].status = "none"
    BY <1>1, <2>8 DEF Remembers, OwnFits
  <2>10. o \in mem[q].own
    BY <2>3, <2>5, <2>9 DEF Remembers
  <2>11. q = r
    BY <1>1, <2>10 DEF Inv, OwnApart
  <2>12. PICK n \in 1..MaxQuantity :
           /\ mem[r].list[o] = NewOrder("BUY", n)
           /\ n * mem[r].ref <= (mem[r].cash - ReserveCash) * Scale
    BY <1>1, <2>8 DEF Remembers, OwnFits, Affordable
  <2>13. fill[o] <= n
    <3>1. o \in mem[q].loaded
      BY <2>3, <2>5
    <3>2. fill[o] <= IF o \in Tried(q) THEN n ELSE 0
      BY <2>3, <2>11, <2>12, <3>1 DEF Fillable, NewOrder
    <3>3. n \in Nat
      BY OrdersAssumption
    <3> QED BY <2>3, <3>2, <3>3
  <2>14. PICK cost \in Int : cost = Cost(r, fill, price, o)
    BY <2>3, <2>6, <2>11, CostType
  <2>15. cash' = mem[r].cash - cost /\ flow - flow' = cost
    <3>1. cash' = CashAfter(r, fill, price) /\ flow' = flow - Spent(r, fill, price)
      BY <2>11, <2>18 DEF Committed, Booked
    <3>2. CashAfter(r, fill, price) = mem[r].cash - Cost(r, fill, price, o)
      BY <1>1, <2>3, <2>6, <2>11, CashAfterIs DEF Inv, TypeOK
    <3>3. Spent(r, fill, price) = Cost(r, fill, price, o)
      BY <2>3, <2>6, <2>11, SpentIs
    <3> QED BY <1>1, <2>14, <3>1, <3>2, <3>3 DEF Inv, TypeOK
  <2>16. mem[r].cash \in Int /\ mem[r].ref \in Nat /\ ReserveCash \in Nat
         /\ n \in Nat /\ fill[o] \in Nat
    BY <2>3, <2>11, AllocationAssumption, OrdersAssumption DEF Memory
  <2>17. /\ Amount(fill[o], mem[r].ref) \in Nat
         /\ Amount(fill[o], mem[r].ref) <= mem[r].cash - ReserveCash
    <3>1. /\ fill[o] * mem[r].ref \in Nat /\ n * mem[r].ref \in Nat
          /\ fill[o] * mem[r].ref <= n * mem[r].ref
      BY <2>13, <2>16, ProductGrows
    <3>2. PICK left \in Int : left = mem[r].cash - ReserveCash
      BY <2>16
    <3>3. PICK d \in Nat \ {0} : d = Scale
      BY ScaleIs
    <3>4. n * mem[r].ref <= left * d
      BY <2>12, <3>2, <3>3
    <3>5. left >= 0
      <4>1. left * d >= 0
        BY <3>1, <3>4
      <4>2. ASSUME left < 0 PROVE FALSE
        <5>1. PICK e \in Nat : left = -(1 + e)
          <6>1. -left - 1 \in Nat /\ left = -(1 + (-left - 1))
            BY <4>2
          <6> QED BY <6>1
        <5>2. (-(1 + e)) * d = -(d + e * d) /\ e * d \in Nat
          OBVIOUS
        <5> QED BY <4>1, <5>1, <5>2
      <4> QED BY <4>2
    <3>6. fill[o] * mem[r].ref <= left * Scale /\ left \in Nat
      <4>1. left \in Nat /\ left * d \in Nat
        BY <3>5
      <4> QED BY <3>1, <3>3, <3>4, <4>1
    <3> QED BY <2>16, <3>2, <3>6, AmountWithin
  <2>19. filled'[o] - filled[o] = fill[o]
    BY <2>3, <2>4
  <2> QED BY <2>14, <2>15, <2>16, <2>17, <2>19
<1>2. Inv /\ [Next]_vars =>
        [\A r \in Runs, o \in Orders :
           /\ mem[r].own = {o} /\ filled'[o] > filled[o] /\ ~mem[r].outdated
           /\ \A p \in Orders \ {o} : filled'[p] = filled[p]
           => LET cost == flow - flow'
                  sized == Amount(filled'[o] - filled[o], mem[r].ref)
              IN cash' >= ReserveCash - (cost - sized)]_vars
  BY <1>1
<1> QED BY <1>2, SpecInv, PTL DEF Spec, SupervisorKeepsReserve

-------------------------------------------------------------------------------
(* An allocation run: whatever the ranked list, at any scales.             *)

(* What a run has shared out by now: with what is left it is what the run  *)
(* began with, and no market it gave anything to is over its limit.        *)
Within(money, exposure, share) ==
  /\ share \in Share
  /\ share.budget + share.allocated = Lesser(Available(money), MaxTotalAllocation)
  /\ share.selected <= MaxExecutions
  /\ \A k \in Markets :
       share.market[k] > 0 => exposure[k] + share.market[k] <= MaxMarketAllocation

LEMMA FirstWithin ==
  ASSUME NEW money \in Int, NEW exposure
  PROVE  Within(money, exposure, FirstShare(money))
BY AllocationAssumption DEF Within, FirstShare, Share, Lesser, Available

(* What a proposal is given fits the budget and its market's limit.        *)
LEMMA ValueFits ==
  ASSUME NEW share \in Share, NEW exposure \in [Markets -> Int], NEW p \in Proposal,
         FinalQuantity(share, exposure, p) # 0
  PROVE  /\ ~PassedOver(share, exposure, p)
         /\ FinalValue(share, exposure, p) \in Nat
         /\ FinalValue(share, exposure, p) <= share.budget
         /\ FinalValue(share, exposure, p) <= MarketCap(share, exposure, p)
<1>1. PICK a \in Nat : /\ a <= share.budget /\ a <= MarketCap(share, exposure, p)
                        /\ FinalQuantity(share, exposure, p) * p.price <= a * Scale
  BY QuantityFits
<1>2. /\ ~PassedOver(share, exposure, p) /\ share.budget \in Nat
      /\ MarketCap(share, exposure, p) \in Int /\ FinalQuantity(share, exposure, p) \in Nat
  BY QuantityFits
<1>3. PICK n \in Nat : n = FinalQuantity(share, exposure, p) * p.price
  <2>1. p.price \in Nat
    BY DEF Proposal
  <2>2. FinalQuantity(share, exposure, p) * p.price \in Nat
    BY <1>2, <2>1
  <2> QED BY <2>2
<1>4. FinalValue(share, exposure, p) = HalfEven(n, Scale)
  BY <1>3 DEF FinalValue
<1>5. HalfEven(n, Scale) \in Nat /\ HalfEven(n, Scale) <= a
  BY <1>1, <1>3, ScaleIs, EvenWithin
<1> QED BY <1>1, <1>2, <1>4, <1>5

LEMMA ConsiderWithin ==
  ASSUME NEW money \in Int, NEW exposure \in [Markets -> Int], NEW share, NEW p \in Proposal,
         Within(money, exposure, share)
  PROVE  Within(money, exposure, Consider(share, exposure, p))
<1>1. CASE FinalQuantity(share, exposure, p) = 0
  BY <1>1 DEF Consider
<1>2. CASE FinalQuantity(share, exposure, p) # 0
  <2>1. PICK v : v = FinalValue(share, exposure, p)
    OBVIOUS
  <2>2. share \in Share
    BY DEF Within
  <2>3. /\ ~PassedOver(share, exposure, p) /\ v \in Nat /\ v <= share.budget
        /\ v <= MarketCap(share, exposure, p)
    BY <1>2, <2>1, <2>2, ValueFits
  <2>4. p.market \in Markets
    BY DEF Proposal
  <2>5. Consider(share, exposure, p) =
          [budget |-> share.budget - v, allocated |-> share.allocated + v,
           market |-> [share.market EXCEPT ![p.market] = @ + v],
           selected |-> share.selected + 1]
    BY <1>2, <2>1 DEF Consider
  <2>6. /\ share.budget \in Nat /\ share.allocated \in Nat /\ share.selected \in Nat
        /\ share.market \in [Markets -> Nat]
    BY <2>2 DEF Share
  <2>7. [share.market EXCEPT ![p.market] = @ + v] \in [Markets -> Nat]
    BY <2>3, <2>4, <2>6
  <2>8. Consider(share, exposure, p) \in Share
    BY <2>3, <2>5, <2>6, <2>7 DEF Share
  <2>9. share.selected + 1 <= MaxExecutions
    BY <2>3, <2>6, AllocationAssumption DEF PassedOver
  <2>10. ASSUME NEW k \in Markets, [share.market EXCEPT ![p.market] = @ + v][k] > 0
         PROVE  exposure[k] + [share.market EXCEPT ![p.market] = @ + v][k] <= MaxMarketAllocation
    <3>1. CASE k = p.market
      <4>1. [share.market EXCEPT ![p.market] = @ + v][k] = share.market[k] + v
        BY <2>4, <2>6, <3>1
      <4>2. v <= MaxMarketAllocation - exposure[k] - share.market[k]
        BY <2>3, <3>1 DEF MarketCap
      <4> QED BY <2>3, <2>6, <4>1, <4>2, AllocationAssumption
    <3>2. CASE k # p.market
      <4>1. [share.market EXCEPT ![p.market] = @ + v][k] = share.market[k]
        BY <2>6, <3>2
      <4> QED BY <2>10, <4>1 DEF Within
    <3> QED BY <3>1, <3>2
  <2>11. Within(money, exposure, share)
    OBVIOUS
  <2>12. (share.budget - v) + (share.allocated + v) = share.budget + share.allocated
    BY <2>3, <2>6
  <2> HIDE DEF Within
  <2> QED BY <2>5, <2>8, <2>9, <2>10, <2>11, <2>12 DEF Within
<1> QED BY <1>1, <1>2

(* The function that FoldLeft iterates over the list's first places.       *)
ShareStep(money, exposure, ranked, g, s) ==
  IF s = {} THEN FirstShare(money) ELSE Consider(g[s \ {Max(s)}], exposure, ranked[Max(s)])
Shares(money, exposure, ranked) ==
  CHOOSE g : g = [s \in SUBSET DOMAIN ranked |-> ShareStep(money, exposure, ranked, g, s)]

LEMMA AllocatedIsShares ==
  ASSUME NEW money, NEW exposure, NEW ranked
  PROVE  Allocated(money, exposure, ranked) = Shares(money, exposure, ranked)[DOMAIN ranked]
BY DEF Allocated, FoldLeft, MapThenFoldSet, Shares, ShareStep

LEMMA PlacesAreFinite ==
  ASSUME NEW n \in Nat
  PROVE  /\ Cardinality(1..n) \in Nat
         /\ \A s \in SUBSET (1..n) :
              /\ IsFiniteSet(s) /\ Cardinality(s) \in Nat
              /\ Cardinality(s) = 0 <=> s = {}
              /\ Cardinality(s) <= Cardinality(1..n)
<1>1. 1 \in Int /\ n \in Int
  OBVIOUS
<1>2. IsFiniteSet(1..n)
  BY <1>1, FS_Interval
<1>3. Cardinality(1..n) \in Nat
  BY <1>2, FS_CardinalityType
<1>4. ASSUME NEW s \in SUBSET (1..n)
      PROVE  /\ IsFiniteSet(s) /\ Cardinality(s) \in Nat
             /\ Cardinality(s) = 0 <=> s = {}
             /\ Cardinality(s) <= Cardinality(1..n)
  <2>1. IsFiniteSet(s) /\ Cardinality(s) <= Cardinality(1..n)
    BY <1>2, FS_Subset
  <2>2. Cardinality(s) \in Nat /\ (Cardinality(s) = 0 <=> s = {})
    BY <2>1, FS_CardinalityType, FS_EmptySet
  <2> QED BY <2>1, <2>2
<1> QED BY <1>3, <1>4

LEMMA OneLess ==
  ASSUME NEW n \in Nat, NEW s \in SUBSET (1..n), s # {}
  PROVE  /\ Max(s) \in s /\ s \ {Max(s)} \in SUBSET (1..n)
         /\ IsFiniteSet(s) /\ Cardinality(s) \in Nat
         /\ Cardinality(s \ {Max(s)}) \in Nat
         /\ Cardinality(s) = Cardinality(s \ {Max(s)}) + 1
<1>1. Max(s) \in s
  BY MaxIsIn
<1>2. IsFiniteSet(s) /\ Cardinality(s) \in Nat
  BY PlacesAreFinite
<1>3. s \ {Max(s)} \in SUBSET (1..n)
  OBVIOUS
<1>4. Cardinality(s \ {Max(s)}) = Cardinality(s) - 1
  BY <1>1, <1>2, FS_RemoveElement
<1>5. Cardinality(s \ {Max(s)}) \in Nat
  BY <1>3, PlacesAreFinite
<1>6. Cardinality(s) = Cardinality(s \ {Max(s)}) + 1
  BY <1>2, <1>4
<1> QED BY <1>1, <1>2, <1>3, <1>5, <1>6

LEMMA ShareStepWithin ==
  ASSUME NEW money \in Int, NEW exposure \in [Markets -> Int], NEW ranked \in Seq(Proposal),
         NEW s \in SUBSET DOMAIN ranked, NEW g,
         s # {} => Within(money, exposure, g[s \ {Max(s)}])
  PROVE  Within(money, exposure, ShareStep(money, exposure, ranked, g, s))
<1>1. CASE s = {}
  BY <1>1, FirstWithin DEF ShareStep
<1>2. CASE s # {}
  <2>1. DOMAIN ranked = 1..Len(ranked) /\ Len(ranked) \in Nat
    OBVIOUS
  <2>2. Max(s) \in DOMAIN ranked
    BY <1>2, <2>1, OneLess
  <2>3. ranked[Max(s)] \in Proposal
    BY <2>1, <2>2
  <2>4. Within(money, exposure, Consider(g[s \ {Max(s)}], exposure, ranked[Max(s)]))
    BY <1>2, <2>3, ConsiderWithin
  <2> QED BY <1>2, <2>4 DEF ShareStep
<1> QED BY <1>1, <1>2

(* The iteration has a fixed point, which the CHOOSE then is.              *)
LEMMA SharesDef ==
  ASSUME NEW money, NEW exposure, NEW ranked, NEW n \in Nat, DOMAIN ranked = 1..n
  PROVE  \A s \in SUBSET (1..n) :
           Shares(money, exposure, ranked)[s] =
             ShareStep(money, exposure, ranked, Shares(money, exposure, ranked), s)
<1> DEFINE Good(g, m) ==
             \A s \in SUBSET (1..n) :
               Cardinality(s) <= m => g[s] = ShareStep(money, exposure, ranked, g, s)
           Fix(g) == [s \in SUBSET (1..n) |-> ShareStep(money, exposure, ranked, g, s)]
           T == {m \in Nat : \E g : Good(g, m)}
<1>0. \A s \in SUBSET (1..n) :
        IsFiniteSet(s) /\ Cardinality(s) \in Nat /\ (Cardinality(s) = 0 <=> s = {})
  BY PlacesAreFinite
<1>1. 0 \in T
  <2>1. Good([s \in SUBSET (1..n) |-> FirstShare(money)], 0)
    BY <1>0 DEF ShareStep
  <2> QED BY <2>1
<1>2. ASSUME NEW m \in Nat, m \in T PROVE m + 1 \in T
  <2>1. PICK g : Good(g, m)
    BY <1>2
  <2>2. PICK h : h = Fix(g)
    OBVIOUS
  <2>3. ASSUME NEW s \in SUBSET (1..n), Cardinality(s) <= m + 1
        PROVE  h[s] = ShareStep(money, exposure, ranked, h, s)
    <3>1. h[s] = ShareStep(money, exposure, ranked, g, s)
      BY <2>2
    <3>2. CASE s = {}
      BY <3>1, <3>2 DEF ShareStep
    <3>3. CASE s # {}
      <4>1. PICK t : t = s \ {Max(s)}
        OBVIOUS
      <4>2. t \in SUBSET (1..n) /\ Cardinality(t) <= m
        <5> HIDE DEF Good, Fix, T
        <5>1. /\ t \in SUBSET (1..n) /\ Cardinality(t) \in Nat
              /\ Cardinality(s) = Cardinality(t) + 1
          BY <3>3, <4>1, OneLess
        <5> QED BY <2>3, <5>1
      <4>3. h[t] = g[t]
        BY <2>1, <2>2, <4>2
      <4> QED BY <3>1, <3>3, <4>1, <4>3 DEF ShareStep
    <3> QED BY <3>2, <3>3
  <2>4. Good(h, m + 1)
    BY <2>3
  <2> HIDE DEF Good, Fix
  <2> QED BY <2>4
<1>3. Cardinality(1..n) \in Nat /\ \A s \in SUBSET (1..n) : Cardinality(s) <= Cardinality(1..n)
  BY PlacesAreFinite
<1>4. PICK g : Good(g, Cardinality(1..n))
  <2> HIDE DEF Good
  <2>1. Cardinality(1..n) \in T
    <3> HIDE DEF T
    <3> QED BY <1>1, <1>2, <1>3, AllNaturals
  <2> QED BY <2>1
<1>5. PICK h : h = Fix(g)
  OBVIOUS
<1>6. \A s \in SUBSET (1..n) : h[s] = g[s]
  BY <1>3, <1>4, <1>5
<1>7. h = Fix(h)
  <2>1. ASSUME NEW s \in SUBSET (1..n)
        PROVE  ShareStep(money, exposure, ranked, g, s) = ShareStep(money, exposure, ranked, h, s)
    <3>1. CASE s = {}
      BY <3>1 DEF ShareStep
    <3>2. CASE s # {}
      <4>1. s \ {Max(s)} \in SUBSET (1..n)
        OBVIOUS
      <4>2. h[s \ {Max(s)}] = g[s \ {Max(s)}]
        BY <1>6, <4>1
      <4> QED BY <3>2, <4>2 DEF ShareStep
    <3> QED BY <3>1, <3>2
  <2>2. Fix(h) = Fix(g)
    BY <2>1
  <2> QED BY <1>5, <2>2
<1>8. PICK k : k = Shares(money, exposure, ranked)
  OBVIOUS
<1>9. k = Fix(k)
  <2>1. Shares(money, exposure, ranked) = CHOOSE f : f = Fix(f)
    BY DEF Shares
  <2> HIDE DEF Fix
  <2> QED BY <1>7, <1>8, <2>1
<1>10. \A s \in SUBSET (1..n) : k[s] = ShareStep(money, exposure, ranked, k, s)
  <2> TAKE s \in SUBSET (1..n)
  <2> QED BY <1>9, Zenon
<1> QED BY <1>8, <1>10

(* evaluate_allocation: whatever the cash, the exposures and the ranked    *)
(* proposals, a run gives out no more than there is above the reserve, no  *)
(* more than the limit of the run, executes no more than it may, and puts  *)
(* no market it gives anything to over its limit, roundings included.      *)
THEOREM AllocationKeepsLimits ==
  ASSUME NEW money \in Int, NEW exposure \in [Markets -> Int], NEW ranked \in Seq(Proposal)
  PROVE  LET share == Allocated(money, exposure, ranked) IN
         /\ share.allocated \in Nat
         /\ share.allocated <= MaxTotalAllocation
         /\ share.allocated > 0 => share.allocated <= money - ReserveCash
         /\ share.selected <= MaxExecutions
         /\ \A k \in Markets :
              share.market[k] > 0 => exposure[k] + share.market[k] <= MaxMarketAllocation
<1> DEFINE n == Len(ranked)
           G == Shares(money, exposure, ranked)
           T == {m \in Nat : \A s \in SUBSET (1..n) : Cardinality(s) <= m => Within(money, exposure, G[s])}
<1>1. n \in Nat /\ DOMAIN ranked = 1..n
  OBVIOUS
<1> HIDE DEF n
<1>2. \A s \in SUBSET (1..n) : G[s] = ShareStep(money, exposure, ranked, G, s)
  BY <1>1, SharesDef
<1> HIDE DEF G
<1>3. /\ Cardinality(1..n) \in Nat
      /\ \A s \in SUBSET (1..n) : Cardinality(s) \in Nat /\ (Cardinality(s) = 0 => s = {})
  BY <1>1, PlacesAreFinite
<1>4. 0 \in T
  <2>1. ASSUME NEW s \in SUBSET (1..n), Cardinality(s) <= 0 PROVE Within(money, exposure, G[s])
    <3>1. Cardinality(s) = 0
      <4>1. Cardinality(s) \in Nat
        BY <1>3
      <4> QED BY <2>1, <4>1
    <3>2. s = {}
      BY <1>3, <3>1
    <3> QED BY <1>1, <1>2, <3>2, ShareStepWithin
  <2> QED BY <2>1
<1>5. ASSUME NEW m \in Nat, m \in T PROVE m + 1 \in T
  <2>1. ASSUME NEW s \in SUBSET (1..n), Cardinality(s) <= m + 1 PROVE Within(money, exposure, G[s])
    <3>1. ASSUME s # {} PROVE Within(money, exposure, G[s \ {Max(s)}])
      <4>1. PICK t : t = s \ {Max(s)}
        OBVIOUS
      <4>2. /\ t \in SUBSET (1..n) /\ Cardinality(t) \in Nat /\ Cardinality(s) \in Nat
            /\ Cardinality(s) = Cardinality(t) + 1
        BY <1>1, <3>1, <4>1, OneLess
      <4>3. Cardinality(t) <= m
        BY <2>1, <4>2
      <4> QED BY <1>5, <4>1, <4>2, <4>3
    <3>2. Within(money, exposure, ShareStep(money, exposure, ranked, G, s))
      BY <1>1, <3>1, ShareStepWithin
    <3> QED BY <1>2, <3>2
  <2> QED BY <2>1
<1>6. Within(money, exposure, G[1..n])
  <2>1. PICK m \in Nat : m = Cardinality(1..n)
    BY <1>3
  <2>2. m \in T
    <3> HIDE DEF T
    <3> QED BY <1>4, <1>5, AllNaturals
  <2>3. 1..n \in SUBSET (1..n) /\ Cardinality(1..n) <= m
    BY <2>1
  <2> QED BY <2>2, <2>3
<1>7. PICK share : share = Allocated(money, exposure, ranked)
  OBVIOUS
<1>8. Within(money, exposure, share)
  BY <1>1, <1>6, <1>7, AllocatedIsShares DEF G
<1>9. /\ share.budget \in Nat /\ share.allocated \in Nat
      /\ share.budget + share.allocated = Lesser(Available(money), MaxTotalAllocation)
  BY <1>8 DEF Within, Share
<1>10. Lesser(Available(money), MaxTotalAllocation) <= MaxTotalAllocation
       /\ Lesser(Available(money), MaxTotalAllocation) <= Available(money)
       /\ Available(money) \in Nat
  BY AllocationAssumption DEF Lesser, Available
<1>11. Available(money) > 0 => Available(money) = money - ReserveCash
  BY DEF Available
<1>12. share.allocated <= MaxTotalAllocation /\ share.allocated <= Available(money)
  BY <1>9, <1>10, AllocationAssumption DEF Lesser
<1>13. share.allocated > 0 => share.allocated <= money - ReserveCash
  BY <1>9, <1>10, <1>11, <1>12, AllocationAssumption
<1> QED BY <1>7, <1>8, <1>9, <1>12, <1>13 DEF Within
===============================================================================
