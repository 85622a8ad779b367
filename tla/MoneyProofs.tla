----------------------------- MODULE MoneyProofs ------------------------------
(***************************************************************************)
(* The arithmetic the other proofs need: how a booking's amount is divided *)
(* into shares, for every amount, time of cancellation and percentage, and *)
(* what a sum over a finite set does when one of its terms changes.        *)
(*                                                                         *)
(* SumFunction of the community modules folds a function over its domain.  *)
(* What is proved of it here is proved by induction over the subsets of    *)
(* the domain, the induction being stated with a set of subsets and        *)
(* resting on least elements.                                              *)
(***************************************************************************)
EXTENDS Settlement, Functions, FiniteSetTheorems, WellFoundedInduction, TLAPS

-----------------------------------------------------------------------------
(* Shares of an amount *)

(* The stored share is the nearest unit to the exact one. *)
LEMMA ShareBounds ==
    ASSUME NEW a \in Nat, NEW pc \in Nat
    PROVE  /\ Share(a, pc) \in Nat
           /\ 100 * Share(a, pc) <= a * pc + 50
           /\ 100 * Share(a, pc) > a * pc - 50
<1> DEFINE x == a * pc + 50
<1>1. x \in Nat
  OBVIOUS
<1>2. /\ x \div 100 \in Nat
      /\ 100 * (x \div 100) <= x
      /\ 100 * (x \div 100) > x - 100
  BY <1>1
<1>3. QED
  BY <1>1, <1>2 DEF Share

(* How far whole units can be from exact shares that add up to a. *)
LEMMA TwoParts ==
    ASSUME NEW a \in Nat, NEW x \in Nat, NEW y \in Nat,
           100 * x <= a * 80 + 50, 100 * x > a * 80 - 50,
           100 * y <= a * 20 + 50, 100 * y > a * 20 - 50
    PROVE  x + y \in a - 1 .. a + 1
  OBVIOUS

(* The same for three shares. *)
LEMMA ThreeParts ==
    ASSUME NEW a \in Nat, NEW x \in Nat, NEW y \in Nat,
           100 * x <= a * 36 + 50, 100 * x > a * 36 - 50,
           100 * y <= a * 28 + 50, 100 * y > a * 28 - 50
    PROVE  x + x + y \in a - 1 .. a + 1
  OBVIOUS

(* A larger share is no smaller once rounded. *)
LEMMA LargerPart ==
    ASSUME NEW a \in Nat, NEW x \in Nat, NEW y \in Nat,
           100 * x <= a * 80 + 50, 100 * x > a * 80 - 50,
           100 * y <= a * 36 + 50
    PROVE  y <= x /\ x <= a
  OBVIOUS

(* A sender's cancellation hands out the amount to within one unit: at 80  *)
(* and 20 per cent and at 36, 36 and 28 the roundings cannot add up to two *)
(* units.                                                                  *)
THEOREM CancelConserved ==
    ASSUME NEW a \in Nat, NEW h \in Int
    PROVE  CancelConserves(a, h)
<1>1. CASE h > 48
  BY <1>1 DEF CancelConserves, SenderCancelSplit, FullRefund, Paid
<1>2. CASE h <= 48 /\ h >= 24
  <2>1. Paid(SenderCancelSplit(a, h))
          = Share(a, 80) + Share(a, 20)
    BY <1>2, ShareBounds DEF SenderCancelSplit, Paid
  <2>2. Share(a, 80) + Share(a, 20) \in a - 1 .. a + 1
    BY ShareBounds, TwoParts
  <2>3. QED
    BY <2>1, <2>2 DEF CancelConserves
<1>3. CASE h < 24
  <2>1. Paid(SenderCancelSplit(a, h))
          = Share(a, 36) + Share(a, 36) + Share(a, 28)
    BY <1>3, ShareBounds DEF SenderCancelSplit, Paid
  <2>2. Share(a, 36) + Share(a, 36) + Share(a, 28)
          \in a - 1 .. a + 1
    BY ShareBounds, ThreeParts
  <2>3. QED
    BY <2>1, <2>2 DEF CancelConserves
<1>4. QED
  BY <1>1, <1>2, <1>3

(* The sender who cancels later gets no more. *)
THEOREM WaitingCosts ==
    ASSUME NEW a \in Nat, NEW h \in Int, NEW later \in Int
    PROVE  LaterCancelsGetLess(a, h, later)
<1>1. Share(a, 36) <= Share(a, 80) /\ Share(a, 80) <= a
  <2>1. /\ Share(a, 80) \in Nat
        /\ 100 * Share(a, 80) <= a * 80 + 50
        /\ 100 * Share(a, 80) > a * 80 - 50
    BY ShareBounds
  <2>2. /\ Share(a, 36) \in Nat
        /\ 100 * Share(a, 36) <= a * 36 + 50
    BY ShareBounds
  <2>3. QED
    BY <2>1, <2>2, LargerPart
<1>2. \A t \in Int : SenderCancelSplit(a, t).sender =
        IF t > 48 THEN a
        ELSE IF t >= 24 THEN Share(a, 80)
        ELSE Share(a, 36)
  BY DEF SenderCancelSplit, FullRefund
<1>3. Share(a, 80) \in Nat /\ Share(a, 36) \in Nat
  BY ShareBounds
<1>4. QED
  BY <1>1, <1>2, <1>3 DEF LaterCancelsGetLess

(* A commission lies between nothing and the whole amount. *)
LEMMA CommissionBounds ==
    ASSUME NEW a \in Nat, NEW pc \in Int,
           NEW c \in Commissions(a, pc)
    PROVE  c \in 0 .. a
<1> DEFINE n == Normalized(pc)
           exact == a * n
<1>1. n \in 0 .. 100
  BY DEF Normalized
<1>2. exact \in Nat /\ exact <= 100 * a
  BY <1>1, Z3
<1>3. /\ c \in Int
      /\ c >= 0
      /\ 2 * (100 * c - exact) <= 100
  BY <1>2 DEF Commissions
<1>4. QED
  BY <1>2, <1>3

(* A delivery hands out exactly the amount, and both parts are amounts     *)
(* somebody can be paid.                                                   *)
THEOREM DeliveryConserved ==
    ASSUME NEW a \in Nat, NEW pc \in Int
    PROVE  DeliveryConserves(a, pc)
<1> SUFFICES ASSUME NEW c \in Commissions(a, pc)
             PROVE  /\ 0 + (a - c) + c = a
                    /\ a - c >= 0
                    /\ c >= 0
  BY DEF DeliveryConserves, DeliverySplits, Paid
<1> QED
  BY CommissionBounds

(* An amount of hundredths that come out whole is handed out exactly. *)
LEMMA CancelExact ==
    ASSUME NEW a \in Nat, a % 25 = 0, NEW h \in Int
    PROVE  Paid(SenderCancelSplit(a, h)) = a
<1>1. PICK k \in Nat : a = 25 * k
  BY Z3
<1>2. /\ Share(a, 80) = 20 * k
      /\ Share(a, 20) = 5 * k
      /\ Share(a, 36) = 9 * k
      /\ Share(a, 28) = 7 * k
  BY <1>1 DEF Share
<1> QED
  BY <1>1, <1>2 DEF SenderCancelSplit, FullRefund, Paid

-----------------------------------------------------------------------------
(* Induction over a finite set *)

(* Some numbers have a least among them. *)
LEMMA LeastNumber ==
    ASSUME NEW N \in SUBSET Nat, N # {}
    PROVE  \E n \in N : \A m \in N : n <= m
<1>1. PICK n \in N : \A m \in N : ~ (<<m, n>> \in OpToRel(<, Nat))
  BY WFMin, NatLessThanWellFounded
<1>2. \A m \in N : ~ (m < n)
  BY <1>1 DEF OpToRel
<1> QED
  BY <1>2

(* Numbers that include zero and every successor are all numbers. *)
LEMMA NumbersByInduction ==
    ASSUME NEW N \in SUBSET Nat, 0 \in N, \A n \in N : n + 1 \in N
    PROVE  N = Nat
<1> SUFFICES ASSUME N # Nat
             PROVE  FALSE
  OBVIOUS
<1>1. PICK n \in Nat \ N : \A m \in Nat \ N : n <= m
  BY LeastNumber
<1>2. n - 1 \in Nat
  BY <1>1
<1>3. n - 1 \in N
  BY <1>1, <1>2
<1> QED
  BY <1>1, <1>3

-----------------------------------------------------------------------------
(* The fold takes the element Pick(s) off a set s at a time. *)

Pick(s) == CHOOSE x \in s : TRUE
Rest(s) == s \ {Pick(s)}

LEMMA PickInSet ==
    ASSUME NEW S, NEW s \in SUBSET S, s # {}
    PROVE  Pick(s) \in s /\ Rest(s) \in SUBSET S
BY DEF Pick, Rest

(* What is left is smaller by one. *)
LEMMA RestIsSmaller ==
    ASSUME NEW S, IsFiniteSet(S), NEW s \in SUBSET S, s # {}
    PROVE  /\ Cardinality(s) \in Nat
           /\ Cardinality(Rest(s)) = Cardinality(s) - 1
<1>1. IsFiniteSet(s)
  BY FS_Subset
<1> QED
  BY <1>1, PickInSet, FS_RemoveElement, FS_CardinalityType DEF Rest

(* Induction over the subsets of a finite set: a collection of them with   *)
(* the empty one, and with each s whenever it has what is left of s.       *)
LEMMA SubsetsByInduction ==
    ASSUME NEW S, IsFiniteSet(S), NEW Good \in SUBSET (SUBSET S), {} \in Good,
           \A s \in SUBSET S : s # {} /\ Rest(s) \in Good => s \in Good
    PROVE  Good = SUBSET S
<1> DEFINE Sizes == {n \in Nat : \A s \in SUBSET S :
                                    Cardinality(s) <= n => s \in Good}
<1>1. \A s \in SUBSET S : IsFiniteSet(s) /\ Cardinality(s) \in Nat
  BY FS_Subset, FS_CardinalityType
<1>2. 0 \in Sizes
  <2>1. \A s \in SUBSET S : Cardinality(s) <= 0 => s = {}
    BY <1>1, FS_EmptySet
  <2> QED
    BY <2>1
<1>3. ASSUME NEW n \in Sizes PROVE n + 1 \in Sizes
  <2>1. ASSUME NEW s \in SUBSET S, Cardinality(s) <= n + 1, s # {}
        PROVE  s \in Good
    <3>1. Rest(s) \in SUBSET S /\ Cardinality(Rest(s)) <= n
      BY <1>1, <2>1, PickInSet, RestIsSmaller
    <3> QED
      BY <1>3, <2>1, <3>1
  <2> QED
    BY <2>1
<1>4. Sizes = Nat
  <2> HIDE DEF Sizes
  <2>1. Sizes \in SUBSET Nat
    BY DEF Sizes
  <2> QED
    BY <1>2, <1>3, <2>1, NumbersByInduction
<1> QED
  BY <1>1, <1>4

-----------------------------------------------------------------------------
(* The sums over all subsets of the domain of f *)

Adds(f, S, sum) ==
    sum = [s \in SUBSET S |-> IF s = {} THEN 0
                                        ELSE f[Pick(s)] + sum[Rest(s)]]

(* There are such sums, and they are whole numbers. *)
LEMMA SumsExist ==
    ASSUME NEW S, IsFiniteSet(S), NEW f \in [S -> Int]
    PROVE  \E sum \in [SUBSET S -> Int] : Adds(f, S, sum)
<1> DEFINE Next(sum, s) == IF s = {} THEN 0 ELSE f[Pick(s)] + sum[Rest(s)]
           UpTo(n, sum) == \A s \in SUBSET S :
                                Cardinality(s) <= n => sum[s] = Next(sum, s)
           Sizes == {n \in Nat : \E sum \in [SUBSET S -> Int] : UpTo(n, sum)}
<1>1. \A s \in SUBSET S : Cardinality(s) \in Nat
  BY FS_Subset, FS_CardinalityType
<1>2. ASSUME NEW sum \in [SUBSET S -> Int], NEW s \in SUBSET S
      PROVE  Next(sum, s) \in Int
  BY PickInSet
<1>3. 0 \in Sizes
  <2> DEFINE zero == [s \in SUBSET S |-> 0]
  <2>1. \A s \in SUBSET S : Cardinality(s) <= 0 => s = {}
    BY <1>1, FS_Subset, FS_EmptySet
  <2>2. zero \in [SUBSET S -> Int] /\ UpTo(0, zero)
    BY <2>1
  <2> QED
    BY <2>2
<1>4. ASSUME NEW n \in Sizes PROVE n + 1 \in Sizes
  <2>1. PICK sum \in [SUBSET S -> Int] : UpTo(n, sum)
    BY <1>4
  <2> DEFINE longer == [s \in SUBSET S |-> Next(sum, s)]
  <2>2. longer \in [SUBSET S -> Int]
    BY <1>2
  <2>3. ASSUME NEW s \in SUBSET S, Cardinality(s) <= n + 1, s # {}
        PROVE  longer[s] = Next(longer, s)
    <3>1. Rest(s) \in SUBSET S /\ Cardinality(Rest(s)) <= n
      BY <1>1, <1>4, <2>3, PickInSet, RestIsSmaller
    <3>2. longer[Rest(s)] = sum[Rest(s)]
      BY <2>1, <3>1
    <3> QED
      BY <3>2
  <2>4. UpTo(n + 1, longer)
    BY <2>3
  <2> HIDE DEF longer
  <2> QED
    BY <1>4, <2>2, <2>4
<1>5. Cardinality(S) \in Sizes
  <2> HIDE DEF Sizes
  <2>1. Sizes \in SUBSET Nat
    BY DEF Sizes
  <2>2. Sizes = Nat
    BY <1>3, <1>4, <2>1, NumbersByInduction
  <2> QED
    BY <1>1, <2>2
<1>6. PICK sum \in [SUBSET S -> Int] : UpTo(Cardinality(S), sum)
  BY <1>5
<1>7. \A s \in SUBSET S : Cardinality(s) <= Cardinality(S)
  BY FS_Subset
<1> QED
  BY <1>6, <1>7 DEF Adds

(* SumFunction is the sum over the whole domain. *)
LEMMA SumIsLast ==
    ASSUME NEW S, IsFiniteSet(S), NEW f \in [S -> Int]
    PROVE  \E sum : Adds(f, S, sum) /\ SumFunction(f) = sum[S]
<1> DEFINE sum == CHOOSE g : Adds(f, S, g)
<1>1. Adds(f, S, sum)
  BY SumsExist
<1>2. SumFunction(f) = sum[S]
  BY DEF SumFunction, SumFunctionOnSet, FoldFunctionOnSet, MapThenFoldSet,
         Adds, Pick, Rest
<1> QED
  BY <1>1, <1>2

(* When only the value at x changes, the sums over the sets that have x    *)
(* change by as much.                                                      *)
LEMMA SumsChange ==
    ASSUME NEW S, IsFiniteSet(S), NEW f \in [S -> Int], NEW g \in [S -> Int],
           NEW x \in S, \A y \in S \ {x} : g[y] = f[y],
           NEW a, Adds(f, S, a), NEW b, Adds(g, S, b)
    PROVE  \A s \in SUBSET S :
                /\ a[s] \in Int
                /\ b[s] = a[s] + (IF x \in s THEN g[x] - f[x] ELSE 0)
<1> DEFINE Good == {s \in SUBSET S :
                        /\ a[s] \in Int
                        /\ b[s] = a[s] + (IF x \in s THEN g[x] - f[x] ELSE 0)}
<1>1. {} \in Good
  BY DEF Adds
<1>2. ASSUME NEW s \in SUBSET S, s # {}, Rest(s) \in Good
      PROVE  s \in Good
  <2>1. /\ a[s] = f[Pick(s)] + a[Rest(s)]
        /\ b[s] = g[Pick(s)] + b[Rest(s)]
    BY <1>2 DEF Adds
  <2>2. /\ Pick(s) \in s
        /\ Pick(s) \in S
        /\ x \in Rest(s) <=> x \in s /\ x # Pick(s)
    BY <1>2, PickInSet DEF Rest
  <2>3. /\ a[Rest(s)] \in Int
        /\ b[Rest(s)] = a[Rest(s)] + (IF x \in Rest(s) THEN g[x] - f[x] ELSE 0)
    BY <1>2
  <2>4. f[Pick(s)] \in Int /\ g[Pick(s)] \in Int /\ f[x] \in Int /\ g[x] \in Int
    BY <2>2
  <2>5. CASE x = Pick(s)
    BY <2>1, <2>2, <2>3, <2>4, <2>5
  <2>6. CASE x # Pick(s)
    <3>1. g[Pick(s)] = f[Pick(s)]
      BY <2>2, <2>6
    <3> QED
      BY <2>1, <2>2, <2>3, <2>4, <2>6, <3>1
  <2> QED
    BY <2>5, <2>6
<1>3. Good = SUBSET S
  <2> HIDE DEF Good
  <2>1. Good \in SUBSET (SUBSET S)
    BY DEF Good
  <2> QED
    BY <1>1, <1>2, <2>1, SubsetsByInduction
<1> QED
  BY <1>3

(* A sum of whole numbers is one. *)
LEMMA SumType ==
    ASSUME NEW S, IsFiniteSet(S), NEW f \in [S -> Int]
    PROVE  SumFunction(f) \in Int
<1>1. CASE S = {}
  <2>1. PICK sum : Adds(f, S, sum) /\ SumFunction(f) = sum[S]
    BY SumIsLast
  <2> QED
    BY <1>1, <2>1 DEF Adds
<1>2. ASSUME NEW x \in S PROVE SumFunction(f) \in Int
  <2>1. PICK sum : Adds(f, S, sum) /\ SumFunction(f) = sum[S]
    BY SumIsLast
  <2>2. \A s \in SUBSET S : sum[s] \in Int
    BY <1>2, <2>1, SumsChange
  <2> QED
    BY <2>1, <2>2
<1> QED
  BY <1>1, <1>2

(* A sum changes by what one of its terms does. *)
THEOREM SumUpdate ==
    ASSUME NEW S, IsFiniteSet(S), NEW f \in [S -> Int], NEW g \in [S -> Int],
           NEW x \in S, \A y \in S \ {x} : g[y] = f[y]
    PROVE  SumFunction(g) = SumFunction(f) + g[x] - f[x]
<1>1. PICK a : Adds(f, S, a) /\ SumFunction(f) = a[S]
  BY SumIsLast
<1>2. PICK b : Adds(g, S, b) /\ SumFunction(g) = b[S]
  BY SumIsLast
<1>3. /\ a[S] \in Int
      /\ b[S] = a[S] + (g[x] - f[x])
  BY <1>1, <1>2, SumsChange
<1> QED
  BY <1>1, <1>2, <1>3

(* Zeros add up to zero. *)
LEMMA SumOfZeros ==
    ASSUME NEW S, IsFiniteSet(S), NEW f \in [S -> Int], \A x \in S : f[x] = 0
    PROVE  SumFunction(f) = 0
<1>1. PICK sum : Adds(f, S, sum) /\ SumFunction(f) = sum[S]
  BY SumIsLast
<1> DEFINE Good == {s \in SUBSET S : sum[s] = 0}
<1>2. {} \in Good
  BY <1>1 DEF Adds
<1>3. ASSUME NEW s \in SUBSET S, s # {}, Rest(s) \in Good PROVE s \in Good
  <2>1. sum[s] = f[Pick(s)] + sum[Rest(s)] /\ Pick(s) \in S
    BY <1>1, <1>3, PickInSet DEF Adds
  <2> QED
    BY <1>3, <2>1
<1>4. Good = SUBSET S
  <2> HIDE DEF Good
  <2>1. Good \in SUBSET (SUBSET S)
    BY DEF Good
  <2> QED
    BY <1>2, <1>3, <2>1, SubsetsByInduction
<1> QED
  BY <1>1, <1>4

===============================================================================
