----------------------------- MODULE BasicLemmas -----------------------------
(***************************************************************************)
(* Facts the proofs about several components rest on: induction, what a    *)
(* sorted reading of a finite set is, division, and sums.                  *)
(***************************************************************************)
EXTENDS Ordering, Folds, FiniteSetTheorems, WellFoundedInduction, TLAPS

\* A set of natural numbers that is not empty has a least member.
LEMMA LeastNat ==
    ASSUME NEW T \in SUBSET Nat, T # {}
    PROVE  \E x \in T : \A y \in T : x <= y
<1> DEFINE R == {p \in Nat \X Nat : p[1] < p[2]}
<1>1. IsWellFoundedOn(R, Nat)
  BY NatLessThanWellFounded DEF OpToRel
<1>2. \E x \in T : \A y \in T : ~ (<<y, x>> \in R)
  BY <1>1, WFMin
<1> PICK x \in T : \A y \in T : ~ (<<y, x>> \in R)
  BY <1>2
<1>3. ASSUME NEW y \in T PROVE x <= y
  <2>1. <<y, x>> \in Nat \X Nat /\ ~ (<<y, x>> \in R)
    OBVIOUS
  <2> QED
    BY <2>1
<1> QED
  BY <1>3

\* Induction, over the set of numbers for which something holds.
LEMMA Induction ==
    ASSUME NEW T, 0 \in T, \A n \in Nat : n \in T => n + 1 \in T
    PROVE  Nat \subseteq T
<1> SUFFICES ASSUME Nat \ T # {} PROVE FALSE
  OBVIOUS
<1> PICK x \in Nat \ T : \A y \in Nat \ T : x <= y
  BY LeastNat
<1>1. x # 0 /\ x - 1 \in Nat
  OBVIOUS
<1>2. x - 1 \in T
  BY <1>1
<1>3. (x - 1) + 1 \in T
  BY <1>1, <1>2
<1> QED
  BY <1>3

\* A set read off another is no larger than it,
LEMMA ImageNoLarger ==
    ASSUME NEW S, NEW T, NEW f, IsFiniteSet(S),
           \A x \in S : f[x] \in T, \A y \in T : \E x \in S : f[x] = y
    PROVE  IsFiniteSet(T) /\ Cardinality(T) <= Cardinality(S)
<1> DEFINE g == [x \in S |-> f[x]]
<1>1. g \in [S -> T] /\ \A y \in T : \E x \in S : g[x] = y
  OBVIOUS
<1> HIDE DEF g
<1>2. g \in Surjection(S, T)
  BY <1>1 DEF Surjection
<1> QED
  BY ONLY <1>2, IsFiniteSet(S), FS_Surjection

\* and just as large if no two elements of that are read the same.
LEMMA ImageSameSize ==
    ASSUME NEW S, NEW T, NEW f, IsFiniteSet(S),
           \A x \in S : f[x] \in T, \A y \in T : \E x \in S : f[x] = y,
           \A x, y \in S : f[x] = f[y] => x = y
    PROVE  IsFiniteSet(T) /\ Cardinality(T) = Cardinality(S)
<1> DEFINE g == [x \in S |-> f[x]]
<1>1. /\ g \in [S -> T] /\ \A y \in T : \E x \in S : g[x] = y
      /\ \A x, y \in S : g[x] = g[y] => x = y
  OBVIOUS
<1> HIDE DEF g
<1>2. g \in Bijection(S, T)
  BY ONLY <1>1 DEF Bijection, Injection, Surjection, IsInjective
<1>3. ExistsBijection(S, T)
  BY ONLY <1>2 DEF ExistsBijection
<1> QED
  BY ONLY <1>3, IsFiniteSet(S), FS_Bijection

\* A relation that puts any two different elements of S in exactly one order.
StrictOrder(S, R) ==
    /\ \A x \in S : <<x, x>> \notin R
    /\ \A x, y, z \in S : <<x, y>> \in R /\ <<y, z>> \in R => <<x, z>> \in R
    /\ \A x, y \in S : x = y \/ <<x, y>> \in R \/ <<y, x>> \in R

\* A row below another has fewer rows below it.
LEMMA BelowGrows ==
    ASSUME NEW S, IsFiniteSet(S), NEW R, StrictOrder(S, R)
    PROVE  /\ \A x \in S : Cardinality(Below(S, R, x)) \in 0 .. Cardinality(S) - 1
           /\ \A x, y \in S : <<x, y>> \in R =>
                 Cardinality(Below(S, R, x)) < Cardinality(Below(S, R, y))
<1>1. ASSUME NEW x \in S
      PROVE  /\ IsFiniteSet(Below(S, R, x)) /\ Cardinality(Below(S, R, x)) \in Nat
             /\ Cardinality(S) \in Nat /\ Cardinality(Below(S, R, x)) < Cardinality(S)
  <2>1. Below(S, R, x) \in SUBSET S /\ x \notin Below(S, R, x)
    BY DEF Below, StrictOrder
  <2> QED
    BY <2>1, FS_Subset, FS_CardinalityType
<1>2. ASSUME NEW x \in S, NEW y \in S, <<x, y>> \in R
      PROVE  Cardinality(Below(S, R, x)) < Cardinality(Below(S, R, y))
  <2>1. Below(S, R, x) \in SUBSET Below(S, R, y)
    BY <1>2 DEF Below, StrictOrder
  <2>2. x \in Below(S, R, y) /\ x \notin Below(S, R, x)
    BY <1>2 DEF Below, StrictOrder
  <2> QED
    BY <1>1, <2>1, <2>2, FS_Subset
<1> QED
  BY <1>1, <1>2

\* Ordered by a strict order, the rows of a finite set come out once each, least first.
LEMMA OrderedBySorts ==
    ASSUME NEW S, IsFiniteSet(S), NEW R, StrictOrder(S, R)
    PROVE  /\ Cardinality(S) \in Nat
           /\ OrderedBy(S, R) \in Seq(S) /\ Len(OrderedBy(S, R)) = Cardinality(S)
           /\ \A x \in S : \E k \in 1 .. Cardinality(S) : OrderedBy(S, R)[k] = x
           /\ \A j, k \in 1 .. Cardinality(S) :
                 j < k <=> <<OrderedBy(S, R)[j], OrderedBy(S, R)[k]>> \in R
<1> DEFINE n == Cardinality(S)
           rank(x) == Cardinality(Below(S, R, x))
           f == [x \in S |-> rank(x) + 1]
<1>1. n \in Nat
  BY FS_CardinalityType
<1>2. \A x \in S : rank(x) \in 0 .. n - 1
  BY BelowGrows
<1>3. \A x, y \in S : <<x, y>> \in R => rank(x) < rank(y)
  BY BelowGrows
<1>4. \A x, y \in S : rank(x) = rank(y) => x = y
  <2>1. ASSUME NEW x \in S, NEW y \in S, x # y PROVE rank(x) # rank(y)
    <3>1. <<x, y>> \in R \/ <<y, x>> \in R
      BY <2>1 DEF StrictOrder
    <3>2. rank(x) < rank(y) \/ rank(y) < rank(x)
      BY <1>3, <3>1
    <3>3. rank(x) \in Int /\ rank(y) \in Int
      BY <1>1, <1>2
    <3> HIDE DEF rank
    <3> QED
      BY <3>2, <3>3
  <2> QED
    BY <2>1
<1>5. f \in Injection(S, 1 .. n)
  <2>1. f \in [S -> 1 .. n]
    BY <1>1, <1>2
  <2>2. ASSUME NEW x \in S, NEW y \in S, f[x] = f[y] PROVE x = y
    BY <1>1, <1>2, <1>4, <2>2
  <2> HIDE DEF f
  <2> QED
    BY <2>1, <2>2 DEF Injection, IsInjective
<1>6. IsFiniteSet(1 .. n) /\ Cardinality(1 .. n) = n
  BY <1>1, FS_Interval
<1>7. f \in Surjection(S, 1 .. n)
  <2> HIDE DEF f
  <2> QED
    BY <1>5, <1>6, FS_Injection
<1>8. ASSUME NEW k \in 1 .. n
      PROVE  OrderedBy(S, R)[k] \in S /\ rank(OrderedBy(S, R)[k]) = k - 1
  <2>1. \E x \in S : f[x] = k
    BY <1>7 DEF Surjection
  <2>2. \E x \in S : rank(x) = k - 1
    BY <1>1, <1>2, <2>1
  <2>3. OrderedBy(S, R)[k] = CHOOSE x \in S : rank(x) = k - 1
    BY DEF OrderedBy
  <2> QED
    BY <2>2, <2>3
<1>9. OrderedBy(S, R) \in Seq(S) /\ Len(OrderedBy(S, R)) = n
  <2>1. OrderedBy(S, R) \in [1 .. n -> S]
    BY <1>8 DEF OrderedBy
  <2> QED
    BY <1>1, <2>1
<1>10. ASSUME NEW x \in S PROVE \E k \in 1 .. n : OrderedBy(S, R)[k] = x
  <2>1. rank(x) + 1 \in 1 .. n
    BY <1>1, <1>2
  <2> QED
    BY <1>1, <1>2, <1>4, <1>8, <2>1
<1>11. ASSUME NEW j \in 1 .. n, NEW k \in 1 .. n
       PROVE  j < k <=> <<OrderedBy(S, R)[j], OrderedBy(S, R)[k]>> \in R
  <2>1. OrderedBy(S, R)[j] \in S /\ OrderedBy(S, R)[k] \in S
        /\ rank(OrderedBy(S, R)[j]) = j - 1 /\ rank(OrderedBy(S, R)[k]) = k - 1
    BY <1>8
  <2>2. CASE j < k
    <3>1. ~ (<<OrderedBy(S, R)[k], OrderedBy(S, R)[j]>> \in R) /\ OrderedBy(S, R)[j] # OrderedBy(S, R)[k]
      BY <1>1, <1>3, <2>1, <2>2
    <3> QED
      BY <2>1, <2>2, <3>1 DEF StrictOrder
  <2>3. CASE ~ (j < k)
    BY <1>1, <1>3, <2>1, <2>3
  <2> QED
    BY <2>2, <2>3
<1> QED
  BY <1>1, <1>9, <1>10, <1>11

\* A finite set that is not empty has a greatest member.
LEMMA Greatest ==
    ASSUME NEW S, IsFiniteSet(S), S # {}, NEW R, StrictOrder(S, R)
    PROVE  \E x \in S : \A y \in S : y = x \/ <<y, x>> \in R
<1> DEFINE s == OrderedBy(S, R)
           n == Cardinality(S)
<1>1. /\ n \in Nat /\ s \in Seq(S) /\ Len(s) = n
      /\ \A x \in S : \E k \in 1 .. n : s[k] = x
      /\ \A j, k \in 1 .. n : j < k <=> <<s[j], s[k]>> \in R
  BY OrderedBySorts
<1> HIDE DEF s, n
<1>2. n \in 1 .. n /\ s[n] \in S
  BY <1>1
<1>3. \A k \in 1 .. n : s[k] = s[n] \/ <<s[k], s[n]>> \in R
  BY <1>1
<1> QED
  BY <1>1, <1>2, <1>3

\* Numbers that come first in a set, in order, are how its ascending reading begins.
LEMMA AscendingBegins ==
    ASSUME NEW S \in SUBSET Nat, IsFiniteSet(S), NEW t \in Seq(Nat),
           \A k \in 1 .. Len(t) : t[k] \in S,
           \A j, k \in 1 .. Len(t) : j < k => t[j] < t[k],
           \A x \in S : (\E k \in 1 .. Len(t) : x = t[k]) \/ (\A k \in 1 .. Len(t) : t[k] < x)
    PROVE  /\ Ascending(S) \in Seq(S) /\ Len(t) <= Len(Ascending(S))
           /\ SubSeq(Ascending(S), 1, Len(t)) = t
<1> DEFINE R == {p \in S \X S : p[1] < p[2]}
           s == Ascending(S)
           n == Cardinality(S)
<1>1. StrictOrder(S, R)
  BY DEF StrictOrder
<1>2. s = OrderedBy(S, R)
  BY DEF Ascending
<1>3. /\ n \in Nat /\ s \in Seq(S) /\ Len(s) = n
      /\ \A x \in S : \E k \in 1 .. n : s[k] = x
      /\ \A j, k \in 1 .. n : j < k <=> <<s[j], s[k]>> \in R
  <2> HIDE DEF R, s
  <2> QED
    BY <1>1, <1>2, OrderedBySorts
<1>4. \A j, k \in 1 .. n : j < k <=> s[j] < s[k]
  <2>1. \A k \in 1 .. n : s[k] \in S
    BY <1>3
  <2> HIDE DEF s
  <2> QED
    BY <1>3, <2>1
<1> HIDE DEF s, n, R
<1> DEFINE T == {k \in Nat : k \in 1 .. Len(t) => k <= n /\ s[k] = t[k]}
<1>5. \A k \in Nat : (\A j \in Nat : j < k => j \in T) => k \in T
  <2> SUFFICES ASSUME NEW k \in 1 .. Len(t), \A j \in 1 .. k - 1 : j <= n /\ s[j] = t[j]
               PROVE  k <= n /\ s[k] = t[k]
    BY SMTT(30)
  <2>1. PICK m \in 1 .. n : s[m] = t[k]
    BY <1>3
  <2>2. m >= k
    <3>1. SUFFICES ASSUME m < k PROVE FALSE
      BY <1>3
    <3>2. m \in 1 .. k - 1 /\ m \in 1 .. Len(t) /\ s[m] = t[m]
      BY <1>3, <3>1
    <3>3. t[m] < t[k]
      BY <3>1, <3>2
    <3> QED
      BY <2>1, <3>2, <3>3
  <2>3. k \in 1 .. n /\ s[k] \in S
    BY <1>3, <2>2
  <2>4. s[k] \in Nat /\ s[k] <= t[k]
    <3>1. s[k] \in Nat /\ s[m] \in Nat /\ s[m] = t[k]
      BY <1>3, <2>1, <2>3
    <3>2. k = m \/ s[k] < s[m]
      BY <1>3, <1>4, <2>1, <2>2, <2>3
    <3> QED
      BY <3>1, <3>2
  <2>5. CASE \E l \in 1 .. Len(t) : s[k] = t[l]
    <3> PICK l \in 1 .. Len(t) : s[k] = t[l]
      BY <2>5
    <3>1. CASE l < k
      <4>1. s[l] = t[l] /\ l \in 1 .. n
        BY <1>3, <3>1
      <4>2. s[l] < s[k]
        BY <1>4, <2>3, <3>1, <4>1
      <4> QED
        BY <2>3, <4>1, <4>2
    <3>2. CASE l > k
      BY <2>4, <3>2
    <3> QED
      BY <2>3, <3>1, <3>2
  <2>6. CASE \A l \in 1 .. Len(t) : t[l] < s[k]
    <3>1. t[k] < s[k] /\ t[k] \in Nat
      BY <2>6
    <3> QED
      BY <2>4, <3>1
  <2> QED
    BY <2>3, <2>5, <2>6
<1>6. \A k \in Nat : k \in T
  <2> SUFFICES ASSUME Nat \ T # {} PROVE FALSE
    OBVIOUS
  <2> HIDE DEF T
  <2> PICK x \in Nat \ T : \A y \in Nat \ T : x <= y
    BY LeastNat
  <2> QED
    BY <1>5
<1>7. \A k \in 1 .. Len(t) : k <= n /\ s[k] = t[k]
  BY <1>6
<1> HIDE DEF T
<1>8. Len(t) <= n
  BY <1>3, <1>7
<1> QED
  BY <1>3, <1>7, <1>8 DEF s

\* A sequence over a set is one over any larger set.
LEMMA SeqOfMore ==
    ASSUME NEW S, NEW T, S \subseteq T, NEW s \in Seq(S)
    PROVE  s \in Seq(T)
<1>1. Len(s) \in Nat /\ s \in [1 .. Len(s) -> S]
  OBVIOUS
<1>2. s \in [1 .. Len(s) -> T]
  BY <1>1
<1> QED
  BY <1>1, <1>2

(***************************************************************************)
(* Division                                                                *)
(***************************************************************************)

\* What a floored quotient is: the largest number of times o goes into a.
LEMMA FloorFacts ==
    ASSUME NEW a \in Nat, NEW o \in Nat \ {0}
    PROVE  /\ a \div o \in Nat
           /\ o * (a \div o) <= a
           /\ a < o * (a \div o) + o
<1>1. a \div o \in Int /\ o * (a \div o) <= a /\ a < o * (a \div o) + o
  BY Z3
<1>2. a \div o >= 0
  BY Z3
<1> QED
  BY <1>1, <1>2

\* Factors keep the order of two numbers.
LEMMA ProductOrder ==
    ASSUME NEW a \in Nat, NEW b \in Nat, NEW c \in Nat
    PROVE  /\ a * c \in Nat
           /\ a <= b => a * c <= b * c
           /\ c > 0 /\ a * c <= b * c => a <= b
<1>1. a * c \in Nat
  BY Z3
<1>2. a <= b => a * c <= b * c
  BY Z3
<1>3. c > 0 /\ a * c <= b * c => a <= b
  BY Z3
<1> QED
  BY <1>1, <1>2, <1>3

\* Flooring keeps the order of two fractions.
LEMMA FloorOrder ==
    ASSUME NEW a \in Nat, NEW b \in Nat, NEW o \in Nat \ {0}, NEW p \in Nat \ {0},
           a * p <= b * o
    PROVE  a \div o <= b \div p
<1> DEFINE q == a \div o
           r == b \div p
<1>1. q \in Nat /\ r \in Nat /\ o * q <= a /\ b < p * r + p
  BY FloorFacts
<1> HIDE DEF q, r
<1>2. SUFFICES ASSUME q >= r + 1 PROVE FALSE
  BY <1>1 DEF q, r
<1>3. o * q * p <= a * p
  BY <1>1, ProductOrder
<1>4. p * (r + 1) <= p * q
  BY <1>1, <1>2, ProductOrder
<1>5. p * (r + 1) = p * r + p
  BY <1>1, Z3
<1>6. b < p * q
  BY <1>1, <1>4, <1>5
<1>7. b * o < p * q * o
  BY <1>1, <1>6, Z3
<1>8. p * q * o = o * q * p
  BY <1>1, Z3
<1> QED
  BY <1>1, <1>3, <1>7, <1>8

(***************************************************************************)
(* Sums over finite sets                                                   *)
(***************************************************************************)

\* The recursion of a sum, over all parts of S.
Member(s) == CHOOSE x \in s : TRUE
Sums(w, S, f) ==
    f = [s \in SUBSET S |-> IF s = {} THEN 0 ELSE w[Member(s)] + f[s \ {Member(s)}]]
AllInts(w, S) == \A x \in S : w[x] \in Int
Tallies(w, S, f) == f \in [SUBSET S -> Int] /\ Sums(w, S, f)

Smaller(S, n) == {s \in SUBSET S : Cardinality(s) <= n}

LEMMA MemberFacts ==
    ASSUME NEW S, IsFiniteSet(S), NEW s \in SUBSET S
    PROVE  /\ IsFiniteSet(s) /\ Cardinality(s) \in Nat
           /\ s = {} <=> Cardinality(s) = 0
           /\ s # {} => Member(s) \in s
           /\ \A x \in s : /\ s \ {x} \in SUBSET S
                           /\ Cardinality(s \ {x}) = Cardinality(s) - 1
<1>1. IsFiniteSet(s)
  BY FS_Subset
<1>2. Cardinality(s) \in Nat
  BY <1>1, FS_CardinalityType
<1>3. s = {} <=> Cardinality(s) = 0
  BY <1>1, FS_EmptySet
<1>4. s # {} => Member(s) \in s
  BY DEF Member
<1>5. ASSUME NEW x \in s PROVE s \ {x} \in SUBSET S /\ Cardinality(s \ {x}) = Cardinality(s) - 1
  BY <1>1, FS_RemoveElement
<1> QED
  BY <1>1, <1>2, <1>3, <1>4, <1>5

\* A sum exists, and is a number.
LEMMA SumExists ==
    ASSUME NEW S, IsFiniteSet(S), NEW w, \A x \in S : w[x] \in Int
    PROVE  \E f \in [SUBSET S -> Int] : Sums(w, S, f)
<1> DEFINE Step(f, n) == \A s \in Smaller(S, n) :
                             f[s] = IF s = {} THEN 0 ELSE w[Member(s)] + f[s \ {Member(s)}]
           T == {n \in Nat : \E f \in [Smaller(S, n) -> Int] : Step(f, n)}
<1>0. \A s \in SUBSET S : Cardinality(s) \in Nat /\ (s = {} <=> Cardinality(s) = 0)
  BY MemberFacts
<1>1. 0 \in T
  <2> DEFINE f == [s \in Smaller(S, 0) |-> 0]
  <2>1. \A s \in Smaller(S, 0) : s = {}
    BY <1>0 DEF Smaller
  <2>2. f \in [Smaller(S, 0) -> Int] /\ Step(f, 0)
    BY <2>1
  <2> QED
    BY <2>2
<1>2. ASSUME NEW n \in Nat, n \in T PROVE n + 1 \in T
  <2> PICK f \in [Smaller(S, n) -> Int] : Step(f, n)
    BY <1>2
  <2> DEFINE value(s) == IF s = {} THEN 0 ELSE w[Member(s)] + f[s \ {Member(s)}]
             g == [s \in Smaller(S, n + 1) |-> value(s)]
  <2>1. ASSUME NEW s \in Smaller(S, n + 1), s # {}
        PROVE  s \ {Member(s)} \in Smaller(S, n) /\ Member(s) \in S
    <3>1. s \in SUBSET S /\ Cardinality(s) <= n + 1 /\ Member(s) \in s /\ Cardinality(s) \in Nat
      BY <2>1, MemberFacts DEF Smaller
    <3>2. s \ {Member(s)} \in SUBSET S /\ Cardinality(s \ {Member(s)}) = Cardinality(s) - 1
      BY <3>1, MemberFacts
    <3> QED
      BY <3>1, <3>2 DEF Smaller
  <2>2. \A s \in Smaller(S, n + 1) : value(s) \in Int
    BY <2>1
  <2>3. \A s \in Smaller(S, n) : s \in Smaller(S, n + 1)
    BY <1>0 DEF Smaller
  <2>4. \A s \in Smaller(S, n) : value(s) = f[s]
    OBVIOUS
  <2> HIDE DEF value
  <2>5. g \in [Smaller(S, n + 1) -> Int] /\ \A s \in Smaller(S, n) : g[s] = f[s]
    BY <2>2, <2>3, <2>4
  <2>6. \A s \in Smaller(S, n + 1) : g[s] = IF s = {} THEN 0 ELSE w[Member(s)] + g[s \ {Member(s)}]
    BY <2>1, <2>5 DEF value
  <2> HIDE DEF g
  <2>7. Step(g, n + 1)
    BY <2>6
  <2> HIDE DEF Step
  <2>8. n + 1 \in Nat /\ g \in [Smaller(S, n + 1) -> Int]
    BY <2>5
  <2> QED
    BY <2>7, <2>8
<1>3. Nat \subseteq T
  <2> HIDE DEF T
  <2> QED
    BY <1>1, <1>2, Induction
<1>4. Cardinality(S) \in T
  BY <1>0, <1>3
<1> PICK f \in [Smaller(S, Cardinality(S)) -> Int] : Step(f, Cardinality(S))
  BY <1>4
<1>5. Smaller(S, Cardinality(S)) = SUBSET S
  BY FS_Subset DEF Smaller
<1>6. f \in [SUBSET S -> Int]
  BY <1>5
<1>7. f = [s \in SUBSET S |-> f[s]]
  BY <1>6
<1>8. \A s \in SUBSET S : f[s] = IF s = {} THEN 0 ELSE w[Member(s)] + f[s \ {Member(s)}]
  BY <1>5
<1>9. Sums(w, S, f)
  BY <1>7, <1>8 DEF Sums
<1> QED
  BY <1>6, <1>9

\* It does not depend on what is outside, nor on how it was found.
LEMMA SumsAgree ==
    ASSUME NEW S, IsFiniteSet(S), NEW w, NEW f, Sums(w, S, f),
           NEW R, IsFiniteSet(R), NEW v, NEW g, Sums(v, R, g),
           NEW s \in SUBSET S, s \in SUBSET R, \A x \in s : w[x] = v[x]
    PROVE  f[s] = g[s]
<1> DEFINE T == {n \in Nat : \A r \in SUBSET s : Cardinality(r) <= n => f[r] = g[r]}
<1>0. /\ \A r \in SUBSET S : f[r] = IF r = {} THEN 0 ELSE w[Member(r)] + f[r \ {Member(r)}]
      /\ \A r \in SUBSET R : g[r] = IF r = {} THEN 0 ELSE v[Member(r)] + g[r \ {Member(r)}]
  BY DEF Sums
<1>1. 0 \in T
  <2> SUFFICES ASSUME NEW r \in SUBSET s, Cardinality(r) <= 0 PROVE f[r] = g[r]
    OBVIOUS
  <2>1. r = {}
    BY MemberFacts
  <2> QED
    BY <1>0, <2>1
<1>2. ASSUME NEW n \in Nat, n \in T PROVE n + 1 \in T
  <2> SUFFICES ASSUME NEW r \in SUBSET s, Cardinality(r) <= n + 1 PROVE f[r] = g[r]
    OBVIOUS
  <2>1. CASE r = {}
    BY <1>0, <2>1
  <2>2. CASE r # {}
    <3>1. Member(r) \in r /\ Cardinality(r) \in Nat /\ Cardinality(r \ {Member(r)}) = Cardinality(r) - 1
      BY <2>2, MemberFacts
    <3>2. r \ {Member(r)} \in SUBSET s /\ Cardinality(r \ {Member(r)}) <= n
      BY <3>1
    <3>3. f[r \ {Member(r)}] = g[r \ {Member(r)}]
      BY <1>2, <3>2
    <3>4. w[Member(r)] = v[Member(r)]
      BY <3>1
    <3>5. f[r] = w[Member(r)] + f[r \ {Member(r)}] /\ g[r] = v[Member(r)] + g[r \ {Member(r)}]
      BY <1>0, <2>2
    <3> QED
      BY <3>3, <3>4, <3>5
  <2> QED
    BY <2>1, <2>2
<1>3. Nat \subseteq T
  <2> HIDE DEF T
  <2> QED
    BY <1>1, <1>2, Induction
<1>4. Cardinality(s) \in Nat
  BY MemberFacts
<1>5. Cardinality(s) \in T
  BY <1>3, <1>4
<1> QED
  BY <1>4, <1>5

\* The order of the summands makes no difference.
LEMMA SumOfRest ==
    ASSUME NEW S, NEW w, NEW f, NEW s, NEW x, IsFiniteSet(S), AllInts(w, S), Tallies(w, S, f),
           s \in SUBSET S, x \in s
    PROVE  f[s] = w[x] + f[s \ {x}]
<1> DEFINE T == {n \in Nat : \A r \in SUBSET S : Cardinality(r) <= n =>
                                 \A y \in r : f[r] = w[y] + f[r \ {y}]}
<1>0. \A r \in SUBSET S : f[r] = IF r = {} THEN 0 ELSE w[Member(r)] + f[r \ {Member(r)}]
  BY DEF Tallies, Sums
<1>1. 0 \in T
  BY MemberFacts
<1>2. ASSUME NEW n \in Nat, n \in T PROVE n + 1 \in T
  <2> SUFFICES ASSUME NEW r \in SUBSET S, Cardinality(r) <= n + 1, NEW y \in r
               PROVE  f[r] = w[y] + f[r \ {y}]
    OBVIOUS
  <2> DEFINE z == Member(r)
             rest == (r \ {y}) \ {z}
  <2>1. /\ z \in r /\ Cardinality(r) \in Nat
        /\ r \ {z} \in SUBSET S /\ Cardinality(r \ {z}) = Cardinality(r) - 1
        /\ r \ {y} \in SUBSET S /\ Cardinality(r \ {y}) = Cardinality(r) - 1
    BY MemberFacts
  <2>2. f[r] = w[z] + f[r \ {z}]
    BY <1>0
  <2> HIDE DEF z
  <2>3. CASE y = z
    BY <2>2, <2>3
  <2>4. CASE y # z
    <3>1. rest = (r \ {z}) \ {y} /\ rest \in SUBSET S
      BY <2>1
    <3>2. f[r \ {z}] = w[y] + f[rest]
      <4>1. Cardinality(r \ {z}) <= n /\ y \in r \ {z}
        BY <2>1, <2>4
      <4>2. f[r \ {z}] = w[y] + f[(r \ {z}) \ {y}]
        BY <1>2, <2>1, <4>1
      <4> HIDE DEF rest
      <4> QED
        BY <3>1, <4>2
    <3>3. f[r \ {y}] = w[z] + f[rest]
      <4>1. Cardinality(r \ {y}) <= n /\ z \in r \ {y}
        BY <2>1, <2>4
      <4> QED
        BY <1>2, <2>1, <4>1
    <3>4. w[y] \in Int /\ w[z] \in Int /\ f[rest] \in Int
      BY <2>1, <3>1 DEF AllInts, Tallies
    <3> HIDE DEF rest
    <3> QED
      BY <2>2, <3>2, <3>3, <3>4
  <2> QED
    BY <2>3, <2>4
<1>3. Nat \subseteq T
  <2> HIDE DEF T
  <2> QED
    BY <1>1, <1>2, Induction
<1>4. Cardinality(s) \in Nat
  BY MemberFacts
<1>5. Cardinality(s) \in T
  BY <1>3, <1>4
<1> QED
  BY <1>4, <1>5

\* The total of w over S, as the fold of the community modules finds it.
Total(w, S) == MapThenFoldSet(+, 0, LAMBDA x : w[x], LAMBDA s : CHOOSE x \in s : TRUE, S)

LEMMA TotalIs ==
    ASSUME NEW S, IsFiniteSet(S), NEW w, \A x \in S : w[x] \in Int
    PROVE  \E f \in [SUBSET S -> Int] : Sums(w, S, f) /\ Total(w, S) = f[S]
<1> DEFINE g == CHOOSE f : Sums(w, S, f)
<1>1. Total(w, S) = g[S]
  BY DEF Total, MapThenFoldSet, Sums, Member
<1>2. PICK f \in [SUBSET S -> Int] : Sums(w, S, f)
  BY SumExists
<1>3. Sums(w, S, g)
  BY <1>2
<1> HIDE DEF g
<1>4. f[S] = g[S]
  BY <1>2, <1>3, SumsAgree
<1> QED
  BY <1>1, <1>2, <1>4

\* Only the summands count.
LEMMA TotalAgrees ==
    ASSUME NEW S, IsFiniteSet(S), NEW w, NEW v, \A x \in S : w[x] \in Int /\ w[x] = v[x]
    PROVE  Total(w, S) = Total(v, S)
<1> PICK f \in [SUBSET S -> Int] : Sums(w, S, f) /\ Total(w, S) = f[S]
  BY TotalIs
<1> PICK g \in [SUBSET S -> Int] : Sums(v, S, g) /\ Total(v, S) = g[S]
  BY TotalIs
<1>1. f[S] = g[S]
  BY SumsAgree
<1> QED
  BY <1>1

LEMMA TotalOfMore ==
    ASSUME NEW S, IsFiniteSet(S), NEW x, x \notin S, NEW w, \A y \in S \cup {x} : w[y] \in Int
    PROVE  /\ Total(w, S) \in Int
           /\ Total(w, S \cup {x}) = Total(w, S) + w[x]
<1> DEFINE more == S \cup {x}
<1>1. IsFiniteSet(more) /\ more \ {x} = S /\ S \in SUBSET more /\ x \in more
  BY FS_AddElement
<1> PICK f \in [SUBSET S -> Int] : Sums(w, S, f) /\ Total(w, S) = f[S]
  BY TotalIs
<1> PICK g \in [SUBSET more -> Int] : Sums(w, more, g) /\ Total(w, more) = g[more]
  BY <1>1, TotalIs
<1>2. f[S] = g[S]
  BY <1>1, SumsAgree
<1> HIDE DEF more
<1>3. \A y \in more : w[y] \in Int
  BY DEF more
<1>4. g[more] = w[x] + g[more \ {x}]
  <2>1. more \in SUBSET more /\ AllInts(w, more) /\ Tallies(w, more, g)
    BY <1>3 DEF AllInts, Tallies
  <2> QED
    BY <1>1, <2>1, SumOfRest
<1>5. g[more] = w[x] + f[S]
  BY <1>1, <1>2, <1>4, Zenon
<1>6. f[S] \in Int /\ w[x] \in Int
  BY <1>1, <1>3
<1>7. w[x] + f[S] = f[S] + w[x]
  BY <1>6
<1>8. Total(w, S) \in Int /\ Total(w, more) = Total(w, S) + w[x]
  BY <1>5, <1>6, <1>7, Zenon
<1> QED
  BY <1>8 DEF more

LEMMA TotalOfNone == ASSUME NEW w PROVE Total(w, {}) = 0
<1>1. IsFiniteSet({})
  BY FS_EmptySet
<1> PICK f \in [SUBSET {} -> Int] : Sums(w, {}, f) /\ Total(w, {}) = f[{}]
  BY <1>1, TotalIs
<1> QED
  BY DEF Sums

\* A total of the same numbers and one more.
Alike(w, v, S) == \A x \in S : w[x] = v[x]
With(S, x) == S \cup {x}
SumsWith(w, S, v, x) ==
    /\ Total(w, S) \in Int /\ Total(v, S) = Total(w, S)
    /\ Total(v, With(S, x)) = Total(w, S) + v[x]

LEMMA TotalOfNext ==
    ASSUME NEW S, NEW x, NEW w, NEW v, IsFiniteSet(S), x \notin S,
           AllInts(w, S), Alike(w, v, S), v[x] \in Int
    PROVE  SumsWith(w, S, v, x)
<1>1. \A y \in S : w[y] \in Int /\ w[y] = v[y]
  BY DEF AllInts, Alike
<1>2. Total(w, S) = Total(v, S)
  BY <1>1, TotalAgrees
<1>3. \A y \in S \cup {x} : v[y] \in Int
  BY <1>1
<1>4. Total(v, S) \in Int /\ Total(v, S \cup {x}) = Total(v, S) + v[x]
  BY <1>3, TotalOfMore
<1> QED
  BY <1>2, <1>4 DEF SumsWith, With
==============================================================================
