---------------------------- MODULE CommonProofs ----------------------------
(***************************************************************************)
(* Facts about numbers, sequences and sums that the proofs share.          *)
(***************************************************************************)
EXTENDS Integers, SequencesExt, FiniteSetTheorems, SequenceTheorems,
        WellFoundedInduction, NaturalsInduction, TLAPS

-----------------------------------------------------------------------------
(* Least and greatest elements *)

LtNat == {p \in Nat \X Nat : p[1] < p[2]}

\* The order of the naturals, written as a set of pairs, is well founded.
LEMMA LtNatWellFounded == IsWellFoundedOn(LtNat, Nat)
<1>1. LtNat = OpToRel(<, Nat)
  BY DEF OpToRel, LtNat
<1>2. QED
  BY <1>1, NatLessThanWellFounded

\* Every set of naturals has a least element.
LEMMA LeastNat ==
    ASSUME NEW S \in SUBSET Nat, S # {}
    PROVE  \E m \in S : \A n \in S : m <= n
<1>1. PICK x \in S : \A y \in S : ~(<<y, x>> \in LtNat)
  BY LtNatWellFounded, WFMin
<1>2. ASSUME NEW n \in S PROVE x <= n
  <2>1. ~(<<n, x>> \in LtNat)
    BY <1>1
  <2>2. n \in Nat /\ x \in Nat
    OBVIOUS
  <2>3. <<n, x>> \in Nat \X Nat
    BY <2>2
  <2>4. ~(n < x)
    BY <2>1, <2>3 DEF LtNat
  <2>5. QED
    BY <2>2, <2>4
<1>3. QED
  BY <1>2

\* A bounded set of naturals has a greatest element.
LEMMA GreatestNat ==
    ASSUME NEW S \in SUBSET Nat, S # {}, NEW b \in Nat, \A n \in S : n <= b
    PROVE  \E m \in S : \A n \in S : n <= m
<1> DEFINE T == {b - n : n \in S}
<1>1. T \in SUBSET Nat
  OBVIOUS
<1>2. T # {}
  OBVIOUS
<1>3. PICK m \in T : \A n \in T : m <= n
  BY <1>1, <1>2, LeastNat
<1>4. PICK s \in S : m = b - s
  OBVIOUS
<1>5. ASSUME NEW n \in S PROVE n <= s
  <2>1. m <= b - n
    BY <1>3
  <2>2. QED
    BY <2>1, <1>4
<1>6. QED
  BY <1>5

\* A finite set of naturals is bounded: the prefixes of an enumeration of it are,
\* or else there would be a shortest one that is not.
LEMMA FiniteBounded ==
    ASSUME NEW S \in SUBSET Nat, IsFiniteSet(S)
    PROVE  \E b \in Nat : \A n \in S : n <= b
<1>1. PICK n \in Nat : ExistsSurjection(1..n, S)
  BY FS_NatSurjection
<1>2. PICK f \in Surjection(1..n, S) : TRUE
  BY <1>1 DEF ExistsSurjection
<1>3. /\ f \in [1..n -> S]
      /\ \A s \in S : \E i \in 1..n : f[i] = s
  BY <1>2 DEF Surjection
<1> DEFINE Bounded(i) == \E b \in Nat : \A j \in 1..i : f[j] <= b
           Bad == {i \in 0..n : ~Bounded(i)}
<1>4. Bad = {}
  <2>1. SUFFICES ASSUME Bad # {} PROVE FALSE
    OBVIOUS
  <2>2. Bad \in SUBSET Nat
    OBVIOUS
  <2>3. PICK i \in Bad : \A j \in Bad : i <= j
    <3> HIDE DEF Bad
    <3>1. QED
      BY <2>1, <2>2, LeastNat
  <2>4. i \in 0..n /\ ~Bounded(i)
    BY <2>3
  <2>5. i # 0
    <3>1. Bounded(0)
      <4>1. \A j \in 1..0 : f[j] <= 0
        OBVIOUS
      <4>2. QED
        BY <4>1
    <3>2. QED
      BY <3>1, <2>4
  <2>6. Bounded(i - 1)
    <3>1. i - 1 \in 0..n /\ ~(i <= i - 1)
      BY <2>4, <2>5
    <3>2. QED
      BY <3>1, <2>3
  <2>7. PICK b \in Nat : \A j \in 1..(i - 1) : f[j] <= b
    BY <2>6
  <2> HIDE DEF Bad, Bounded
  <2>8. f[i] \in Nat
    <3>1. i \in 1..n
      BY <2>4, <2>5
    <3>2. QED
      BY <1>3, <3>1
  <2>9. \A j \in 1..i : f[j] <= b + f[i]
    <3>1. TAKE j \in 1..i
    <3>2. f[j] \in Nat
      <4>1. j \in 1..n
        BY <2>4
      <4>2. QED
        BY <1>3, <4>1
    <3>3. CASE j = i
      BY <3>3, <2>8
    <3>4. CASE j # i
      <4>1. j \in 1..(i - 1)
        BY <3>4, <2>4
      <4>2. QED
        BY <4>1, <2>7, <2>8, <3>2
    <3>5. QED
      BY <3>3, <3>4
  <2>10. b + f[i] \in Nat
    BY <2>8
  <2>11. Bounded(i)
    BY <2>9, <2>10 DEF Bounded
  <2>12. QED
    BY <2>4, <2>11
<1>5. n \notin Bad
  BY <1>4
<1>6. Bounded(n)
  BY <1>5
<1>7. QED
  BY <1>3, <1>6

\* Intervals of naturals grow with their end.
LEMMA IntervalGrows ==
    ASSUME NEW m \in Nat, NEW n \in Nat, n >= m
    PROVE  1..m \subseteq 1..n /\ 1..(m - 1) \subseteq 1..(n - 1)
  OBVIOUS

-----------------------------------------------------------------------------
(* Sequences *)

\* The elements of a sequence over S are in S.
LEMMA ElementsOf ==
    ASSUME NEW S, NEW s \in Seq(S), NEW i \in DOMAIN s
    PROVE  s[i] \in S
  OBVIOUS

\* A sequence with an element put before it.
LEMMA PrependOf ==
    ASSUME NEW S, NEW s \in Seq(S), NEW x \in S
    PROVE  /\ <<x>> \o s \in Seq(S)
           /\ Len(<<x>> \o s) = Len(s) + 1
           /\ <<x>> \o s # <<>>
           /\ Head(<<x>> \o s) = x
           /\ (<<x>> \o s)[1] = x
           /\ \A i \in 1..Len(s) : (<<x>> \o s)[i + 1] = s[i]
           /\ ToSet(<<x>> \o s) = {x} \cup ToSet(s)
<1>1. <<x>> \in Seq(S) /\ Len(<<x>>) = 1 /\ <<x>>[1] = x
  OBVIOUS
<1>2. /\ <<x>> \o s \in Seq(S)
      /\ Len(<<x>> \o s) = Len(s) + 1
      /\ \A i \in 1..(Len(s) + 1) : (<<x>> \o s)[i] = IF i = 1 THEN x ELSE s[i - 1]
  BY <1>1, ConcatProperties
<1>3. \A i \in 1..Len(s) : (<<x>> \o s)[i + 1] = s[i]
  BY <1>2
<1>4. ToSet(<<x>> \o s) = {x} \cup ToSet(s)
  <2>1. DOMAIN (<<x>> \o s) = 1..(Len(s) + 1) /\ DOMAIN s = 1..Len(s)
    BY <1>2
  <2>2. \A i \in DOMAIN (<<x>> \o s) : (<<x>> \o s)[i] \in {x} \cup ToSet(s)
    BY <2>1, <1>2 DEF ToSet
  <2>3. x \in ToSet(<<x>> \o s)
    BY <2>1, <1>2 DEF ToSet
  <2>4. \A i \in DOMAIN s : i + 1 \in DOMAIN (<<x>> \o s) /\ (<<x>> \o s)[i + 1] = s[i]
    BY <2>1, <1>3
  <2>5. QED
    BY <2>2, <2>3, <2>4 DEF ToSet
<1>5. QED
  BY <1>2, <1>3, <1>4

\* A sequence without its last element.
LEMMA FrontOf ==
    ASSUME NEW S, NEW s \in Seq(S), s # <<>>
    PROVE  /\ Front(s) \in Seq(S)
           /\ Len(Front(s)) = Len(s) - 1
           /\ \A i \in 1..(Len(s) - 1) : Front(s)[i] = s[i]
           /\ Len(s) \in Nat \ {0}
           /\ Last(s) = s[Len(s)] /\ Last(s) \in S
           /\ ToSet(s) = {Last(s)} \cup ToSet(Front(s))
<1>1. Len(s) \in Nat \ {0} /\ DOMAIN s = 1..Len(s)
  OBVIOUS
<1>2. /\ Front(s) \in Seq(S)
      /\ Len(Front(s)) = Len(s) - 1
      /\ \A i \in 1..(Len(s) - 1) : Front(s)[i] = s[i]
  BY <1>1, SubSeqProperties DEF Front
<1>3. Last(s) = s[Len(s)] /\ Last(s) \in S
  BY <1>1 DEF Last
<1>4. ToSet(s) = {Last(s)} \cup ToSet(Front(s))
  <2>1. DOMAIN Front(s) = 1..(Len(s) - 1)
    BY <1>1, <1>2
  <2>2. \A i \in DOMAIN s : i \in DOMAIN Front(s) \/ i = Len(s)
    BY <1>1, <2>1
  <2>3. \A i \in DOMAIN Front(s) : i \in DOMAIN s /\ Front(s)[i] = s[i]
    BY <1>1, <1>2, <2>1
  <2>4. Len(s) \in DOMAIN s
    BY <1>1
  <2>5. QED
    BY <2>2, <2>3, <2>4, <1>3 DEF ToSet
<1>5. QED
  BY <1>1, <1>2, <1>3, <1>4

-----------------------------------------------------------------------------
(* Induction and sums.  The induction theorems of the library take a         *)
(* predicate; here it is the set of the naturals that satisfy it.            *)

\* A set that has 0, and with each natural the next, has all naturals.
LEMMA InductionSet ==
    ASSUME NEW S, 0 \in S, \A n \in Nat : n \in S => n + 1 \in S
    PROVE  Nat \subseteq S
<1> DEFINE Bad == {n \in Nat : n \notin S}
<1>1. SUFFICES ASSUME Bad # {} PROVE FALSE
  OBVIOUS
<1>2. Bad \in SUBSET Nat
  OBVIOUS
<1>3. PICK n \in Bad : \A m \in Bad : n <= m
  <2> HIDE DEF Bad
  <2>1. QED
    BY <1>1, <1>2, LeastNat
<1>4. n \in Nat /\ n \notin S /\ n # 0
  OBVIOUS
<1>5. n - 1 \in Nat /\ n - 1 \notin Bad
  BY <1>3, <1>4
<1>6. n - 1 \in S
  BY <1>5
<1>7. (n - 1) + 1 \in S
  BY <1>5, <1>6
<1>8. QED
  BY <1>4, <1>7

\* f sums up the first elements of w.
IsSum(f, w) == f = [i \in 0..Len(w) |-> IF i = 0 THEN 0 ELSE f[i - 1] + w[i]]

\* Sums exist ...
LEMMA SumExists ==
    ASSUME NEW w \in Seq(Int)
    PROVE  \E f \in [0..Len(w) -> Int] : IsSum(f, w)
<1> DEFINE Body(f, i) == IF i = 0 THEN 0 ELSE f[i - 1] + w[i]
           Upto(n) == \E f \in [0..n -> Int] : \A i \in 0..n : f[i] = Body(f, i)
           S == {n \in Nat : n <= Len(w) => Upto(n)}
<1>1. 0 \in S
  <2> DEFINE f == [i \in 0..0 |-> 0]
  <2>1. f \in [0..0 -> Int] /\ \A i \in 0..0 : f[i] = Body(f, i)
    OBVIOUS
  <2>2. QED
    BY <2>1
<1>2. ASSUME NEW n \in Nat, n \in S PROVE n + 1 \in S
  <2>1. SUFFICES ASSUME n + 1 <= Len(w) PROVE Upto(n + 1)
    <3> HIDE DEF Upto
    <3>1. QED
      OBVIOUS
  <2>2. n <= Len(w) /\ n + 1 \in 1..Len(w)
    BY <2>1
  <2>3. Upto(n)
    <3> HIDE DEF Upto
    <3>1. QED
      BY <1>2, <2>2
  <2>4. PICK f \in [0..n -> Int] : \A i \in 0..n : f[i] = Body(f, i)
    BY <2>3
  <2>5. w[n + 1] \in Int
    BY <2>2
  <2> DEFINE g == [i \in 0..(n + 1) |-> IF i = n + 1 THEN f[n] + w[n + 1] ELSE f[i]]
  <2>6. g \in [0..(n + 1) -> Int]
    BY <2>5
  <2>7. ASSUME NEW i \in 0..(n + 1) PROVE g[i] = Body(g, i)
    <3>1. CASE i = n + 1
      BY <3>1
    <3>2. CASE i # n + 1
      <4>1. i \in 0..n
        BY <3>2
      <4>2. g[i] = f[i] /\ f[i] = Body(f, i)
        BY <2>4, <3>2, <4>1
      <4>3. i # 0 => g[i - 1] = f[i - 1]
        BY <4>1
      <4>4. QED
        BY <4>2, <4>3
    <3>3. QED
      BY <3>1, <3>2
  <2>8. QED
    BY <2>6, <2>7
<1>3. Nat \subseteq S
  <2> HIDE DEF S
  <2>1. QED
    BY <1>1, <1>2, InductionSet
<1>4. Len(w) \in Nat
  OBVIOUS
<1>5. Upto(Len(w))
  <2> HIDE DEF Upto
  <2>1. QED
    BY <1>3, <1>4
<1>6. PICK f \in [0..Len(w) -> Int] : \A i \in 0..Len(w) : f[i] = Body(f, i)
  BY <1>5
<1>7. IsSum(f, w)
  BY <1>6 DEF IsSum
<1>8. QED
  BY <1>7

\* ... and are unique.
LEMMA SumUnique ==
    ASSUME NEW w, Len(w) \in Nat, NEW f, NEW g, IsSum(f, w), IsSum(g, w)
    PROVE  f = g
<1> DEFINE S == {n \in Nat : n <= Len(w) => f[n] = g[n]}
<1>1. \A i \in 0..Len(w) : /\ f[i] = IF i = 0 THEN 0 ELSE f[i - 1] + w[i]
                           /\ g[i] = IF i = 0 THEN 0 ELSE g[i - 1] + w[i]
  BY DEF IsSum
<1>2. 0 \in S
  BY <1>1
<1>3. ASSUME NEW n \in Nat, n \in S PROVE n + 1 \in S
  <2>1. SUFFICES ASSUME n + 1 <= Len(w) PROVE f[n + 1] = g[n + 1]
    OBVIOUS
  <2>2. n + 1 \in 0..Len(w) /\ n + 1 # 0 /\ (n + 1) - 1 = n /\ n <= Len(w)
    BY <2>1
  <2>3. f[n] = g[n]
    BY <1>3, <2>2
  <2>4. QED
    BY <1>1, <2>2, <2>3
<1>4. Nat \subseteq S
  <2> HIDE DEF S
  <2>1. QED
    BY <1>2, <1>3, InductionSet
<1>5. \A n \in 0..Len(w) : f[n] = g[n]
  BY <1>4
<1>6. f = [i \in 0..Len(w) |-> f[i]] /\ g = [i \in 0..Len(w) |-> g[i]]
  BY DEF IsSum
<1>7. QED
  BY <1>5, <1>6

\* The sum of a sequence of integers.
Total(w) == (CHOOSE f : IsSum(f, w))[Len(w)]

\* Total is what any sum of the sequence ends with.
LEMMA TotalIs ==
    ASSUME NEW w \in Seq(Int), NEW f, IsSum(f, w)
    PROVE  Total(w) = f[Len(w)] /\ Total(w) \in Int
<1>1. PICK g \in [0..Len(w) -> Int] : IsSum(g, w)
  BY SumExists
<1>2. IsSum(CHOOSE h : IsSum(h, w), w)
  BY <1>1
<1>3. Len(w) \in Nat
  OBVIOUS
<1>4. (CHOOSE h : IsSum(h, w)) = g /\ f = g
  BY <1>1, <1>2, <1>3, SumUnique
<1>5. g[Len(w)] \in Int
  BY <1>3
<1>6. QED
  BY <1>4, <1>5 DEF Total

\* Of natural numbers none is above the total.
LEMMA TotalAbove ==
    ASSUME NEW w \in Seq(Nat)
    PROVE  \A j \in DOMAIN w : w[j] <= Total(w)
<1>1. w \in Seq(Int) /\ Len(w) \in Nat /\ \A j \in 1..Len(w) : w[j] \in Nat
  OBVIOUS
<1>2. PICK f \in [0..Len(w) -> Int] : IsSum(f, w)
  BY <1>1, SumExists
<1>3. Total(w) = f[Len(w)]
  BY <1>1, <1>2, TotalIs
<1> DEFINE Good == {n \in Nat : n <= Len(w) => f[n] \in Nat /\ \A j \in 1..n : w[j] <= f[n]}
<1>4. 0 \in Good
  <2>1. f[0] = 0
    BY <1>1, <1>2 DEF IsSum
  <2>2. QED
    BY <2>1
<1>5. ASSUME NEW n \in Nat, n \in Good PROVE n + 1 \in Good
  <2> SUFFICES ASSUME n + 1 <= Len(w)
               PROVE  f[n + 1] \in Nat /\ \A j \in 1..(n + 1) : w[j] <= f[n + 1]
    BY <1>1
  <2>1. n + 1 \in 0..Len(w) /\ n + 1 \in 1..Len(w) /\ n <= Len(w) /\ n + 1 # 0 /\ (n + 1) - 1 = n
    BY <1>1
  <2>2. f[n + 1] = f[n] + w[n + 1]
    BY <1>2, <2>1 DEF IsSum
  <2>3. f[n] \in Nat /\ w[n + 1] \in Nat /\ \A j \in 1..n : w[j] <= f[n]
    BY <1>1, <1>5, <2>1
  <2>4. ASSUME NEW j \in 1..(n + 1) PROVE w[j] <= f[n + 1]
    <3>1. CASE j = n + 1
      BY <2>2, <2>3, <3>1
    <3>2. CASE j \in 1..n
      <4>1. w[j] <= f[n] /\ w[j] \in Nat
        BY <1>1, <2>1, <2>3, <3>2
      <4>2. QED
        BY <2>2, <2>3, <4>1
    <3>3. QED
      BY <3>1, <3>2
  <2>5. QED
    BY <2>2, <2>3, <2>4
<1> HIDE DEF Good
<1>6. Len(w) \in Good
  BY <1>1, <1>4, <1>5, InductionSet
<1>7. QED
  BY <1>1, <1>3, <1>6 DEF Good

LEMMA TotalEmpty == Total(<<>>) = 0
<1> DEFINE f == [i \in 0..0 |-> 0]
<1>1. <<>> \in Seq(Int) /\ Len(<<>>) = 0
  OBVIOUS
<1>2. f = [i \in 0..0 |-> IF i = 0 THEN 0 ELSE f[i - 1] + (<<>>)[i]]
  OBVIOUS
<1>3. IsSum(f, <<>>)
  BY <1>1, <1>2 DEF IsSum
<1>4. Total(<<>>) = f[0]
  <2> HIDE DEF f
  <2>1. QED
    BY <1>1, <1>3, TotalIs
<1>5. QED
  BY <1>4

\* An element put before the others adds to the sum ...
LEMMA TotalPrepend ==
    ASSUME NEW w \in Seq(Int), NEW x \in Int
    PROVE  Total(<<x>> \o w) = x + Total(w)
<1>1. PICK f \in [0..Len(w) -> Int] : IsSum(f, w)
  BY SumExists
<1> DEFINE v == <<x>> \o w
           g == [i \in 0..(Len(w) + 1) |-> IF i = 0 THEN 0 ELSE x + f[i - 1]]
<1>2. /\ v \in Seq(Int) /\ Len(v) = Len(w) + 1 /\ v[1] = x /\ Len(w) \in Nat
      /\ \A i \in 1..Len(w) : v[i + 1] = w[i]
  BY PrependOf
<1>3. \A i \in 0..Len(w) : f[i] = IF i = 0 THEN 0 ELSE f[i - 1] + w[i]
  BY <1>1 DEF IsSum
<1>4. ASSUME NEW i \in 0..(Len(w) + 1)
      PROVE  g[i] = IF i = 0 THEN 0 ELSE g[i - 1] + v[i]
  <2> HIDE DEF v
  <2>1. CASE i = 0
    BY <2>1
  <2>2. CASE i = 1
    BY <1>2, <1>3, <2>2
  <2>3. CASE i # 0 /\ i # 1
    <3>1. i - 1 \in 1..Len(w) /\ i - 1 \in 0..Len(w) /\ (i - 1) + 1 = i /\ i - 1 # 0
          /\ i - 1 \in 0..(Len(w) + 1) /\ (i - 1) - 1 \in 0..Len(w)
      BY <1>2, <2>3
    <3>2. v[i] = w[i - 1] /\ w[i - 1] \in Int
      <4>1. v[(i - 1) + 1] = w[i - 1]
        BY <1>2, <3>1
      <4>2. w[i - 1] \in Int
        BY <3>1
      <4>3. QED
        BY <3>1, <4>1, <4>2
    <3>3. f[i - 1] = f[(i - 1) - 1] + w[i - 1]
      BY <1>3, <3>1
    <3>4. g[i] = x + f[i - 1] /\ g[i - 1] = x + f[(i - 1) - 1]
      BY <2>3, <3>1
    <3>5. f[i - 1] \in Int /\ f[(i - 1) - 1] \in Int
      BY <1>1, <3>1
    <3> HIDE DEF g
    <3>6. QED
      BY <2>3, <3>2, <3>3, <3>4, <3>5
  <2>4. QED
    BY <2>1, <2>2, <2>3
<1>5. IsSum(g, v)
  <2>1. g = [i \in 0..Len(v) |-> g[i]]
    BY <1>2
  <2> HIDE DEF g, v
  <2>2. QED
    BY <1>2, <1>4, <2>1 DEF IsSum
<1>6. Total(v) = g[Len(v)] /\ Total(w) = f[Len(w)]
  <2> HIDE DEF g, v
  <2>1. QED
    BY <1>1, <1>2, <1>5, TotalIs
<1>7. g[Len(v)] = x + f[Len(w)]
  <2>1. Len(w) + 1 \in 0..(Len(w) + 1) /\ Len(w) + 1 # 0 /\ (Len(w) + 1) - 1 = Len(w)
    BY <1>2
  <2>2. g[Len(w) + 1] = x + f[Len(w)]
    BY <2>1
  <2> HIDE DEF g, v
  <2>3. QED
    BY <1>2, <2>2
<1>8. QED
  BY <1>6, <1>7

\* ... and the last element has its share of it.
LEMMA TotalFront ==
    ASSUME NEW w \in Seq(Int), w # <<>>
    PROVE  Total(w) = Total(Front(w)) + Last(w)
<1>1. PICK f \in [0..Len(w) -> Int] : IsSum(f, w)
  BY SumExists
<1>2. /\ Front(w) \in Seq(Int) /\ Len(Front(w)) = Len(w) - 1
      /\ \A i \in 1..(Len(w) - 1) : Front(w)[i] = w[i]
      /\ Len(w) \in Nat \ {0} /\ Last(w) = w[Len(w)]
  BY FrontOf
<1>3. \A i \in 0..Len(w) : f[i] = IF i = 0 THEN 0 ELSE f[i - 1] + w[i]
  BY <1>1 DEF IsSum
<1> DEFINE g == [i \in 0..(Len(w) - 1) |-> f[i]]
<1>4. ASSUME NEW i \in 0..(Len(w) - 1)
      PROVE  g[i] = IF i = 0 THEN 0 ELSE g[i - 1] + Front(w)[i]
  <2>1. i \in 0..Len(w) /\ g[i] = f[i]
    BY <1>2
  <2>2. i # 0 => i \in 1..(Len(w) - 1) /\ g[i - 1] = f[i - 1]
    BY <1>2
  <2> HIDE DEF g
  <2>3. QED
    BY <1>2, <1>3, <2>1, <2>2
<1>5. IsSum(g, Front(w))
  <2>1. g = [i \in 0..Len(Front(w)) |-> g[i]]
    BY <1>2
  <2> HIDE DEF g
  <2>2. QED
    BY <1>2, <1>4, <2>1 DEF IsSum
<1>6. Total(Front(w)) = g[Len(w) - 1] /\ Total(w) = f[Len(w)]
  <2> HIDE DEF g
  <2>1. QED
    BY <1>1, <1>2, <1>5, TotalIs
<1>7. g[Len(w) - 1] = f[Len(w) - 1] /\ f[Len(w)] = f[Len(w) - 1] + w[Len(w)]
  BY <1>2, <1>3
<1>8. QED
  BY <1>2, <1>6, <1>7

\* The weights of the elements of s.
Weigh(weight, s) == [i \in 1..Len(s) |-> weight[s[i]]]

LEMMA WeighType ==
    ASSUME NEW S, NEW weight \in [S -> Int], NEW s \in Seq(S)
    PROVE  Weigh(weight, s) \in Seq(Int) /\ Len(Weigh(weight, s)) = Len(s)
<1>1. Len(s) \in Nat /\ \A i \in 1..Len(s) : s[i] \in S
  OBVIOUS
<1>2. Weigh(weight, s) \in [1..Len(s) -> Int]
  BY <1>1 DEF Weigh
<1>3. QED
  BY <1>1, <1>2

LEMMA WeighPrepend ==
    ASSUME NEW S, NEW weight \in [S -> Int], NEW s \in Seq(S), NEW x \in S
    PROVE  Total(Weigh(weight, <<x>> \o s)) = weight[x] + Total(Weigh(weight, s))
<1> DEFINE w == Weigh(weight, s)
           v == Weigh(weight, <<x>> \o s)
<1>1. /\ <<x>> \o s \in Seq(S) /\ Len(<<x>> \o s) = Len(s) + 1 /\ Len(s) \in Nat
      /\ (<<x>> \o s)[1] = x /\ \A i \in 1..Len(s) : (<<x>> \o s)[i + 1] = s[i]
  BY PrependOf
<1>2. w \in Seq(Int) /\ Len(w) = Len(s) /\ v \in Seq(Int) /\ Len(v) = Len(s) + 1
  BY <1>1, WeighType
<1>3. weight[x] \in Int
  OBVIOUS
<1>4. /\ <<weight[x]>> \o w \in Seq(Int) /\ Len(<<weight[x]>> \o w) = Len(s) + 1
      /\ (<<weight[x]>> \o w)[1] = weight[x]
      /\ \A i \in 1..Len(s) : (<<weight[x]>> \o w)[i + 1] = w[i]
  <2> HIDE DEF w
  <2>1. QED
    BY <1>2, <1>3, PrependOf
<1>5. ASSUME NEW i \in 1..(Len(s) + 1) PROVE v[i] = (<<weight[x]>> \o w)[i]
  <2>1. v[i] = weight[(<<x>> \o s)[i]]
    BY <1>1 DEF Weigh
  <2>2. CASE i = 1
    BY <1>1, <1>4, <2>1, <2>2
  <2>3. CASE i # 1
    <3>1. i - 1 \in 1..Len(s) /\ (i - 1) + 1 = i
      BY <1>1, <2>3
    <3>2. (<<x>> \o s)[i] = s[i - 1] /\ (<<weight[x]>> \o w)[i] = w[i - 1]
      <4> HIDE DEF w
      <4>1. QED
        BY <1>1, <1>4, <3>1
    <3>3. w[i - 1] = weight[s[i - 1]]
      BY <3>1 DEF Weigh
    <3>4. QED
      BY <2>1, <3>2, <3>3
  <2>4. QED
    BY <2>2, <2>3
<1> HIDE DEF v, w
<1>6. v = <<weight[x]>> \o w
  BY <1>2, <1>4, <1>5, SeqEqual
<1>7. Total(v) = weight[x] + Total(w)
  BY <1>2, <1>3, <1>6, TotalPrepend
<1>8. QED
  BY <1>7 DEF v, w

LEMMA WeighFront ==
    ASSUME NEW S, NEW weight \in [S -> Int], NEW s \in Seq(S), s # <<>>
    PROVE  Total(Weigh(weight, s)) = Total(Weigh(weight, Front(s))) + weight[Last(s)]
<1> DEFINE w == Weigh(weight, s)
           v == Weigh(weight, Front(s))
<1>1. /\ Front(s) \in Seq(S) /\ Len(Front(s)) = Len(s) - 1 /\ Len(s) \in Nat \ {0}
      /\ \A i \in 1..(Len(s) - 1) : Front(s)[i] = s[i]
      /\ Last(s) = s[Len(s)]
  BY FrontOf
<1>2. w \in Seq(Int) /\ Len(w) = Len(s) /\ v \in Seq(Int) /\ Len(v) = Len(s) - 1
  BY <1>1, WeighType
<1>3. w # <<>>
  <2> HIDE DEF w
  <2>1. QED
    BY <1>1, <1>2
<1>4. /\ Front(w) \in Seq(Int) /\ Len(Front(w)) = Len(s) - 1
      /\ \A i \in 1..(Len(s) - 1) : Front(w)[i] = w[i]
      /\ Last(w) = w[Len(s)]
  <2> HIDE DEF w
  <2>1. QED
    BY <1>2, <1>3, FrontOf
<1>5. Last(w) = weight[Last(s)]
  <2>1. w[Len(s)] = weight[s[Len(s)]]
    BY <1>1 DEF Weigh
  <2>2. QED
    BY <1>1, <1>4, <2>1
<1>6. ASSUME NEW i \in 1..(Len(s) - 1) PROVE v[i] = Front(w)[i]
  <2>1. v[i] = weight[Front(s)[i]] /\ w[i] = weight[s[i]]
    BY <1>1 DEF Weigh
  <2>2. QED
    BY <1>1, <1>4, <2>1
<1> HIDE DEF v, w
<1>7. v = Front(w)
  BY <1>2, <1>4, <1>6, SeqEqual
<1>8. Total(w) = Total(v) + weight[Last(s)]
  BY <1>2, <1>3, <1>5, <1>7, TotalFront
<1>9. QED
  BY <1>8 DEF v, w

\* A remainder is what is left in 0..(w - 1) after a multiple of w is taken away.
LEMMA Remainder ==
    ASSUME NEW a \in Int, NEW w \in Nat \ {0}, NEW q \in Int, NEW r \in 0..(w - 1),
           a = w * q + r
    PROVE  a % w = r
  OBVIOUS

\* Sums modulo w may be kept modulo w.
LEMMA AddModulo ==
    ASSUME NEW a \in Int, NEW b \in Int, NEW w \in Nat \ {0}
    PROVE  ((a % w) + b) % w = (a + b) % w
<1> DEFINE m == a % w
           q == a \div w
           p == (m + b) \div w
           r == (m + b) % w
<1>1. a = w * q + m /\ q \in Int /\ m \in Int
  OBVIOUS
<1> HIDE DEF m, q
<1>2. m + b = w * p + r /\ p \in Int /\ r \in 0..(w - 1)
  BY <1>1
<1> HIDE DEF p, r
<1>3. a + b = w * (q + p) + r
  BY <1>1, <1>2
<1>4. (a + b) % w = r
  <2>1. a + b \in Int /\ q + p \in Int
    BY <1>1, <1>2
  <2>2. QED
    BY <1>2, <1>3, <2>1, Remainder
<1>5. QED
  BY <1>4 DEF r, m

-----------------------------------------------------------------------------
(* Loops: functions that go on at another argument until one stops them.     *)

\* From each w of D that does not stop, the loop goes on at next[w], and m falls.
Loop(D, m, stop, next) ==
    m \in [D -> Nat] /\ \A w \in D \ stop : next[w] \in D /\ m[next[w]] < m[w]

\* What holds where a loop stops, and at w if it holds where it goes on from w, holds everywhere.
LEMMA LoopInduction ==
    ASSUME NEW D, NEW m, NEW stop, NEW next, Loop(D, m, stop, next),
           NEW P, \A w \in D \cap stop : w \in P, \A w \in D \ stop : next[w] \in P => w \in P
    PROVE  \A w \in D : w \in P
<1> DEFINE Good == {n \in Nat : \A w \in D : m[w] <= n => w \in P}
<1>1. \A w \in D : m[w] \in Nat
  BY DEF Loop
<1>2. ASSUME NEW n \in Nat, \A w \in D : m[w] < n => w \in P
      PROVE  n \in Good
  <2> SUFFICES ASSUME NEW w \in D, m[w] <= n PROVE w \in P
    OBVIOUS
  <2>1. CASE w \in stop
    BY <2>1
  <2>2. CASE w \notin stop
    <3>1. next[w] \in D /\ m[next[w]] < m[w]
      BY <2>2 DEF Loop
    <3>2. m[next[w]] < n
      BY <1>1, <3>1
    <3>3. QED
      BY <1>2, <2>2, <3>1, <3>2
  <2>3. QED
    BY <2>1, <2>2
<1>3. 0 \in Good
  BY <1>1, <1>2
<1>4. ASSUME NEW n \in Nat, n \in Good PROVE n + 1 \in Good
  <2>1. \A w \in D : m[w] < n + 1 => w \in P
    BY <1>1, <1>4
  <2> HIDE DEF Good
  <2>2. QED
    BY <1>2, <2>1
<1>5. Nat \subseteq Good
  <2> HIDE DEF Good
  <2>1. QED
    BY <1>3, <1>4, InductionSet
<1>6. QED
  BY <1>1, <1>5

\* Such a function exists.
LEMMA LoopExists ==
    ASSUME NEW D, NEW m, NEW stop, NEW next, Loop(D, m, stop, next), NEW val
    PROVE  \E g : g = [w \in D |-> IF w \in stop THEN val[w] ELSE g[next[w]]]
<1> DEFINE Body(g, w) == IF w \in stop THEN val[w] ELSE g[next[w]]
           E(n) == {w \in D : m[w] <= n}
           Good == {n \in Nat : \E g : \A w \in E(n) : g[w] = Body(g, w)}
           Some(w) == CHOOSE v : \E g : g[w] = v /\ \A x \in E(m[w]) : g[x] = Body(g, x)
<1>1. \A w \in D : m[w] \in Nat
  BY DEF Loop
<1>2. \A w \in D \ stop : next[w] \in D /\ m[next[w]] < m[w]
  BY DEF Loop
<1>3. 0 \in Good
  <2>1. \A w \in E(0) : w \in stop
    BY <1>1, <1>2
  <2> DEFINE h == [w \in E(0) |-> val[w]]
  <2>2. \A w \in E(0) : h[w] = Body(h, w)
    BY <2>1
  <2> HIDE DEF h, E, Body
  <2>3. \E g : \A w \in E(0) : g[w] = Body(g, w)
    BY <2>2
  <2>4. QED
    BY <2>3
<1>4. ASSUME NEW n \in Nat, n \in Good PROVE n + 1 \in Good
  <2>1. PICK g : \A w \in E(n) : g[w] = Body(g, w)
    BY <1>4
  <2> DEFINE h == [w \in E(n + 1) |-> Body(g, w)]
  <2>2. \A w \in E(n + 1) : h[w] = Body(g, w)
    OBVIOUS
  <2> HIDE DEF h
  <2>3. \A w \in E(n) : w \in E(n + 1)
    BY <1>1
  <2>4. \A w \in E(n + 1) : w \notin stop => next[w] \in E(n)
    BY <1>1, <1>2
  <2>5. \A w \in E(n) : h[w] = g[w]
    <3> HIDE DEF Body, E
    <3>1. QED
      BY <2>1, <2>2, <2>3
  <2>6. \A w \in E(n + 1) : Body(h, w) = Body(g, w)
    <3> HIDE DEF E
    <3>1. QED
      BY <2>4, <2>5
  <2> HIDE DEF Body, E
  <2>7. \A w \in E(n + 1) : h[w] = Body(h, w)
    BY <2>2, <2>6
  <2>8. \E f : \A w \in E(n + 1) : f[w] = Body(f, w)
    BY <2>7
  <2>9. QED
    BY <2>8
<1>5. Nat \subseteq Good
  <2> HIDE DEF Good
  <2>1. QED
    BY <1>3, <1>4, InductionSet
<1>6. ASSUME NEW n \in Nat, NEW f, NEW g, \A w \in E(n) : f[w] = Body(f, w),
             NEW k \in Nat, \A w \in E(k) : g[w] = Body(g, w)
      PROVE  \A w \in D : m[w] <= n /\ m[w] <= k => f[w] = g[w]
  <2> DEFINE P == {w \in D : m[w] <= n /\ m[w] <= k => f[w] = g[w]}
  <2>1. \A w \in D : m[w] <= n => f[w] = Body(f, w)
    BY <1>6
  <2>2. \A w \in D : m[w] <= k => g[w] = Body(g, w)
    BY <1>6
  <2>3. \A w \in D \cap stop : w \in P
    BY <2>1, <2>2
  <2>4. ASSUME NEW w \in D \ stop, next[w] \in P PROVE w \in P
    <3> SUFFICES ASSUME m[w] <= n, m[w] <= k PROVE f[w] = g[w]
      OBVIOUS
    <3>1. next[w] \in D /\ m[next[w]] < m[w] /\ m[w] \in Nat /\ m[next[w]] \in Nat
      BY <1>1, <1>2
    <3>2. m[next[w]] <= n /\ m[next[w]] <= k
      BY <3>1
    <3>3. f[next[w]] = g[next[w]]
      BY <2>4, <3>2
    <3>4. f[w] = f[next[w]] /\ g[w] = g[next[w]]
      BY <2>1, <2>2
    <3>5. QED
      BY <3>3, <3>4
  <2> HIDE DEF P
  <2>5. \A w \in D : w \in P
    BY <2>3, <2>4, LoopInduction
  <2>6. QED
    BY <2>5 DEF P
<1>7. ASSUME NEW w \in D
      PROVE  \E g : g[w] = Some(w) /\ \A x \in E(m[w]) : g[x] = Body(g, x)
  <2>1. \E g : \A x \in E(m[w]) : g[x] = Body(g, x)
    BY <1>1, <1>5
  <2> HIDE DEF Body, E
  <2>2. \E v : \E g : g[w] = v /\ \A x \in E(m[w]) : g[x] = Body(g, x)
    BY <2>1
  <2>3. QED
    BY <2>2
<1> DEFINE h == [w \in D |-> Some(w)]
<1>8. \A w \in D : h[w] = Some(w)
  OBVIOUS
<1>9. h = [w \in D |-> h[w]]
  OBVIOUS
<1> HIDE DEF h, Some
<1>10. ASSUME NEW w \in D PROVE h[w] = Body(h, w)
  <2>1. PICK g : g[w] = Some(w) /\ \A x \in E(m[w]) : g[x] = Body(g, x)
    BY <1>7
  <2>2. w \in E(m[w])
    BY <1>1
  <2>3. h[w] = Body(g, w)
    BY <1>8, <2>1, <2>2
  <2>4. CASE w \in stop
    BY <2>3, <2>4
  <2>5. CASE w \notin stop
    <3> DEFINE x == next[w]
    <3>1. x \in D /\ m[x] < m[w] /\ m[x] \in Nat /\ m[w] \in Nat
      BY <1>1, <1>2, <2>5
    <3>2. PICK f : f[x] = Some(x) /\ \A y \in E(m[x]) : f[y] = Body(f, y)
      BY <1>7, <3>1
    <3>3. f[x] = g[x]
      <4> HIDE DEF x, E, Body
      <4>1. \A y \in D : m[y] <= m[x] /\ m[y] <= m[w] => f[y] = g[y]
        BY <1>6, <2>1, <3>1, <3>2
      <4>2. QED
        BY <3>1, <4>1
    <3>4. h[x] = g[x]
      BY <1>8, <3>1, <3>2, <3>3
    <3>5. QED
      BY <2>3, <2>5, <3>4
  <2>6. QED
    BY <2>4, <2>5
<1>11. h = [w \in D |-> Body(h, w)]
  <2> HIDE DEF Body
  <2>1. QED
    BY <1>9, <1>10
<1>12. QED
  BY <1>11
=============================================================================
