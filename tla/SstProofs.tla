----------------------------- MODULE SstProofs ------------------------------
(***************************************************************************)
(* Theorems about Sst.tla and Block.tla: for every set of keys, every      *)
(* range of offsets and every size of a block, what a file was built from  *)
(* is what is read back from it, and the searches of a block and of the    *)
(* file are exact.                                                         *)
(***************************************************************************)
EXTENDS SstProps, CommonProofs

-----------------------------------------------------------------------------
(* Loops over the places of a block *)

LEMMA Middle ==
    ASSUME NEW l \in Int, NEW r \in Int, l < r
    PROVE  /\ (l + r) \div 2 \in l..(r - 1)
           /\ (l + r + 1) \div 2 \in (l + 1)..r
           /\ l + (r - l) \div 2 \in l..r
OBVIOUS

LEMMA ScanToIs ==
    ASSUME NEW n \in Nat, NEW i \in 0..n, NEW S
    PROVE  LET r == ScanTo(i, n, S)
           IN  r \in i..n /\ (r = n \/ r \in S) /\ \A j \in i..(r - 1) : j \notin S
<1> DEFINE D == 0..n
           stop == {j \in D : j = n \/ j \in S}
           next == [j \in D |-> j + 1]
           val == [j \in D |-> j]
           m == [j \in D |-> n - j]
           Is(f) == f = [j \in D |-> IF j = n \/ j \in S THEN j ELSE f[j + 1]]
           f == CHOOSE g : Is(g)
           Post(j, r) == r \in j..n /\ (r = n \/ r \in S) /\ \A x \in j..(r - 1) : x \notin S
           P == {j \in D : Post(j, f[j])}
<1>1. Loop(D, m, stop, next)
  BY DEF Loop
<1>2. PICK g : g = [w \in D |-> IF w \in stop THEN val[w] ELSE g[next[w]]]
  <2> HIDE DEF D, m, stop, next, val
  <2>1. QED
    BY <1>1, LoopExists
<1>3. \A w \in D : (IF w \in stop THEN val[w] ELSE g[next[w]])
                     = IF w = n \/ w \in S THEN w ELSE g[w + 1]
  OBVIOUS
<1>4. Is(g)
  <2> HIDE DEF D, stop, next, val
  <2>1. QED
    BY <1>2, <1>3
<1>5. Is(f)
  <2> HIDE DEF Is
  <2>1. QED
    BY <1>4
<1>6. ScanTo(i, n, S) = f[i]
  BY DEF ScanTo
<1>7. \A j \in D : f[j] = IF j = n \/ j \in S THEN j ELSE f[j + 1]
  <2> HIDE DEF f
  <2>1. QED
    BY <1>5
<1> HIDE DEF f, Is
<1>8. \A w \in D \cap stop : w \in P
  BY <1>7
<1>9. ASSUME NEW w \in D \ stop, next[w] \in P PROVE w \in P
  <2>1. w + 1 \in D /\ Post(w + 1, f[w + 1]) /\ w \notin S /\ w \in Nat
    BY <1>9
  <2>2. f[w] = f[w + 1]
    BY <1>7
  <2> DEFINE r == f[w]
  <2> HIDE DEF r
  <2>3. Post(w + 1, r)
    BY <2>1, <2>2 DEF r
  <2>4. Post(w, r)
    BY <2>1, <2>3
  <2>5. QED
    BY <2>4 DEF r
<1>10. \A w \in D : w \in P
  <2> HIDE DEF D, P, m, stop, next
  <2>1. QED
    BY <1>1, <1>8, <1>9, LoopInduction
<1>11. QED
  BY <1>6, <1>10

LEMMA ScanBackIs ==
    ASSUME NEW n \in Nat, NEW i \in 0..n, NEW S
    PROVE  LET r == ScanBack(i, n, S)
           IN  r \in 0..i /\ (r = 0 \/ r - 1 \notin S) /\ \A j \in r..(i - 1) : j \in S
<1> DEFINE D == 0..n
           stop == {j \in D : ~(j > 0 /\ j - 1 \in S)}
           next == [j \in D |-> j - 1]
           val == [j \in D |-> j]
           m == [j \in D |-> j]
           Is(f) == f = [j \in D |-> IF j > 0 /\ j - 1 \in S THEN f[j - 1] ELSE j]
           f == CHOOSE g : Is(g)
           Post(j, r) == r \in 0..j /\ (r = 0 \/ r - 1 \notin S) /\ \A x \in r..(j - 1) : x \in S
           P == {j \in D : Post(j, f[j])}
<1>1. Loop(D, m, stop, next)
  BY DEF Loop
<1>2. PICK g : g = [w \in D |-> IF w \in stop THEN val[w] ELSE g[next[w]]]
  <2> HIDE DEF D, m, stop, next, val
  <2>1. QED
    BY <1>1, LoopExists
<1>3. \A w \in D : (IF w \in stop THEN val[w] ELSE g[next[w]])
                     = IF w > 0 /\ w - 1 \in S THEN g[w - 1] ELSE w
  OBVIOUS
<1>4. Is(g)
  <2> HIDE DEF D, stop, next, val
  <2>1. QED
    BY <1>2, <1>3
<1>5. Is(f)
  <2> HIDE DEF Is
  <2>1. QED
    BY <1>4
<1>6. ScanBack(i, n, S) = f[i]
  BY DEF ScanBack
<1>7. \A j \in D : f[j] = IF j > 0 /\ j - 1 \in S THEN f[j - 1] ELSE j
  <2> HIDE DEF f
  <2>1. QED
    BY <1>5
<1> HIDE DEF f, Is
<1>8. ASSUME NEW w \in D \cap stop PROVE w \in P
  <2>1. f[w] = w /\ (w = 0 \/ w - 1 \notin S) /\ w \in Nat
    BY <1>7
  <2>2. QED
    BY <2>1
<1>9. ASSUME NEW w \in D \ stop, next[w] \in P PROVE w \in P
  <2>1. w - 1 \in D /\ Post(w - 1, f[w - 1]) /\ w - 1 \in S /\ w \in Nat
    BY <1>9
  <2>2. f[w] = f[w - 1]
    BY <1>7
  <2> DEFINE r == f[w]
  <2> HIDE DEF r
  <2>3. Post(w - 1, r)
    BY <2>1, <2>2 DEF r
  <2>4. Post(w, r)
    BY <2>1, <2>3
  <2>5. QED
    BY <2>4 DEF r
<1>10. \A w \in D : w \in P
  <2> HIDE DEF D, P, m, stop, next
  <2>1. QED
    BY <1>1, <1>8, <1>9, LoopInduction
<1>11. QED
  BY <1>6, <1>10

-----------------------------------------------------------------------------
(* The search by key and id in a block *)

\* A block whose offsets have not wrapped, with its entries in order.
GoodBlock(b) ==
    /\ b.data \in Seq(Entries) /\ Len(b.data) \in 1..(OffsetRange - 1)
    /\ b.offsets = [i \in 1..Len(b.data) |-> i - 1]
    /\ \A i, j \in 1..Len(b.data) : i < j => Before(b.data[i], b.data[j])

LEMMA EntriesOf ==
    ASSUME NEW b, GoodBlock(b)
    PROVE  /\ NumEntries(b) = Len(b.data) /\ NumEntries(b) \in Nat \ {0}
           /\ \A i \in Indices(b) : /\ i + 1 \in 1..Len(b.data) /\ EntryAt(b, i) = b.data[i + 1]
                                    /\ EntryAt(b, i) \in Entries /\ EntryAt(b, i).key \in Keys
                                    /\ EntryAt(b, i).key \in Int /\ EntryAt(b, i).tranc_id \in Nat \ {0}
           /\ \A i, j \in Indices(b) : i < j => Before(EntryAt(b, i), EntryAt(b, j))
           /\ \A i, j \in Indices(b) : i <= j => EntryAt(b, i).key <= EntryAt(b, j).key
           /\ \A i, j \in Indices(b) : i < j /\ EntryAt(b, i).key = EntryAt(b, j).key =>
                 EntryAt(b, j).tranc_id < EntryAt(b, i).tranc_id
<1> DEFINE n == Len(b.data)
<1>1. n \in Nat \ {0} /\ b.data \in Seq(Entries)
  BY OffsetAssumption DEF GoodBlock
<1>2. Len(b.offsets) = n
  <2>1. b.offsets = [i \in 1..n |-> i - 1]
    BY DEF GoodBlock
  <2>2. b.offsets \in [1..n -> Int]
    BY <1>1, <2>1
  <2>3. QED
    BY <1>1, <2>2
<1>3. NumEntries(b) = n /\ Indices(b) = 0..(n - 1)
  BY <1>2 DEF NumEntries, Indices
<1>4. ASSUME NEW i \in Indices(b)
      PROVE  i + 1 \in 1..n /\ EntryAt(b, i) = b.data[i + 1] /\ EntryAt(b, i) \in Entries
  <2>1. i + 1 \in 1..n /\ i \in Nat
    BY <1>1, <1>3
  <2>2. b.offsets[i + 1] = (i + 1) - 1
    BY <2>1 DEF GoodBlock
  <2>3. b.offsets[i + 1] + 1 = i + 1
    BY <2>1, <2>2
  <2>4. EntryAt(b, i) = b.data[i + 1]
    BY <2>3 DEF EntryAt
  <2>5. b.data[i + 1] \in Entries
    BY <1>1, <2>1, ElementsOf
  <2>6. QED
    BY <2>1, <2>4, <2>5
<1>5. \A e \in Entries : e.key \in Keys /\ e.key \in Int /\ e.tranc_id \in Nat \ {0}
  <2>1. \A e \in Entries : e.key \in Keys /\ e.tranc_id \in 1..MaxId
    BY DEF Entries
  <2>2. Keys \subseteq Int /\ 1..MaxId \subseteq Nat \ {0}
    BY KeysAssumption, MaxIdAssumption
  <2>3. QED
    BY <2>1, <2>2
<1>6. ASSUME NEW i \in Indices(b), NEW j \in Indices(b), i < j
      PROVE  Before(EntryAt(b, i), EntryAt(b, j))
  <2>1. i + 1 \in 1..n /\ j + 1 \in 1..n /\ i + 1 < j + 1
    BY <1>3, <1>4, <1>6
  <2>2. Before(b.data[i + 1], b.data[j + 1])
    BY <2>1 DEF GoodBlock
  <2>3. QED
    BY <1>4, <2>2
<1>7. \A i, j \in Indices(b) : i < j => EntryAt(b, i).key <= EntryAt(b, j).key
  BY <1>4, <1>5, <1>6 DEF Before
<1>8. \A i, j \in Indices(b) : i <= j => EntryAt(b, i).key <= EntryAt(b, j).key
  <2> SUFFICES ASSUME NEW i \in Indices(b), NEW j \in Indices(b), i <= j
               PROVE  EntryAt(b, i).key <= EntryAt(b, j).key
    OBVIOUS
  <2>1. i = j \/ i < j
    BY <1>3
  <2>2. EntryAt(b, i).key \in Int
    BY <1>4, <1>5
  <2>3. QED
    BY <1>7, <2>1, <2>2
<1>9. \A i, j \in Indices(b) : i < j /\ EntryAt(b, i).key = EntryAt(b, j).key =>
         EntryAt(b, j).tranc_id < EntryAt(b, i).tranc_id
  <2> SUFFICES ASSUME NEW i \in Indices(b), NEW j \in Indices(b), i < j,
                      EntryAt(b, i).key = EntryAt(b, j).key
               PROVE  EntryAt(b, j).tranc_id < EntryAt(b, i).tranc_id
    OBVIOUS
  <2>1. Before(EntryAt(b, i), EntryAt(b, j))
    BY <1>6
  <2>2. EntryAt(b, i) \in Entries /\ EntryAt(b, j) \in Entries
    BY <1>4
  <2>3. EntryAt(b, i).key \in Int /\ EntryAt(b, i).tranc_id \in Nat /\ EntryAt(b, j).tranc_id \in Nat
    BY <1>5, <2>2
  <2>4. QED
    BY <2>1, <2>3 DEF Before
<1>10. QED
  BY <1>1, <1>3, <1>4, <1>5, <1>6, <1>8, <1>9

LEMMA LeastIs ==
    ASSUME NEW S \in SUBSET Int, NEW r \in S, \A x \in S : r <= x
    PROVE  Least(S) = r
<1>1. \A x \in S : (\A y \in S : x <= y) => x = r
  <2> SUFFICES ASSUME NEW x \in S, \A y \in S : x <= y PROVE x = r
    OBVIOUS
  <2>1. x <= r /\ r <= x /\ x \in Int /\ r \in Int
    OBVIOUS
  <2>2. QED
    BY <2>1
<1>2. Least(S) \in S /\ \A y \in S : Least(S) <= y
  BY DEF Least
<1>3. QED
  BY <1>1, <1>2

LEMMA GreatestIs ==
    ASSUME NEW S \in SUBSET Int, NEW r \in S, \A x \in S : x <= r
    PROVE  Greatest(S) = r
<1>1. \A x \in S : (\A y \in S : y <= x) => x = r
  <2> SUFFICES ASSUME NEW x \in S, \A y \in S : y <= x PROVE x = r
    OBVIOUS
  <2>1. x <= r /\ r <= x /\ x \in Int /\ r \in Int
    OBVIOUS
  <2>2. QED
    BY <2>1
<1>2. Greatest(S) \in S /\ \A y \in S : y <= Greatest(S)
  BY DEF Greatest
<1>3. QED
  BY <1>1, <1>2

Hits(b, key, id) == {i \in Indices(b) : AtOrAfter(EntryAt(b, i), key, id)}

\* Where an entry is at the target or behind it, so are all that follow.
LEMMA HitsUp ==
    ASSUME NEW b, GoodBlock(b), NEW key \in Keys, NEW id \in Nat
    PROVE  \A i, j \in Indices(b) : i < j /\ i \in Hits(b, key, id) => j \in Hits(b, key, id)
<1> SUFFICES ASSUME NEW i \in Indices(b), NEW j \in Indices(b), i < j, i \in Hits(b, key, id)
             PROVE  j \in Hits(b, key, id)
  OBVIOUS
<1>1. EntryAt(b, i) \in Entries /\ EntryAt(b, j) \in Entries /\ Before(EntryAt(b, i), EntryAt(b, j))
  BY EntriesOf
<1>2. /\ EntryAt(b, i).key \in Int /\ EntryAt(b, j).key \in Int
      /\ EntryAt(b, i).tranc_id \in Nat /\ EntryAt(b, j).tranc_id \in Nat
  BY EntriesOf
<1>3. key \in Int
  BY KeysAssumption
<1>4. AtOrAfter(EntryAt(b, i), key, id)
  BY DEF Hits
<1>5. AtOrAfter(EntryAt(b, j), key, id)
  BY <1>1, <1>2, <1>3, <1>4 DEF AtOrAfter, Before
<1>6. QED
  BY <1>5 DEF Hits

\* The binary search ends at the first entry at the target or behind it, or else at the last one.
LEMMA BisectIs ==
    ASSUME NEW b, GoodBlock(b), NEW key \in Keys, NEW id \in Nat
    PROVE  LET r == Bisect(b, key, id)
           IN  /\ r \in Indices(b) /\ (r \in Hits(b, key, id) \/ r = NumEntries(b) - 1)
               /\ \A j \in Indices(b) : j < r => j \notin Hits(b, key, id)
<1> DEFINE n == NumEntries(b)
           H == Hits(b, key, id)
           D == (0..n) \X (0..n)
           mid(w) == (w[1] + w[2]) \div 2
           stop == {w \in D : w[1] >= w[2]}
           next == [w \in D |-> IF AtOrAfter(EntryAt(b, mid(w)), key, id) THEN <<w[1], mid(w)>>
                                ELSE <<mid(w) + 1, w[2]>>]
           val == [w \in D |-> w[1]]
           m == [w \in D |-> IF w[1] < w[2] THEN w[2] - w[1] ELSE 0]
           Is(f) == f = [w \in D |->
                            LET x == (w[1] + w[2]) \div 2
                            IN  IF w[1] >= w[2] THEN w[1]
                                ELSE IF AtOrAfter(EntryAt(b, x), key, id) THEN f[<<w[1], x>>]
                                ELSE f[<<x + 1, w[2]>>]]
           f == CHOOSE g : Is(g)
           Post(l, r, v) == /\ v \in l..r /\ (v = r \/ v \in H)
                            /\ \A x \in l..(v - 1) : x \notin H
           P == {w \in D : w[1] <= w[2] /\ w[2] <= n - 1 => Post(w[1], w[2], f[w])}
<1>1. n \in Nat \ {0} /\ Indices(b) = 0..(n - 1)
  BY EntriesOf DEF Indices
<1>2. \A w \in D : w = <<w[1], w[2]>> /\ w[1] \in 0..n /\ w[2] \in 0..n
  OBVIOUS
<1>3. \A w \in D : w[1] < w[2] => mid(w) \in w[1]..(w[2] - 1)
  BY <1>1, <1>2, Middle
<1>4. \A w \in D \ stop : next[w] \in D /\ w[1] < w[2] /\ w[1] <= mid(w) /\ mid(w) < w[2]
  <2> SUFFICES ASSUME NEW w \in D, w[1] < w[2]
               PROVE  next[w] \in D /\ w[1] <= mid(w) /\ mid(w) < w[2]
    BY <1>1, <1>2
  <2>1. mid(w) \in w[1]..(w[2] - 1)
    BY <1>3
  <2>2. mid(w) \in 0..n /\ mid(w) + 1 \in 0..n
    BY <1>1, <1>2, <2>1
  <2> HIDE DEF mid
  <2>3. <<w[1], mid(w)>> \in D /\ <<mid(w) + 1, w[2]>> \in D
    BY <1>2, <2>2
  <2>4. QED
    BY <1>2, <2>1, <2>3
<1>5. Loop(D, m, stop, next)
  <2>1. m \in [D -> Nat]
    BY <1>1, <1>2
  <2>2. ASSUME NEW w \in D \ stop PROVE m[next[w]] < m[w]
    <3>1. w[1] < w[2] /\ w[1] <= mid(w) /\ mid(w) < w[2] /\ next[w] \in D
      BY <1>4
    <3>2. w[1] \in Nat /\ w[2] \in Nat /\ mid(w) \in Int
      BY <1>2, <1>3, <3>1
    <3>3. m[w] = w[2] - w[1]
      BY <3>1
    <3> HIDE DEF mid
    <3>4. m[next[w]] = IF next[w][1] < next[w][2] THEN next[w][2] - next[w][1] ELSE 0
      BY <3>1
    <3>5. next[w] = <<w[1], mid(w)>> \/ next[w] = <<mid(w) + 1, w[2]>>
      OBVIOUS
    <3> HIDE DEF next, m, D
    <3>6. CASE next[w] = <<w[1], mid(w)>>
      BY <3>1, <3>2, <3>3, <3>4, <3>6
    <3>7. CASE next[w] = <<mid(w) + 1, w[2]>>
      BY <3>1, <3>2, <3>3, <3>4, <3>7
    <3>8. QED
      BY <3>5, <3>6, <3>7
  <2>3. QED
    BY <1>4, <2>1, <2>2 DEF Loop
<1>6. PICK g : g = [w \in D |-> IF w \in stop THEN val[w] ELSE g[next[w]]]
  <2> HIDE DEF D, m, stop, next, val
  <2>1. QED
    BY <1>5, LoopExists
<1>7. \A w \in D : (IF w \in stop THEN val[w] ELSE g[next[w]])
                     = LET x == (w[1] + w[2]) \div 2
                       IN  IF w[1] >= w[2] THEN w[1]
                           ELSE IF AtOrAfter(EntryAt(b, x), key, id) THEN g[<<w[1], x>>]
                           ELSE g[<<x + 1, w[2]>>]
  OBVIOUS
<1>8. Is(g)
  <2> HIDE DEF D, stop, next, val
  <2>1. QED
    BY <1>6, <1>7
<1>9. Is(f)
  <2> HIDE DEF Is
  <2>1. QED
    BY <1>8
<1>10. Bisect(b, key, id) = f[<<0, n - 1>>]
  BY DEF Bisect
<1>11. \A w \in D : f[w] = IF w[1] >= w[2] THEN w[1]
                           ELSE IF AtOrAfter(EntryAt(b, mid(w)), key, id) THEN f[<<w[1], mid(w)>>]
                           ELSE f[<<mid(w) + 1, w[2]>>]
  <2> HIDE DEF f
  <2>1. QED
    BY <1>9
<1> HIDE DEF f, Is
<1>12. ASSUME NEW w \in D \cap stop PROVE w \in P
  <2>1. w \in D /\ w[1] >= w[2] /\ w[1] \in Nat /\ w[2] \in Nat
    BY <1>2
  <2>2. f[w] = w[1]
    <3> HIDE DEF mid, D
    <3>1. QED
      BY <1>11, <2>1
  <2>3. QED
    BY <2>1, <2>2
<1>13. ASSUME NEW w \in D \ stop, next[w] \in P PROVE w \in P
  <2> DEFINE c == mid(w)
             l == w[1]
             r == w[2]
             v == f[w]
  <2>1. l < r /\ l <= c /\ c < r /\ l \in Nat /\ r \in Nat /\ c \in Nat
    BY <1>2, <1>3, <1>4
  <2> SUFFICES ASSUME r <= n - 1 PROVE Post(l, r, v)
    OBVIOUS
  <2>2. c \in Indices(b)
    BY <1>1, <2>1
  <2>3. AtOrAfter(EntryAt(b, c), key, id) <=> c \in H
    BY <2>2 DEF Hits
  <2>4. CASE c \in H
    <3>1. next[w] = <<l, c>> /\ v = f[<<l, c>>]
      BY <1>11, <2>1, <2>3, <2>4
    <3> HIDE DEF c, l, r, v, next, H, D
    <3>2. Post(l, c, f[<<l, c>>])
      BY <1>1, <1>13, <2>1, <3>1
    <3>3. QED
      BY <2>1, <2>4, <3>1, <3>2
  <2>5. CASE c \notin H
    <3>1. next[w] = <<c + 1, r>> /\ v = f[<<c + 1, r>>]
      BY <1>11, <2>1, <2>3, <2>5
    <3>2. \A x \in l..c : x \notin H
      <4>1. \A x \in l..c : x \in Indices(b) /\ (x = c \/ x < c)
        BY <1>1, <2>1, <2>2
      <4>2. QED
        BY <2>2, <2>5, <4>1, HitsUp
    <3> HIDE DEF c, l, r, v, next, H, D
    <3>3. Post(c + 1, r, f[<<c + 1, r>>])
      BY <1>1, <1>13, <2>1, <3>1
    <3>4. QED
      BY <2>1, <3>1, <3>2, <3>3
  <2>6. QED
    BY <2>4, <2>5
<1>14. \A w \in D : w \in P
  <2> HIDE DEF D, P, m, stop, next
  <2>1. QED
    BY <1>5, <1>12, <1>13, LoopInduction
<1>15. <<0, n - 1>> \in D
  BY <1>1
<1>16. Post(0, n - 1, f[<<0, n - 1>>])
  <2> HIDE DEF Post, D
  <2>1. QED
    BY <1>1, <1>14, <1>15
<1>17. QED
  <2> DEFINE v == f[<<0, n - 1>>]
  <2>1. v \in 0..(n - 1) /\ (v = n - 1 \/ v \in H) /\ \A x \in 0..(v - 1) : x \notin H
    BY <1>16
  <2> HIDE DEF v, H
  <2>2. \A j \in Indices(b) : j < v => j \notin H
    BY <1>1, <2>1
  <2>3. QED
    BY <1>1, <1>10, <2>1, <2>2 DEF v, H

\* What get_idx_binary answers: the newest visible version of the key.
LEMMA IdxBinaryIs ==
    ASSUME NEW b, GoodBlock(b), NEW key \in Keys, NEW id \in Nat
    PROVE  LET seen == {i \in Indices(b) : EntryAt(b, i).key = key /\ Sees(id, EntryAt(b, i))}
           IN  IdxBinary(b, key, id) = IF seen = {} THEN {} ELSE {Least(seen)}
<1> DEFINE n == NumEntries(b)
           H == Hits(b, key, id)
           seen == {i \in Indices(b) : EntryAt(b, i).key = key /\ Sees(id, EntryAt(b, i))}
           r == Bisect(b, key, id)
<1>1. n \in Nat \ {0} /\ Indices(b) = 0..(n - 1)
  BY EntriesOf DEF Indices
<1>2. /\ r \in Indices(b) /\ (r \in H \/ r = n - 1)
      /\ \A j \in Indices(b) : j < r => j \notin H
  BY BisectIs
<1> HIDE DEF r
<1>3. \A i \in seen : i \in H
  BY DEF Hits, Sees, AtOrAfter
<1>4. IdxBinary(b, key, id) = {i \in {r} : i \in seen}
  BY <1>1, <1>2 DEF IdxBinary, Sees, r
<1>5. seen \in SUBSET Int
  BY <1>1
<1>6. ASSUME NEW i \in seen PROVE r \in seen
  <2>1. i \in H /\ i \in Indices(b) /\ r <= i
    <3>1. i \in H /\ i \in Indices(b)
      BY <1>3, <1>6
    <3>2. ~(i < r)
      BY <1>2, <3>1
    <3>3. QED
      BY <1>1, <1>2, <3>1, <3>2
  <2>2. r \in H
    <3>1. CASE r = i
      BY <2>1, <3>1
    <3>2. CASE r # i
      <4>1. r # n - 1
        BY <1>1, <2>1, <3>2
      <4>2. QED
        BY <1>2, <4>1
    <3>3. QED
      BY <3>1, <3>2
  <2>3. EntryAt(b, r).key <= EntryAt(b, i).key /\ EntryAt(b, i).key = key
    BY <1>2, <1>6, <2>1, EntriesOf
  <2>4. AtOrAfter(EntryAt(b, r), key, id)
    BY <2>2 DEF Hits
  <2>5. EntryAt(b, r).key \in Int /\ key \in Int
    BY <1>2, EntriesOf, KeysAssumption
  <2>6. EntryAt(b, r).key = key /\ Sees(id, EntryAt(b, r))
    BY <2>3, <2>4, <2>5 DEF AtOrAfter, Sees
  <2>7. QED
    BY <1>2, <2>6
<1>7. \A i \in seen : r <= i
  <2> SUFFICES ASSUME NEW i \in seen PROVE r <= i
    OBVIOUS
  <2>1. i \in H /\ i \in Indices(b)
    BY <1>3
  <2>2. ~(i < r)
    BY <1>2, <2>1
  <2>3. QED
    BY <1>1, <1>2, <2>1, <2>2
<1>8. CASE seen = {}
  BY <1>4, <1>8
<1>9. CASE seen # {}
  <2>1. r \in seen
    BY <1>6, <1>9
  <2> HIDE DEF seen
  <2>2. Least(seen) = r
    BY <1>5, <1>7, <2>1, LeastIs
  <2>3. QED
    BY <1>4, <1>9, <2>1, <2>2 DEF seen
<1>10. QED
  BY <1>8, <1>9

\* Where adjust_idx_by_tranc_id ends, from any version of the key.
LEMMA AdjustIdxIs ==
    ASSUME NEW b, GoodBlock(b), NEW key \in Keys, NEW id \in Nat,
           NEW x \in Indices(b), EntryAt(b, x).key = key
    PROVE  LET seen == {i \in Indices(b) : EntryAt(b, i).key = key /\ Sees(id, EntryAt(b, i))}
           IN  AdjustIdx(b, x, id) = IF seen = {} THEN -1 ELSE Least(seen)
<1> DEFINE n == NumEntries(b)
           seen == {i \in Indices(b) : EntryAt(b, i).key = key /\ Sees(id, EntryAt(b, i))}
           same == {i \in 0..(n - 1) : EntryAt(b, i).key = EntryAt(b, x).key}
           visible == {i \in 0..(n - 1) : id = 0 \/ EntryAt(b, i).tranc_id <= id}
           S == visible \cup ((0..n) \ same)
           next == ScanTo(x, n, S)
           back == ScanBack(x, n, same \cap visible)
<1>1. n \in Nat \ {0} /\ Indices(b) = 0..(n - 1) /\ x \in 0..n
  BY EntriesOf DEF Indices
<1>2. seen = same \cap visible
  BY <1>1 DEF Sees
<1>3. next \in x..n /\ (next = n \/ next \in S) /\ \A j \in x..(next - 1) : j \notin S
  BY <1>1, ScanToIs
<1>4. back \in 0..x /\ (back = 0 \/ back - 1 \notin same \cap visible)
      /\ \A j \in back..(x - 1) : j \in same \cap visible
  BY <1>1, ScanBackIs
<1>5. AdjustIdx(b, x, id) = IF x \in visible THEN back ELSE IF next \in same THEN next ELSE -1
  BY DEF AdjustIdx
<1> HIDE DEF next, back
<1>6. x \in same /\ seen \in SUBSET Int
  BY <1>1
\* Between two entries with one key the key is the same, and of these the ids go down.
<1>7. \A i, j, k \in Indices(b) : i <= j /\ j <= k /\ i \in same /\ k \in same => j \in same
  <2> SUFFICES ASSUME NEW i \in Indices(b), NEW j \in Indices(b), NEW k \in Indices(b),
                      i <= j, j <= k, i \in same, k \in same
               PROVE  j \in same
    OBVIOUS
  <2>1. EntryAt(b, i).key <= EntryAt(b, j).key /\ EntryAt(b, j).key <= EntryAt(b, k).key
    BY EntriesOf
  <2>2. EntryAt(b, i).key \in Int /\ EntryAt(b, j).key \in Int /\ EntryAt(b, k).key \in Int
    BY EntriesOf
  <2>3. EntryAt(b, j).key = EntryAt(b, x).key
    BY <2>1, <2>2
  <2>4. QED
    BY <1>1, <2>3
<1>8. \A i, j \in Indices(b) : i <= j /\ i \in seen /\ j \in same => j \in seen
  <2> SUFFICES ASSUME NEW i \in Indices(b), NEW j \in Indices(b), i <= j, i \in seen, j \in same
               PROVE  j \in seen
    OBVIOUS
  <2>1. CASE i = j
    BY <2>1
  <2>2. CASE i # j
    <3>1. i < j
      BY <1>1, <2>2
    <3>2. EntryAt(b, i).key = EntryAt(b, j).key
      OBVIOUS
    <3>3. EntryAt(b, j).tranc_id < EntryAt(b, i).tranc_id
      BY <3>1, <3>2, EntriesOf
    <3>4. EntryAt(b, j).tranc_id \in Nat /\ EntryAt(b, i).tranc_id \in Nat
      BY EntriesOf
    <3>5. Sees(id, EntryAt(b, i))
      OBVIOUS
    <3>6. Sees(id, EntryAt(b, j))
      BY <3>3, <3>4, <3>5 DEF Sees
    <3>7. QED
      BY <3>2, <3>6
  <2>3. QED
    BY <2>1, <2>2
<1> HIDE DEF same, visible, seen
<1>9. CASE x \in visible
  <2>1. x \in seen
    BY <1>2, <1>6, <1>9
  <2>2. back \in seen
    <3>1. CASE back = x
      BY <2>1, <3>1
    <3>2. CASE back # x
      BY <1>1, <1>2, <1>4, <3>2
    <3>3. QED
      BY <3>1, <3>2
  <2>3. \A i \in seen : back <= i
    <3> SUFFICES ASSUME NEW i \in seen, i < back PROVE FALSE
      BY <1>1, <1>4, <1>6
    <3>1. i \in Indices(b) /\ i <= back - 1 /\ back - 1 \in Indices(b) /\ back - 1 <= x
          /\ back # 0
      BY <1>1, <1>4 DEF seen
    <3>2. back - 1 \in same
      BY <1>2, <1>6, <1>7, <3>1
    <3>3. back - 1 \in seen
      BY <1>8, <3>1, <3>2
    <3>4. QED
      BY <1>2, <1>4, <3>1, <3>3
  <2>4. Least(seen) = back
    BY <1>6, <2>2, <2>3, LeastIs
  <2>5. QED
    BY <1>5, <1>9, <2>2, <2>4 DEF seen
<1>10. CASE x \notin visible
  <2>1. \A i \in seen : x < i
    <3> SUFFICES ASSUME NEW i \in seen, i <= x PROVE FALSE
      BY <1>1, <1>6
    <3>1. i \in Indices(b)
      BY DEF seen
    <3>2. x \in seen
      BY <1>6, <1>8, <3>1
    <3>3. QED
      BY <1>2, <1>10, <3>2
  <2>2. CASE next \in same
    <3>1. next \in visible /\ next \in seen
      <4>1. next \in 0..(n - 1)
        BY <2>2 DEF same
      <4>2. next # n
        BY <1>1, <4>1
      <4>3. QED
        BY <1>2, <1>3, <2>2, <4>2
    <3>2. \A i \in seen : next <= i
      <4> SUFFICES ASSUME NEW i \in seen, i < next PROVE FALSE
        BY <1>1, <1>3, <1>6
      <4>1. i \in x..(next - 1) /\ i \in visible
        BY <1>1, <1>2, <1>3, <1>6, <2>1
      <4>2. QED
        BY <1>3, <4>1
    <3>3. Least(seen) = next
      BY <1>6, <3>1, <3>2, LeastIs
    <3>4. QED
      BY <1>5, <1>10, <2>2, <3>1, <3>3 DEF seen
  <2>3. CASE next \notin same
    <3>1. ASSUME NEW i \in seen PROVE FALSE
      <4>1. i \in Indices(b) /\ x < i /\ i \in same /\ i \in visible
        BY <1>2, <2>1, <3>1 DEF seen
      <4>2. next <= i
        <5> SUFFICES ASSUME i < next PROVE FALSE
          BY <1>1, <1>3, <4>1
        <5>1. i \in x..(next - 1)
          BY <1>1, <1>3, <4>1
        <5>2. QED
          BY <1>3, <4>1, <5>1
      <4>3. next \in Indices(b) /\ x <= next
        BY <1>1, <1>3, <4>1, <4>2
      <4>4. next \in same
        BY <1>6, <1>7, <4>1, <4>2, <4>3
      <4>5. QED
        BY <2>3, <4>4
    <3>2. QED
      BY <1>5, <1>10, <2>3, <3>1 DEF seen
  <2>4. QED
    BY <2>2, <2>3
<1>11. QED
  BY <1>9, <1>10 DEF seen

-----------------------------------------------------------------------------
(* The ranges of a block *)

\* What Side says of an entry holds of those on one side of it.
LEMMA SideIs ==
    ASSUME NEW b, GoodBlock(b), NEW lo \in Keys, NEW hi \in Keys, NEW c \in Indices(b)
    PROVE  LET side == Side(EntryAt(b, c).key, lo, hi)
               M == Matches(b, lo, hi)
           IN  /\ side \in {-1, 0, 1} /\ (side = 0 <=> c \in M)
               /\ side < 0 => \A x \in Indices(b) : c <= x => x \notin M
               /\ side > 0 => \A x \in Indices(b) : x <= c => x \notin M
<1> DEFINE k == EntryAt(b, c).key
<1>1. \A x \in Indices(b) : EntryAt(b, x).key \in Int
  BY EntriesOf
<1>2. /\ \A x \in Indices(b) : c <= x => k <= EntryAt(b, x).key
      /\ \A x \in Indices(b) : x <= c => EntryAt(b, x).key <= k
  BY EntriesOf
<1>3. lo \in Int /\ hi \in Int /\ k \in Int
  BY <1>1, KeysAssumption
<1>4. \A x \in Indices(b) : x \in Matches(b, lo, hi) <=> lo <= EntryAt(b, x).key /\ EntryAt(b, x).key <= hi
  BY <1>1, <1>3 DEF Matches
<1>5. QED
  BY <1>1, <1>2, <1>3, <1>4 DEF Side

\* The first loop of get_monotony_predicate_iters.
LEMMA StartIdxLoop ==
    ASSUME NEW b, GoodBlock(b), NEW lo \in Keys, NEW hi \in Keys
    PROVE  LET M == Matches(b, lo, hi)
               v == StartIdx(b, lo, hi)
               n == NumEntries(b)
           IN  \/ v = -1 /\ \A x \in 0..(n - 2) : x \notin M
               \/ v \in 0..(n - 2) /\ v \in M /\ \A x \in 0..(v - 1) : x \notin M
<1> DEFINE n == NumEntries(b)
           M == Matches(b, lo, hi)
           D == (0..n) \X (0..n) \X (-1..n)
           mid(w) == (w[1] + w[2]) \div 2
           side(w) == Side(EntryAt(b, mid(w)).key, lo, hi)
           stop == {w \in D : w[1] >= w[2]}
           next == [w \in D |-> IF side(w) < 0 THEN <<w[1], mid(w), w[3]>>
                                ELSE IF side(w) = 0 THEN <<w[1], mid(w), mid(w)>>
                                ELSE <<mid(w) + 1, w[2], w[3]>>]
           val == [w \in D |-> w[3]]
           m == [w \in D |-> IF w[1] < w[2] THEN w[2] - w[1] ELSE 0]
           Body(g, w) == LET x    == (w[1] + w[2]) \div 2
                             side1 == Side(EntryAt(b, x).key, lo, hi)
                         IN  IF w[1] >= w[2] THEN w[3]
                             ELSE IF side1 < 0 THEN g[<<w[1], x, w[3]>>]
                             ELSE IF side1 = 0 THEN g[<<w[1], x, x>>]
                             ELSE g[<<x + 1, w[2], w[3]>>]
           Is(f) == f = [w \in D |->
                            LET x    == (w[1] + w[2]) \div 2
                                side1 == Side(EntryAt(b, x).key, lo, hi)
                            IN  IF w[1] >= w[2] THEN w[3]
                                ELSE IF side1 < 0 THEN f[<<w[1], x, w[3]>>]
                                ELSE IF side1 = 0 THEN f[<<w[1], x, x>>]
                                ELSE f[<<x + 1, w[2], w[3]>>]]
           f == CHOOSE g : Is(g)
           Post(l, r, s, v) == \/ v = s /\ \A x \in l..(r - 1) : x \notin M
                               \/ v \in l..(r - 1) /\ v \in M /\ \A x \in l..(v - 1) : x \notin M
           P == {w \in D : Post(w[1], w[2], w[3], f[w])}
<1>1. n \in Nat \ {0} /\ Indices(b) = 0..(n - 1)
  BY EntriesOf DEF Indices
<1>2. \A w \in D : /\ w = <<w[1], w[2], w[3]>>
                   /\ w[1] \in 0..n /\ w[2] \in 0..n /\ w[3] \in -1..n
  OBVIOUS
<1>3. \A w \in D : w[1] < w[2] => mid(w) \in w[1]..(w[2] - 1)
  BY <1>1, <1>2, Middle
<1>4. ASSUME NEW w \in D, w[1] < w[2]
      PROVE  /\ mid(w) \in w[1]..(w[2] - 1) /\ w[1] \in Nat /\ w[2] \in Nat /\ next[w] \in D
             /\ next[w][1] < next[w][2] => next[w][2] - next[w][1] < w[2] - w[1]
  <2>1. mid(w) \in w[1]..(w[2] - 1) /\ w[1] \in Nat /\ w[2] \in Nat /\ w[2] <= n
    BY <1>1, <1>2, <1>3, <1>4
  <2>2. mid(w) \in 0..n /\ mid(w) + 1 \in 0..n
    BY <1>1, <1>2, <2>1
  <2> DEFINE c == mid(w)
             N == next[w]
  <2>3. N = <<w[1], c, w[3]>> \/ N = <<w[1], c, c>> \/ N = <<c + 1, w[2], w[3]>>
    OBVIOUS
  <2>4. w[1] \in 0..n /\ w[2] \in 0..n /\ w[3] \in -1..n /\ c \in -1..n
    BY <1>1, <1>2, <2>2
  <2> HIDE DEF mid, c, N, next
  <2>5. N \in D
    BY <2>2, <2>3, <2>4 DEF c
  <2>6. N[1] < N[2] => N[2] - N[1] < w[2] - w[1]
    <3> HIDE DEF D
    <3>1. QED
      BY <2>1, <2>3 DEF c
  <2>7. QED
    BY <2>1, <2>5, <2>6 DEF N
<1>5. Loop(D, m, stop, next)
  <2>1. m \in [D -> Nat]
    BY <1>1, <1>2
  <2>2. ASSUME NEW w \in D \ stop PROVE next[w] \in D /\ m[next[w]] < m[w]
    <3>0. w \in D /\ w[1] < w[2]
      BY <1>1, <1>2
    <3>1. /\ w[1] \in Nat /\ w[2] \in Nat /\ next[w] \in D
          /\ next[w][1] < next[w][2] => next[w][2] - next[w][1] < w[2] - w[1]
      BY <1>4, <3>0
    <3>2. m[w] = w[2] - w[1]
      BY <3>0
    <3> HIDE DEF next
    <3>3. m[next[w]] = IF next[w][1] < next[w][2] THEN next[w][2] - next[w][1] ELSE 0
      BY <3>1
    <3> HIDE DEF m, D
    <3>4. QED
      BY <3>0, <3>1, <3>2, <3>3
  <2>3. QED
    BY <2>1, <2>2 DEF Loop
<1>6. PICK g : g = [w \in D |-> IF w \in stop THEN val[w] ELSE g[next[w]]]
  <2> HIDE DEF D, m, stop, next, val
  <2>1. QED
    BY <1>5, LoopExists
<1>7. \A w \in D : (IF w \in stop THEN val[w] ELSE g[next[w]]) = Body(g, w)
  OBVIOUS
<1>8. Is(g)
  <2>1. g = [w \in D |-> Body(g, w)]
    <3> HIDE DEF D, stop, next, val, Body
    <3>1. QED
      BY <1>6, <1>7
  <2>2. QED
    BY <2>1
<1>9. Is(f)
  <2> HIDE DEF Is
  <2>1. QED
    BY <1>8
<1>10. StartIdx(b, lo, hi) = f[<<0, n - 1, -1>>]
  BY DEF StartIdx
<1>11. \A w \in D : f[w] = IF w[1] >= w[2] THEN w[3]
                           ELSE IF side(w) < 0 THEN f[<<w[1], mid(w), w[3]>>]
                           ELSE IF side(w) = 0 THEN f[<<w[1], mid(w), mid(w)>>]
                           ELSE f[<<mid(w) + 1, w[2], w[3]>>]
  <2> HIDE DEF f
  <2>1. QED
    BY <1>9
<1> HIDE DEF f, Is
<1>12. ASSUME NEW w \in D \cap stop PROVE w \in P
  <2>1. w \in D /\ w[1] >= w[2] /\ w[1] \in Int /\ w[2] \in Int
    BY <1>1, <1>2
  <2>2. f[w] = w[3]
    <3> HIDE DEF mid, side, D
    <3>1. QED
      BY <1>11, <2>1
  <2>3. QED
    BY <2>1, <2>2
<1>13. ASSUME NEW w \in D \ stop, next[w] \in P PROVE w \in P
  <2> DEFINE c == mid(w)
             l == w[1]
             r == w[2]
             s == w[3]
             v == f[w]
  <2>1. w \in D /\ l < r /\ l \in Nat /\ r \in Nat /\ c \in l..(r - 1) /\ r <= n /\ s \in Int
    BY <1>1, <1>2, <1>4
  <2> SUFFICES Post(l, r, s, v)
    BY <2>1
  <2>2. c \in Indices(b)
    BY <1>1, <2>1
  <2>3. /\ side(w) \in {-1, 0, 1} /\ (side(w) = 0 <=> c \in M)
        /\ side(w) < 0 => \A x \in Indices(b) : c <= x => x \notin M
        /\ side(w) > 0 => \A x \in Indices(b) : x <= c => x \notin M
    <3> HIDE DEF M, mid
    <3>1. QED
      BY <2>2, SideIs DEF M
  <2>4. /\ f[w] = IF w[1] >= w[2] THEN w[3]
                  ELSE IF side(w) < 0 THEN f[<<w[1], mid(w), w[3]>>]
                  ELSE IF side(w) = 0 THEN f[<<w[1], mid(w), mid(w)>>]
                  ELSE f[<<mid(w) + 1, w[2], w[3]>>]
    <3> HIDE DEF D, mid, side
    <3>1. QED
      BY <1>11, <2>1
  <2>5. next[w] = IF side(w) < 0 THEN <<w[1], mid(w), w[3]>>
                  ELSE IF side(w) = 0 THEN <<w[1], mid(w), mid(w)>>
                  ELSE <<mid(w) + 1, w[2], w[3]>>
    <3> HIDE DEF D, mid, side
    <3>1. QED
      BY <2>1
  <2>6. Post(next[w][1], next[w][2], next[w][3], f[next[w]])
    <3> HIDE DEF Post, next
    <3>1. QED
      BY <1>13
  <2>7. CASE side(w) < 0
    <3>1. next[w] = <<l, c, s>> /\ v = f[<<l, c, s>>]
      <4> HIDE DEF mid, side
      <4>1. QED
        BY <2>1, <2>4, <2>5, <2>7
    <3>2. \A x \in c..(r - 1) : x \notin M
      <4> HIDE DEF M, mid, side
      <4>1. QED
        BY <1>1, <2>1, <2>3, <2>7
    <3> HIDE DEF c, l, r, s, v, next, M, D, side, mid
    <3>3. Post(l, c, s, v)
      BY <1>1, <2>1, <2>6, <3>1
    <3>4. QED
      BY <2>1, <3>2, <3>3
  <2>8. CASE side(w) = 0
    <3>1. next[w] = <<l, c, c>> /\ v = f[<<l, c, c>>]
      <4> HIDE DEF mid, side
      <4>1. QED
        BY <2>1, <2>4, <2>5, <2>8
    <3>2. c \in M
      <4> HIDE DEF M, mid, side
      <4>1. QED
        BY <1>1, <2>1, <2>3, <2>8
    <3> HIDE DEF c, l, r, s, v, next, M, D, side, mid
    <3>3. Post(l, c, c, v)
      BY <1>1, <2>1, <2>6, <3>1
    <3>4. QED
      BY <2>1, <3>2, <3>3
  <2>9. CASE side(w) > 0
    <3>1. next[w] = <<c + 1, r, s>> /\ v = f[<<c + 1, r, s>>]
      <4> HIDE DEF mid, side
      <4>1. ~(side(w) < 0) /\ side(w) # 0
        BY <2>3, <2>9
      <4>2. QED
        BY <2>1, <2>4, <2>5, <4>1
    <3>2. \A x \in l..c : x \notin M
      <4> HIDE DEF M, mid, side
      <4>1. QED
        BY <1>1, <2>1, <2>3, <2>9
    <3> HIDE DEF c, l, r, s, v, next, M, D, side, mid
    <3>3. Post(c + 1, r, s, v)
      BY <1>1, <2>1, <2>6, <3>1
    <3>4. QED
      BY <2>1, <3>2, <3>3
  <2>10. QED
    <3> HIDE DEF side, Post
    <3>1. QED
      BY <2>3, <2>7, <2>8, <2>9
<1>14. \A w \in D : w \in P
  <2> HIDE DEF D, P, m, stop, next
  <2>1. QED
    BY <1>5, <1>12, <1>13, LoopInduction
<1>15. <<0, n - 1, -1>> \in D
  BY <1>1
<1>16. Post(0, n - 1, -1, f[<<0, n - 1, -1>>])
  <2> HIDE DEF Post, D
  <2>1. QED
    BY <1>1, <1>14, <1>15
<1>17. QED
  <2> DEFINE v == f[<<0, n - 1, -1>>]
  <2> HIDE DEF v, M
  <2>1. Post(0, n - 1, -1, v)
    BY <1>16 DEF v
  <2>2. (n - 1) - 1 = n - 2
    BY <1>1
  <2>3. QED
    BY <1>10, <2>1, <2>2 DEF v, M

\* Its second loop.
LEMMA EndIdxLoop ==
    ASSUME NEW b, GoodBlock(b), NEW lo \in Keys, NEW hi \in Keys, NEW a \in Indices(b)
    PROVE  LET M == Matches(b, lo, hi)
               v == EndIdx(b, lo, hi, a)
               n == NumEntries(b)
           IN  \/ v = -1 /\ \A x \in (a + 1)..(n - 1) : x \notin M
               \/ v \in (a + 1)..(n - 1) /\ v \in M /\ \A x \in (v + 1)..(n - 1) : x \notin M
<1> DEFINE n == NumEntries(b)
           M == Matches(b, lo, hi)
           D == (0..n) \X (-1..n) \X (-1..n)
           mid(w) == (w[1] + w[2] + 1) \div 2
           side(w) == Side(EntryAt(b, mid(w)).key, lo, hi)
           stop == {w \in D : w[1] >= w[2]}
           next == [w \in D |-> IF side(w) > 0 THEN <<mid(w), w[2], w[3]>>
                                ELSE IF side(w) = 0 THEN <<mid(w), w[2], mid(w)>>
                                ELSE <<w[1], mid(w) - 1, w[3]>>]
           val == [w \in D |-> w[3]]
           m == [w \in D |-> IF w[1] < w[2] THEN w[2] - w[1] ELSE 0]
           Body(g, w) == LET x    == (w[1] + w[2] + 1) \div 2
                             side1 == Side(EntryAt(b, x).key, lo, hi)
                         IN  IF w[1] >= w[2] THEN w[3]
                             ELSE IF side1 > 0 THEN g[<<x, w[2], w[3]>>]
                             ELSE IF side1 = 0 THEN g[<<x, w[2], x>>]
                             ELSE g[<<w[1], x - 1, w[3]>>]
           Is(f) == f = [w \in D |->
                            LET x    == (w[1] + w[2] + 1) \div 2
                                side1 == Side(EntryAt(b, x).key, lo, hi)
                            IN  IF w[1] >= w[2] THEN w[3]
                                ELSE IF side1 > 0 THEN f[<<x, w[2], w[3]>>]
                                ELSE IF side1 = 0 THEN f[<<x, w[2], x>>]
                                ELSE f[<<w[1], x - 1, w[3]>>]]
           f == CHOOSE g : Is(g)
           Post(l, r, s, v) == \/ v = s /\ \A x \in (l + 1)..r : x \notin M
                               \/ v \in (l + 1)..r /\ v \in M /\ \A x \in (v + 1)..r : x \notin M
           P == {w \in D : w[2] <= n - 1 => Post(w[1], w[2], w[3], f[w])}
<1>1. n \in Nat \ {0} /\ Indices(b) = 0..(n - 1)
  BY EntriesOf DEF Indices
<1>2. \A w \in D : /\ w = <<w[1], w[2], w[3]>>
                   /\ w[1] \in 0..n /\ w[2] \in -1..n /\ w[3] \in -1..n
  OBVIOUS
<1>3. \A w \in D : w[1] < w[2] => mid(w) \in (w[1] + 1)..w[2]
  BY <1>1, <1>2, Middle
<1>4. ASSUME NEW w \in D, w[1] < w[2]
      PROVE  /\ mid(w) \in (w[1] + 1)..w[2] /\ w[1] \in Nat /\ w[2] \in Nat /\ next[w] \in D
             /\ next[w][1] < next[w][2] => next[w][2] - next[w][1] < w[2] - w[1]
  <2>1. mid(w) \in (w[1] + 1)..w[2] /\ w[1] \in Nat /\ w[2] \in Nat /\ w[2] <= n
    BY <1>1, <1>2, <1>3, <1>4
  <2>2. mid(w) \in 0..n /\ mid(w) - 1 \in -1..n
    BY <1>1, <1>2, <2>1
  <2> DEFINE c == mid(w)
             N == next[w]
  <2>3. N = <<c, w[2], w[3]>> \/ N = <<c, w[2], c>> \/ N = <<w[1], c - 1, w[3]>>
    OBVIOUS
  <2>4. w[1] \in 0..n /\ w[2] \in -1..n /\ w[3] \in -1..n /\ c \in -1..n
    BY <1>1, <1>2, <2>2
  <2> HIDE DEF mid, c, N, next
  <2>5. N \in D
    BY <2>2, <2>3, <2>4 DEF c
  <2>6. N[1] < N[2] => N[2] - N[1] < w[2] - w[1]
    <3> HIDE DEF D
    <3>1. QED
      BY <2>1, <2>3 DEF c
  <2>7. QED
    BY <2>1, <2>5, <2>6 DEF N
<1>5. Loop(D, m, stop, next)
  <2>1. m \in [D -> Nat]
    BY <1>1, <1>2
  <2>2. ASSUME NEW w \in D \ stop PROVE next[w] \in D /\ m[next[w]] < m[w]
    <3>0. w \in D /\ w[1] < w[2]
      BY <1>1, <1>2
    <3>1. /\ w[1] \in Nat /\ w[2] \in Nat /\ next[w] \in D
          /\ next[w][1] < next[w][2] => next[w][2] - next[w][1] < w[2] - w[1]
      BY <1>4, <3>0
    <3>2. m[w] = w[2] - w[1]
      BY <3>0
    <3> HIDE DEF next
    <3>3. m[next[w]] = IF next[w][1] < next[w][2] THEN next[w][2] - next[w][1] ELSE 0
      BY <3>1
    <3> HIDE DEF m, D
    <3>4. QED
      BY <3>0, <3>1, <3>2, <3>3
  <2>3. QED
    BY <2>1, <2>2 DEF Loop
<1>6. PICK g : g = [w \in D |-> IF w \in stop THEN val[w] ELSE g[next[w]]]
  <2> HIDE DEF D, m, stop, next, val
  <2>1. QED
    BY <1>5, LoopExists
<1>7. \A w \in D : (IF w \in stop THEN val[w] ELSE g[next[w]]) = Body(g, w)
  OBVIOUS
<1>8. Is(g)
  <2>1. g = [w \in D |-> Body(g, w)]
    <3> HIDE DEF D, stop, next, val, Body
    <3>1. QED
      BY <1>6, <1>7
  <2>2. QED
    BY <2>1
<1>9. Is(f)
  <2> HIDE DEF Is
  <2>1. QED
    BY <1>8
<1>10. EndIdx(b, lo, hi, a) = f[<<a, n - 1, -1>>]
  BY DEF EndIdx
<1>11. \A w \in D : f[w] = IF w[1] >= w[2] THEN w[3]
                           ELSE IF side(w) > 0 THEN f[<<mid(w), w[2], w[3]>>]
                           ELSE IF side(w) = 0 THEN f[<<mid(w), w[2], mid(w)>>]
                           ELSE f[<<w[1], mid(w) - 1, w[3]>>]
  <2> HIDE DEF f
  <2>1. QED
    BY <1>9
<1> HIDE DEF f, Is
<1>12. ASSUME NEW w \in D \cap stop PROVE w \in P
  <2>1. w \in D /\ w[1] >= w[2] /\ w[1] \in Int /\ w[2] \in Int
    BY <1>1, <1>2
  <2>2. f[w] = w[3]
    <3> HIDE DEF mid, side, D
    <3>1. QED
      BY <1>11, <2>1
  <2>3. QED
    BY <2>1, <2>2
<1>13. ASSUME NEW w \in D \ stop, next[w] \in P PROVE w \in P
  <2> DEFINE c == mid(w)
             l == w[1]
             r == w[2]
             s == w[3]
             v == f[w]
  <2>1. w \in D /\ l < r /\ l \in Nat /\ r \in Nat /\ c \in (l + 1)..r /\ r <= n /\ s \in Int
    BY <1>1, <1>2, <1>4
  <2> SUFFICES ASSUME r <= n - 1 PROVE Post(l, r, s, v)
    OBVIOUS
  <2>2. c \in Indices(b)
    BY <1>1, <2>1
  <2>3. /\ side(w) \in {-1, 0, 1} /\ (side(w) = 0 <=> c \in M)
        /\ side(w) < 0 => \A x \in Indices(b) : c <= x => x \notin M
        /\ side(w) > 0 => \A x \in Indices(b) : x <= c => x \notin M
    <3> HIDE DEF M, mid
    <3>1. QED
      BY <2>2, SideIs DEF M
  <2>4. /\ f[w] = IF w[1] >= w[2] THEN w[3]
                  ELSE IF side(w) > 0 THEN f[<<mid(w), w[2], w[3]>>]
                  ELSE IF side(w) = 0 THEN f[<<mid(w), w[2], mid(w)>>]
                  ELSE f[<<w[1], mid(w) - 1, w[3]>>]
    <3> HIDE DEF D, mid, side
    <3>1. QED
      BY <1>11, <2>1
  <2>5. next[w] = IF side(w) > 0 THEN <<mid(w), w[2], w[3]>>
                  ELSE IF side(w) = 0 THEN <<mid(w), w[2], mid(w)>>
                  ELSE <<w[1], mid(w) - 1, w[3]>>
    <3> HIDE DEF D, mid, side
    <3>1. QED
      BY <2>1
  <2>6. next[w][2] <= n - 1 => Post(next[w][1], next[w][2], next[w][3], f[next[w]])
    <3> HIDE DEF Post, next
    <3>1. QED
      BY <1>13
  <2>7. CASE side(w) > 0
    <3>1. next[w] = <<c, r, s>> /\ v = f[<<c, r, s>>]
      <4> HIDE DEF mid, side
      <4>1. QED
        BY <2>1, <2>4, <2>5, <2>7
    <3>2. \A x \in (l + 1)..c : x \notin M
      <4> HIDE DEF M, mid, side
      <4>1. QED
        BY <1>1, <2>1, <2>3, <2>7
    <3> HIDE DEF c, l, r, s, v, next, M, D, side, mid
    <3>3. Post(c, r, s, v)
      BY <1>1, <2>1, <2>6, <3>1
    <3>4. QED
      BY <2>1, <3>2, <3>3
  <2>8. CASE side(w) = 0
    <3>1. next[w] = <<c, r, c>> /\ v = f[<<c, r, c>>]
      <4> HIDE DEF mid, side
      <4>1. QED
        BY <2>1, <2>4, <2>5, <2>8
    <3>2. c \in M
      <4> HIDE DEF M, mid, side
      <4>1. QED
        BY <1>1, <2>1, <2>3, <2>8
    <3> HIDE DEF c, l, r, s, v, next, M, D, side, mid
    <3>3. Post(c, r, c, v)
      BY <1>1, <2>1, <2>6, <3>1
    <3>4. QED
      BY <2>1, <3>2, <3>3
  <2>9. CASE side(w) < 0
    <3>1. next[w] = <<l, c - 1, s>> /\ v = f[<<l, c - 1, s>>]
      <4> HIDE DEF mid, side
      <4>1. ~(side(w) > 0) /\ side(w) # 0
        BY <2>3, <2>9
      <4>2. QED
        BY <2>1, <2>4, <2>5, <4>1
    <3>2. \A x \in c..r : x \notin M
      <4> HIDE DEF M, mid, side
      <4>1. QED
        BY <1>1, <2>1, <2>3, <2>9
    <3> HIDE DEF c, l, r, s, v, next, M, D, side, mid
    <3>3. Post(l, c - 1, s, v)
      BY <1>1, <2>1, <2>6, <3>1
    <3>4. QED
      BY <2>1, <3>2, <3>3
  <2>10. QED
    <3> HIDE DEF side, Post
    <3>1. QED
      BY <2>3, <2>7, <2>8, <2>9
<1>14. \A w \in D : w \in P
  <2> HIDE DEF D, P, m, stop, next
  <2>1. QED
    BY <1>5, <1>12, <1>13, LoopInduction
<1>15. <<a, n - 1, -1>> \in D
  BY <1>1
<1>16. Post(a, n - 1, -1, f[<<a, n - 1, -1>>])
  <2> HIDE DEF Post, D
  <2>1. QED
    BY <1>1, <1>14, <1>15
<1>17. QED
  <2> DEFINE v == f[<<a, n - 1, -1>>]
  <2> HIDE DEF v, M
  <2>1. Post(a, n - 1, -1, v)
    BY <1>16 DEF v
  <2>2. (n - 1) - 1 = n - 2
    BY <1>1
  <2>3. QED
    BY <1>10, <2>1, <2>2 DEF v, M

\* The matches of a range have no gap.
LEMMA MatchesConvex ==
    ASSUME NEW b, GoodBlock(b), NEW lo \in Keys, NEW hi \in Keys
    PROVE  LET M == Matches(b, lo, hi)
           IN  \A i, k \in M : \A j \in Indices(b) : i <= j /\ j <= k => j \in M
<1> SUFFICES ASSUME NEW i \in Matches(b, lo, hi), NEW k \in Matches(b, lo, hi),
                    NEW j \in Indices(b), i <= j, j <= k
             PROVE  j \in Matches(b, lo, hi)
  OBVIOUS
<1>1. i \in Indices(b) /\ k \in Indices(b)
  BY DEF Matches
<1>2. /\ EntryAt(b, i).key <= EntryAt(b, j).key /\ EntryAt(b, j).key <= EntryAt(b, k).key
      /\ EntryAt(b, i).key \in Int /\ EntryAt(b, j).key \in Int /\ EntryAt(b, k).key \in Int
  BY <1>1, EntriesOf
<1>3. EntryAt(b, i).key \in lo..hi /\ EntryAt(b, k).key \in lo..hi /\ lo \in Int /\ hi \in Int
  BY KeysAssumption DEF Matches
<1>4. EntryAt(b, j).key \in lo..hi
  BY <1>2, <1>3
<1>5. QED
  BY <1>4 DEF Matches

LEMMA PrefixRangeIs ==
    ASSUME NEW b, GoodBlock(b), NEW lo \in Keys, NEW hi \in Keys
    PROVE  LET M == Matches(b, lo, hi)
           IN  PrefixRange(b, lo, hi) = IF M = {} THEN {} ELSE {<<Least(M), Greatest(M) + 1>>}
<1> DEFINE n == NumEntries(b)
           M == Matches(b, lo, hi)
           first == ScanTo(0, n, M)
           last == ScanTo(first, n, (0..n) \ M)
<1>1. n \in Nat \ {0} /\ Indices(b) = 0..(n - 1)
  BY EntriesOf DEF Indices
<1>2. PrefixRange(b, lo, hi) = IF first = n THEN {} ELSE {<<first, last>>}
  <2>1. M = {i \in 0..(n - 1) : EntryAt(b, i).key \in lo..hi}
    BY <1>1 DEF Matches
  <2>2. QED
    BY <2>1 DEF PrefixRange
<1>3. M \in SUBSET Indices(b) /\ M \in SUBSET Int
  BY <1>1 DEF Matches
<1>4. \A i, k \in M : \A j \in Indices(b) : i <= j /\ j <= k => j \in M
  BY MatchesConvex
<1> HIDE DEF M
<1>5. first \in 0..n /\ (first = n \/ first \in M) /\ \A j \in 0..(first - 1) : j \notin M
  BY <1>1, ScanToIs
<1> HIDE DEF first
<1>6. /\ last \in first..n /\ (last = n \/ last \in (0..n) \ M)
      /\ \A j \in first..(last - 1) : j \notin (0..n) \ M
  BY <1>1, <1>5, ScanToIs
<1> HIDE DEF last
<1>7. CASE first = n
  <2>1. M = {}
    <3> SUFFICES ASSUME NEW x \in M PROVE FALSE
      OBVIOUS
    <3>1. x \in 0..(n - 1)
      BY <1>1, <1>3
    <3>2. QED
      BY <1>5, <1>7, <3>1
  <2>2. QED
    BY <1>2, <1>7, <2>1 DEF M
<1>8. CASE first # n
  <2>1. first \in M
    BY <1>5, <1>8
  <2>2. \A x \in M : first <= x
    <3> SUFFICES ASSUME NEW x \in M, x < first PROVE FALSE
      BY <1>1, <1>3, <1>5
    <3>1. x \in 0..(first - 1)
      BY <1>1, <1>3, <1>5
    <3>2. QED
      BY <1>5, <3>1
  <2>3. Least(M) = first
    BY <1>3, <2>1, <2>2, LeastIs
  <2>4. first < last /\ last \in Nat /\ first \in Nat /\ last <= n
    BY <1>1, <1>5, <1>6, <1>8, <2>1
  <2>5. last - 1 \in M
    <3>1. last - 1 \in first..(last - 1) /\ last - 1 \in 0..n
      BY <1>1, <2>4
    <3>2. QED
      BY <1>6, <3>1
  <2>6. \A x \in M : x <= last - 1
    <3> SUFFICES ASSUME NEW x \in M, last <= x PROVE FALSE
      BY <1>1, <1>3, <2>4
    <3>1. x \in 0..(n - 1)
      BY <1>1, <1>3
    <3>2. last # n /\ last \in Indices(b)
      BY <1>1, <2>4, <3>1
    <3>3. last \notin M
      BY <1>6, <3>2
    <3>4. first <= last
      BY <2>4
    <3>5. QED
      BY <1>4, <2>1, <3>2, <3>3, <3>4
  <2>7. Greatest(M) = last - 1
    BY <1>3, <2>5, <2>6, GreatestIs
  <2>8. Greatest(M) + 1 = last
    BY <2>4, <2>7
  <2>9. QED
    BY <1>2, <1>8, <2>1, <2>3, <2>8 DEF M
<1>9. QED
  BY <1>7, <1>8

\* An iterator of a reader without an id starts where it is put, and ++ moves it by one.
LEMMA PlainIterator ==
    ASSUME NEW b, GoodBlock(b), NEW i \in Indices(b)
    PROVE  LET it == IteratorAt(b, i, 0)
           IN  /\ it = [index |-> i, tranc_id |-> 0, prev_keys |-> {}, done |-> FALSE]
               /\ i + 1 \in Indices(b) => Step(b, it).index = i + 1
<1> DEFINE n == NumEntries(b)
           visible == {j \in 0..(n - 1) : 0 = 0 \/ EntryAt(b, j).tranc_id <= 0}
           it == IteratorAt(b, i, 0)
<1>1. n \in Nat \ {0} /\ Indices(b) = 0..(n - 1)
  BY EntriesOf DEF Indices
<1>2. visible = Indices(b)
  BY <1>1
<1> HIDE DEF visible
<1>3. ScanTo(i, n, visible) = i
  <2> DEFINE r == ScanTo(i, n, visible)
  <2>1. r \in i..n /\ \A j \in i..(r - 1) : j \notin visible
    BY <1>1, ScanToIs
  <2> HIDE DEF r
  <2>2. i < r => i \in i..(r - 1)
    BY <1>1, <2>1
  <2>3. QED
    BY <1>1, <1>2, <2>1, <2>2 DEF r
<1>4. it = [index |-> i, tranc_id |-> 0, prev_keys |-> {}, done |-> FALSE]
  BY <1>3 DEF IteratorAt, visible
<1> HIDE DEF it
<1>5. ASSUME i + 1 \in Indices(b) PROVE Step(b, it).index = i + 1
  <2> DEFINE later == {j \in (it.index + 1)..(NumEntries(b) - 1) :
                          /\ it.tranc_id = 0 \/ EntryAt(b, j).tranc_id <= it.tranc_id
                          /\ EntryAt(b, j).key \notin it.prev_keys}
             next == CHOOSE j \in later : \A k \in later : j <= k
  <2>1. later = (i + 1)..(n - 1)
    BY <1>4
  <2>2. next = Least(later)
    BY DEF Least
  <2>3. i + 1 \in later /\ later \in SUBSET Int /\ \A x \in later : i + 1 <= x
    BY <1>1, <1>5, <2>1
  <2>4. ~(it.done \/ it.index >= NumEntries(b))
    BY <1>1, <1>4
  <2>5. Step(b, it) = [it EXCEPT !.index = next, !.prev_keys = @ \cup {EntryAt(b, next).key}]
    BY <2>3, <2>4 DEF Step
  <2> HIDE DEF later, next
  <2>6. next = i + 1
    BY <2>2, <2>3, LeastIs
  <2>7. QED
    BY <1>4, <2>5, <2>6
<1>6. QED
  BY <1>4, <1>5 DEF it

LEMMA RangeBeginIs ==
    ASSUME NEW b, GoodBlock(b), NEW lo \in Keys, NEW hi \in Keys
    PROVE  LET m == Matches(b, lo, hi)
           IN  IF m \subseteq {NumEntries(b) - 1} THEN RangeBegin(b, lo, hi) = {}
               ELSE IF m = {Least(m)}
               THEN {it.index : it \in RangeBegin(b, lo, hi)} = {Least(m) + 1}
               ELSE /\ RangeBegin(b, lo, hi) = {IteratorAt(b, Least(m), 0)}
                    /\ RangeEnd(b, lo, hi) = Greatest(m) + 1
<1> DEFINE n == NumEntries(b)
           M == Matches(b, lo, hi)
           a == StartIdx(b, lo, hi)
           z == EndIdx(b, lo, hi, a)
<1>1. n \in Nat \ {0} /\ Indices(b) = 0..(n - 1)
  BY EntriesOf DEF Indices
<1>2. M \in SUBSET Indices(b) /\ M \in SUBSET Int
  BY <1>1 DEF Matches
<1>3. \/ a = -1 /\ \A x \in 0..(n - 2) : x \notin M
      \/ a \in 0..(n - 2) /\ a \in M /\ \A x \in 0..(a - 1) : x \notin M
  <2> HIDE DEF M, a
  <2>1. QED
    BY StartIdxLoop DEF M, a
<1>4. a \in Indices(b) => \/ z = -1 /\ \A x \in (a + 1)..(n - 1) : x \notin M
                          \/ /\ z \in (a + 1)..(n - 1) /\ z \in M
                             /\ \A x \in (z + 1)..(n - 1) : x \notin M
  <2> HIDE DEF a
  <2>1. QED
    BY EndIdxLoop
<1>5. /\ RangeBegin(b, lo, hi) = IF n = 0 \/ a = -1 THEN {}
                                 ELSE IF z = -1 THEN {Step(b, IteratorAt(b, a, 0))}
                                 ELSE {IteratorAt(b, a, 0)}
      /\ RangeEnd(b, lo, hi) = z + 1
  BY DEF RangeBegin, RangeEnd
<1> HIDE DEF M, a, z
<1>6. CASE a = -1
  <2>1. M \subseteq {n - 1}
    <3> SUFFICES ASSUME NEW x \in M PROVE x = n - 1
      OBVIOUS
    <3>1. x \in 0..(n - 1) /\ (x = n - 1 \/ x \in 0..(n - 2))
      BY <1>1, <1>2
    <3>2. QED
      BY <1>3, <1>6, <3>1
  <2>2. QED
    BY <1>5, <1>6, <2>1 DEF M
<1>7. CASE a # -1
  <2>1. a \in Indices(b) /\ a + 1 \in Indices(b) /\ a \in M /\ a < n - 1
    BY <1>1, <1>3, <1>7
  <2>2. ~(M \subseteq {n - 1})
    BY <1>1, <2>1
  <2>3. \A x \in M : a <= x
    <3> SUFFICES ASSUME NEW x \in M, x < a PROVE FALSE
      BY <1>1, <1>2, <2>1
    <3>1. x \in 0..(a - 1)
      BY <1>1, <1>2, <2>1
    <3>2. QED
      BY <1>3, <1>7, <3>1
  <2>4. Least(M) = a
    BY <1>2, <2>1, <2>3, LeastIs
  <2>5. CASE z = -1
    <3>1. M = {a}
      <4> SUFFICES ASSUME NEW x \in M PROVE x = a
        BY <2>1
      <4>1. x = a \/ x \in (a + 1)..(n - 1)
        BY <1>1, <1>2, <2>1, <2>3
      <4>2. \A y \in (a + 1)..(n - 1) : y \notin M
        BY <1>1, <1>4, <2>1, <2>5
      <4>3. QED
        BY <4>1, <4>2
    <3>2. RangeBegin(b, lo, hi) = {Step(b, IteratorAt(b, a, 0))}
      BY <1>1, <1>5, <1>7, <2>5
    <3>3. Step(b, IteratorAt(b, a, 0)).index = a + 1
      BY <2>1, PlainIterator
    <3>4. {it.index : it \in RangeBegin(b, lo, hi)} = {a + 1}
      BY <3>2, <3>3
    <3>5. QED
      BY <2>2, <2>4, <3>1, <3>4 DEF M
  <2>6. CASE z # -1
    <3>1. z \in M /\ z \in (a + 1)..(n - 1) /\ \A x \in (z + 1)..(n - 1) : x \notin M
      BY <1>4, <2>1, <2>6
    <3>2. \A x \in M : x <= z
      <4> SUFFICES ASSUME NEW x \in M, z < x PROVE FALSE
        BY <1>1, <1>2, <2>1, <3>1
      <4>1. x \in (z + 1)..(n - 1)
        BY <1>1, <1>2, <2>1, <3>1
      <4>2. QED
        BY <3>1, <4>1
    <3>3. Greatest(M) = z
      BY <1>2, <3>1, <3>2, GreatestIs
    <3>4. M # {a}
      BY <1>1, <2>1, <3>1
    <3>5. RangeBegin(b, lo, hi) = {IteratorAt(b, a, 0)} /\ RangeEnd(b, lo, hi) = z + 1
      BY <1>1, <1>5, <1>7, <2>6
    <3>6. QED
      BY <2>2, <2>4, <3>3, <3>4, <3>5 DEF M
  <2>7. QED
    BY <2>5, <2>6
<1>8. QED
  BY <1>6, <1>7

-----------------------------------------------------------------------------
(* The bytes of a block *)

Metas == [offset : Nat, first_key : Keys, last_key : Keys]
Units == Entries \cup Nat \cup Metas

\* The block of the entries of s behind place a, up to z.
BlockOf(s, a, z) ==
    [data    |-> SubSeq(s, a + 1, z),
     offsets |-> [i \in 1..(z - a) |-> (i - 1) % OffsetRange]]

\* A function on the first n naturals is a sequence of that length.
LEMMA SeqOfFunction ==
    ASSUME NEW S, NEW n \in Nat, NEW f \in [1..n -> S]
    PROVE  f \in Seq(S) /\ Len(f) = n
OBVIOUS

LEMMA BlockOfIs ==
    ASSUME NEW s \in Seq(Entries), NEW z \in 0..Len(s), NEW a \in 0..z
    PROVE  LET b == BlockOf(s, a, z)
           IN  /\ b.data \in Seq(Entries) /\ Len(b.data) = z - a
               /\ \A i \in 1..(z - a) : b.data[i] = s[a + i] /\ b.offsets[i] = (i - 1) % OffsetRange
               /\ b.offsets \in Seq(Nat) /\ Len(b.offsets) = z - a /\ NumEntries(b) = z - a
<1> DEFINE b == BlockOf(s, a, z)
           n == z - a
<1>1. Len(s) \in Nat /\ z \in Nat /\ a \in Nat /\ n \in Nat /\ z <= Len(s)
  OBVIOUS
<1>2. /\ b.data = SubSeq(s, a + 1, z)
      /\ b.offsets = [i \in 1..n |-> (i - 1) % OffsetRange]
  BY DEF BlockOf
<1>3. /\ SubSeq(s, a + 1, z) \in Seq(Entries)
      /\ Len(SubSeq(s, a + 1, z)) = n
      /\ \A i \in 1..n : SubSeq(s, a + 1, z)[i] = s[a + i]
  <2>1. \A i \in (a + 1)..z : s[i] \in Entries
    BY <1>1, ElementsOf
  <2>2. /\ SubSeq(s, a + 1, z) \in Seq(Entries)
        /\ Len(SubSeq(s, a + 1, z)) = IF a + 1 <= z THEN z - (a + 1) + 1 ELSE 0
        /\ \A i \in 1..(z - (a + 1) + 1) : SubSeq(s, a + 1, z)[i] = s[(a + 1) + i - 1]
    BY <1>1, <2>1, SubSeqProperties
  <2>3. /\ z - (a + 1) + 1 = n /\ (IF a + 1 <= z THEN z - (a + 1) + 1 ELSE 0) = n
        /\ \A i \in 1..n : (a + 1) + i - 1 = a + i
    BY <1>1
  <2>4. QED
    BY <2>2, <2>3
<1>4. \A i \in 1..n : (i - 1) % OffsetRange \in Nat
  BY OffsetAssumption
<1>5. b.offsets \in [1..n -> Nat] /\ \A i \in 1..n : b.offsets[i] = (i - 1) % OffsetRange
  BY <1>2, <1>4
<1>6. b.offsets \in Seq(Nat) /\ Len(b.offsets) = n
  <2> DEFINE f == b.offsets
  <2>1. n \in Nat /\ f \in [1..n -> Nat]
    BY <1>1, <1>5
  <2> HIDE DEF b, n, f
  <2>2. f \in Seq(Nat) /\ Len(f) = n
    BY <2>1, SeqOfFunction
  <2>3. QED
    BY <2>2 DEF f
<1>7. QED
  BY <1>2, <1>3, <1>5, <1>6 DEF NumEntries

\* Entries added later leave a block as it is, or make it longer by one.
LEMMA BlockOfAppend ==
    ASSUME NEW s \in Seq(Entries), NEW e \in Entries, NEW z \in 0..Len(s), NEW a \in 0..z
    PROVE  /\ BlockOf(Append(s, e), a, z) = BlockOf(s, a, z)
           /\ z = Len(s) => BlockOf(Append(s, e), a, z + 1) = WithEntry(BlockOf(s, a, z), e)
<1> DEFINE t == Append(s, e)
           b == BlockOf(s, a, z)
<1>1. /\ Len(s) \in Nat /\ t \in Seq(Entries) /\ Len(t) = Len(s) + 1
      /\ \A i \in 1..Len(s) : t[i] = s[i]
      /\ t[Len(s) + 1] = e
  BY AppendProperties
<1> HIDE DEF t
<1>2. z \in Nat /\ a \in Nat /\ z - a \in Nat /\ z <= Len(s) /\ z \in 0..Len(t) /\ a \in 0..z
  BY <1>1
<1>3. /\ b.data \in Seq(Entries) /\ Len(b.data) = z - a
      /\ \A i \in 1..(z - a) : b.data[i] = s[a + i] /\ b.offsets[i] = (i - 1) % OffsetRange
      /\ b.offsets \in Seq(Nat) /\ Len(b.offsets) = z - a
  BY BlockOfIs
<1>4. BlockOf(t, a, z) = b
  <2> DEFINE c == BlockOf(t, a, z)
  <2>1. /\ c.data \in Seq(Entries) /\ Len(c.data) = z - a
        /\ \A i \in 1..(z - a) : c.data[i] = t[a + i]
    BY <1>1, <1>2, BlockOfIs
  <2>2. \A i \in 1..(z - a) : t[a + i] = s[a + i]
    BY <1>1, <1>2
  <2>3. c.data = b.data
    <3> HIDE DEF b, c
    <3>1. \A i \in 1..Len(c.data) : c.data[i] = b.data[i]
      BY <1>3, <2>1, <2>2
    <3>2. QED
      BY <1>3, <2>1, <3>1, SeqEqual
  <2>4. QED
    BY <2>3 DEF BlockOf
<1>5. ASSUME z = Len(s) PROVE BlockOf(t, a, z + 1) = WithEntry(b, e)
  <2> DEFINE c == BlockOf(t, a, z + 1)
             n == z - a
             d == WithEntry(b, e)
  <2>1. z + 1 \in 0..Len(t) /\ a \in 0..(z + 1) /\ (z + 1) - a = n + 1 /\ n \in Nat
    BY <1>1, <1>2, <1>5
  <2>2. /\ c.data \in Seq(Entries) /\ Len(c.data) = n + 1
        /\ \A i \in 1..(n + 1) : c.data[i] = t[a + i] /\ c.offsets[i] = (i - 1) % OffsetRange
        /\ c.offsets \in Seq(Nat) /\ Len(c.offsets) = n + 1
    <3> DEFINE y == z + 1
    <3>1. y \in 0..Len(t) /\ a \in 0..y /\ y - a = n + 1
      BY <2>1
    <3> HIDE DEF y
    <3>2. LET q == BlockOf(t, a, y)
          IN  /\ q.data \in Seq(Entries) /\ Len(q.data) = y - a
              /\ \A i \in 1..(y - a) : q.data[i] = t[a + i] /\ q.offsets[i] = (i - 1) % OffsetRange
              /\ q.offsets \in Seq(Nat) /\ Len(q.offsets) = y - a
      BY <1>1, <3>1, BlockOfIs
    <3> HIDE DEF n
    <3>3. QED
      BY <3>1, <3>2 DEF y
  <2>3. /\ d.data = Append(b.data, e) /\ d.offsets = Append(b.offsets, Len(b.data) % OffsetRange)
    BY DEF WithEntry
  <2>4. Len(b.data) % OffsetRange = n % OffsetRange /\ n % OffsetRange \in Nat
    BY <1>3, <2>1, OffsetAssumption
  <2>5. /\ d.data \in Seq(Entries) /\ Len(d.data) = n + 1
        /\ \A i \in 1..n : d.data[i] = b.data[i]
        /\ d.data[n + 1] = e
    <3> HIDE DEF b, d
    <3>1. QED
      BY <1>3, <2>1, <2>3, AppendProperties
  <2>6. /\ d.offsets \in Seq(Nat) /\ Len(d.offsets) = n + 1
        /\ \A i \in 1..n : d.offsets[i] = b.offsets[i]
        /\ d.offsets[n + 1] = n % OffsetRange
    <3> HIDE DEF b, d
    <3>1. QED
      BY <1>3, <2>1, <2>3, <2>4, AppendProperties
  <2>7. \A i \in 1..(n + 1) : c.data[i] = d.data[i] /\ c.offsets[i] = d.offsets[i]
    <3> SUFFICES ASSUME NEW i \in 1..(n + 1)
                 PROVE  c.data[i] = d.data[i] /\ c.offsets[i] = d.offsets[i]
      OBVIOUS
    <3> HIDE DEF b, c, d
    <3>1. c.data[i] = t[a + i] /\ c.offsets[i] = (i - 1) % OffsetRange
      BY <2>2
    <3>2. CASE i = n + 1
      <4>1. a + i = Len(s) + 1 /\ i - 1 = n
        BY <1>2, <1>5, <2>1, <3>2
      <4>2. QED
        BY <1>1, <2>5, <2>6, <3>1, <3>2, <4>1
    <3>3. CASE i # n + 1
      <4>1. i \in 1..n /\ a + i \in 1..Len(s)
        BY <1>2, <1>5, <2>1, <3>3
      <4>2. d.data[i] = s[a + i] /\ d.offsets[i] = (i - 1) % OffsetRange
        BY <1>3, <2>5, <2>6, <4>1
      <4>3. QED
        BY <1>1, <3>1, <4>1, <4>2
    <3>4. QED
      BY <3>2, <3>3
  <2>8. c.data = d.data
    <3> HIDE DEF c, d
    <3>1. QED
      BY <2>2, <2>5, <2>7, SeqEqual
  <2>9. c.offsets = d.offsets
    <3> HIDE DEF c, d
    <3>1. QED
      BY <2>2, <2>6, <2>7, SeqEqual
  <2>10. QED
    BY <2>8, <2>9 DEF BlockOf, WithEntry
<1>6. QED
  BY <1>4, <1>5 DEF t

LEMMA EncodedIs ==
    ASSUME NEW s \in Seq(Entries), NEW z \in 0..Len(s), NEW a \in 0..z
    PROVE  LET b == BlockOf(s, a, z)
               n == z - a
               c == Encoded(b)
           IN  /\ c \in Seq(Units) /\ Len(c) = 2 * n + 1
               /\ \A i \in 1..n : c[i] = b.data[i] /\ c[n + i] = b.offsets[i]
               /\ c[2 * n + 1] = n % OffsetRange
<1> DEFINE b == BlockOf(s, a, z)
           n == z - a
           last == <<n % OffsetRange>>
<1>1. /\ b.data \in Seq(Entries) /\ Len(b.data) = n /\ n \in Nat
      /\ b.offsets \in Seq(Nat) /\ Len(b.offsets) = n /\ NumEntries(b) = n
  BY BlockOfIs
<1>2. Encoded(b) = b.data \o b.offsets \o last
  BY <1>1 DEF Encoded
<1> HIDE DEF b
<1>3. b.data \in Seq(Units) /\ b.offsets \in Seq(Units)
  BY <1>1, SeqMonotonic DEF Units
<1>4. n % OffsetRange \in Nat
  BY <1>1, OffsetAssumption
<1>5. last \in Seq(Units) /\ Len(last) = 1 /\ last[1] = n % OffsetRange
  <2>1. n % OffsetRange \in Units
    BY <1>4 DEF Units
  <2>2. QED
    BY <2>1
<1> HIDE DEF last, n
<1> DEFINE u == b.data \o b.offsets
<1>6. /\ u \in Seq(Units) /\ Len(u) = n + n
      /\ \A i \in 1..(n + n) : u[i] = IF i <= n THEN b.data[i] ELSE b.offsets[i - n]
  <2> DEFINE x == b.data
             y == b.offsets
  <2>1. x \in Seq(Units) /\ y \in Seq(Units) /\ Len(x) = n /\ Len(y) = n
    BY <1>1, <1>3
  <2> HIDE DEF x, y
  <2>2. /\ x \o y \in Seq(Units) /\ Len(x \o y) = Len(x) + Len(y)
        /\ \A i \in 1..Len(x) + Len(y) : (x \o y)[i] = IF i <= Len(x) THEN x[i] ELSE y[i - Len(x)]
    BY <2>1, ConcatProperties
  <2>3. QED
    BY <2>1, <2>2 DEF x, y
<1> HIDE DEF u
<1> DEFINE c == u \o last
<1>7. /\ c \in Seq(Units) /\ Len(c) = n + n + 1
      /\ \A i \in 1..(n + n + 1) : c[i] = IF i <= n + n THEN u[i] ELSE last[i - (n + n)]
  <2>1. u \in Seq(Units) /\ last \in Seq(Units)
    BY <1>5, <1>6
  <2>2. /\ u \o last \in Seq(Units) /\ Len(u \o last) = Len(u) + Len(last)
        /\ \A i \in 1..Len(u) + Len(last) :
              (u \o last)[i] = IF i <= Len(u) THEN u[i] ELSE last[i - Len(u)]
    BY <2>1, ConcatProperties
  <2>3. QED
    BY <1>5, <1>6, <2>2
<1> HIDE DEF c
<1>8. ASSUME NEW i \in 1..n PROVE c[i] = b.data[i] /\ c[n + i] = b.offsets[i]
  <2>1. i \in 1..(n + n + 1) /\ i <= n + n /\ i \in 1..(n + n) /\ i <= n
    BY <1>1
  <2>2. n + i \in 1..(n + n + 1) /\ n + i <= n + n /\ n + i \in 1..(n + n) /\ ~(n + i <= n) /\ (n + i) - n = i
    BY <1>1
  <2>3. c[i] = b.data[i]
    BY <1>6, <1>7, <2>1
  <2>4. c[n + i] = u[n + i]
    BY <1>7, <2>2
  <2>5. u[n + i] = b.offsets[(n + i) - n]
    BY <1>6, <2>2
  <2>6. QED
    BY <2>2, <2>3, <2>4, <2>5
<1>9. c[n + n + 1] = n % OffsetRange /\ 2 * n = n + n
  BY <1>1, <1>5, <1>7
<1>10. QED
  BY <1>2, <1>7, <1>8, <1>9 DEF b, c, u, n

\* What is read back: the block itself, if its offsets have not wrapped, and else a block
\* that is too long to have been exact.
LEMMA DecodedIs ==
    ASSUME NEW s \in Seq(Entries), NEW z \in 0..Len(s), NEW a \in 0..z
    PROVE  LET b == BlockOf(s, a, z)
               c == Decoded(Encoded(b))
           IN  /\ z - a < OffsetRange => c = b
               /\ Exact(c) => z - a < OffsetRange
<1> DEFINE b == BlockOf(s, a, z)
           n == z - a
           e == Encoded(b)
           c == Decoded(e)
           cnt == n % OffsetRange
<1>1. /\ b.data \in Seq(Entries) /\ Len(b.data) = n /\ n \in Nat
      /\ b.offsets \in Seq(Nat) /\ Len(b.offsets) = n
  BY BlockOfIs
<1>2. /\ e \in Seq(Units) /\ Len(e) = 2 * n + 1
      /\ \A i \in 1..n : e[i] = b.data[i] /\ e[n + i] = b.offsets[i]
      /\ e[2 * n + 1] = cnt
  BY EncodedIs
<1> HIDE DEF e
<1>3. cnt \in 0..(OffsetRange - 1) /\ OffsetRange \in Nat
  BY <1>1, OffsetAssumption
<1>4. n < OffsetRange => cnt = n
  <2>1. ASSUME n < OffsetRange PROVE cnt = n
    <3>1. n \in Nat /\ OffsetRange \in Nat /\ n < OffsetRange
      BY <1>1, <1>3, <2>1
    <3> HIDE DEF n
    <3>2. n % OffsetRange = n
      BY <3>1
    <3>3. QED
      BY <3>2 DEF cnt
  <2>2. QED
    BY <2>1
<1> HIDE DEF cnt
<1>5. /\ c.data = SubSeq(e, 1, 2 * n - cnt)
      /\ c.offsets = SubSeq(e, 2 * n + 1 - cnt, 2 * n)
      /\ c = [data |-> c.data, offsets |-> c.offsets]
  <2> DEFINE k == Len(e)
  <2>1. k = 2 * n + 1
    BY <1>2
  <2>2. e[k] = cnt
    BY <1>2, <2>1
  <2>3. k - 1 - cnt = 2 * n - cnt /\ k - cnt = 2 * n + 1 - cnt /\ k - 1 = 2 * n
    BY <1>1, <1>3, <2>1
  <2>4. c = [data |-> SubSeq(e, 1, k - 1 - cnt), offsets |-> SubSeq(e, k - cnt, k - 1)]
    BY <2>2 DEF Decoded
  <2> HIDE DEF k, c
  <2>5. QED
    BY <2>3, <2>4
<1> HIDE DEF c, b
<1>6. ASSUME n < OffsetRange PROVE c = b
  <2>1. cnt = n /\ 2 * n - cnt = n /\ 2 * n + 1 - cnt = n + 1
    BY <1>1, <1>4, <1>6
  <2>2. c.data = SubSeq(e, 1, n) /\ c.offsets = SubSeq(e, n + 1, 2 * n)
    BY <1>5, <2>1
  <2>3. \A i \in 1..n : e[i] \in Entries /\ e[n + i] \in Nat
    <3> SUFFICES ASSUME NEW i \in 1..n PROVE e[i] \in Entries /\ e[n + i] \in Nat
      OBVIOUS
    <3>1. b.data[i] \in Entries /\ b.offsets[i] \in Nat
      BY <1>1, ElementsOf
    <3>2. QED
      BY <1>2, <3>1
  <2>4. \A i \in (n + 1)..(2 * n) : e[i] \in Nat
    <3> SUFFICES ASSUME NEW i \in (n + 1)..(2 * n) PROVE e[i] \in Nat
      OBVIOUS
    <3>1. i - n \in 1..n /\ n + (i - n) = i
      BY <1>1
    <3>2. QED
      BY <2>3, <3>1
  <2>5. /\ c.data \in Seq(Entries) /\ Len(c.data) = n
        /\ \A i \in 1..n : c.data[i] = e[i]
    <3>1. /\ SubSeq(e, 1, n) \in Seq(Entries)
          /\ Len(SubSeq(e, 1, n)) = IF 1 <= n THEN n - 1 + 1 ELSE 0
          /\ \A i \in 1..(n - 1 + 1) : SubSeq(e, 1, n)[i] = e[1 + i - 1]
      BY <1>1, <2>3, SubSeqProperties
    <3>2. (IF 1 <= n THEN n - 1 + 1 ELSE 0) = n /\ n - 1 + 1 = n /\ \A i \in 1..n : 1 + i - 1 = i
      BY <1>1
    <3>3. QED
      BY <2>2, <3>1, <3>2
  <2>6. /\ c.offsets \in Seq(Nat) /\ Len(c.offsets) = n
        /\ \A i \in 1..n : c.offsets[i] = e[n + i]
    <3> DEFINE l == n + 1
               r == 2 * n
    <3>1. l \in Int /\ r \in Int /\ r - l + 1 = n /\ (IF l <= r THEN r - l + 1 ELSE 0) = n
          /\ \A i \in 1..n : l + i - 1 = n + i
      BY <1>1
    <3>2. \A i \in l..r : e[i] \in Nat
      BY <2>4
    <3> HIDE DEF l, r
    <3>3. /\ SubSeq(e, l, r) \in Seq(Nat)
          /\ Len(SubSeq(e, l, r)) = IF l <= r THEN r - l + 1 ELSE 0
          /\ \A i \in 1..(r - l + 1) : SubSeq(e, l, r)[i] = e[l + i - 1]
      BY <3>1, <3>2, SubSeqProperties
    <3>4. c.offsets = SubSeq(e, l, r)
      BY <2>2 DEF l, r
    <3>5. QED
      BY <3>1, <3>3, <3>4
  <2> HIDE DEF n
  <2>7. c.data = b.data
    BY <1>1, <1>2, <2>5, SeqEqual
  <2>8. c.offsets = b.offsets
    BY <1>1, <1>2, <2>6, SeqEqual
  <2>9. b = [data |-> b.data, offsets |-> b.offsets]
    BY DEF b, BlockOf
  <2>10. QED
    BY <1>5, <2>7, <2>8, <2>9
<1>7. ASSUME ~(n < OffsetRange) PROVE ~Exact(c)
  <2>1. 2 * n - cnt \in Nat /\ 2 * n - cnt >= OffsetRange /\ 2 * n - cnt <= 2 * n + 1
    BY <1>1, <1>3, <1>7
  <2> DEFINE k == 2 * n - cnt
  <2>2. k \in Nat /\ k <= Len(e) /\ k >= 1 /\ k >= OffsetRange
    BY <1>2, <1>3, <2>1, OffsetAssumption
  <2> HIDE DEF k
  <2>3. \A i \in 1..k : e[i] \in Units
    BY <1>2, <2>2, ElementsOf
  <2>4. Len(SubSeq(e, 1, k)) = IF 1 <= k THEN k - 1 + 1 ELSE 0
    BY <2>2, <2>3, SubSeqProperties
  <2>5. Len(c.data) = k
    BY <1>5, <2>2, <2>4 DEF k
  <2>6. QED
    BY <1>3, <2>2, <2>5 DEF Exact
<1>8. QED
  BY <1>6, <1>7 DEF c, b, e

-----------------------------------------------------------------------------
(* The inductive invariant: where the blocks of a file were cut *)

Builders ==
    [block : [data : Seq(Entries), offsets : Seq(Nat)], capacity : Nat, block_size : BlockSizes,
     first_key : Keys \cup {NoKey}, last_key : Keys \cup {NoKey},
     meta_entries : Seq(Metas), data : Seq(Units)]

\* Behind cut[i] entries of s the block i of w ends (the first is block 1).  The bytes of a
\* block are its entries, as many offsets and their number, so that they start where twice the
\* entries before it and one number for each block before it end.
Finished(w, s, cut) ==
    LET m == Len(w.meta_entries)
    IN  /\ cut \in [0..m -> 0..Len(s)] /\ cut[0] = 0
        /\ \A i, j \in 0..m : i < j => cut[i] < cut[j]
        /\ Len(w.data) = 2 * cut[m] + m
        /\ \A i \in 1..m :
              /\ w.meta_entries[i] = [offset    |-> 2 * cut[i - 1] + (i - 1),
                                      first_key |-> s[cut[i - 1] + 1].key,
                                      last_key  |-> s[cut[i]].key]
              /\ SubSeq(w.data, 2 * cut[i - 1] + i, 2 * cut[i] + i)
                     = Encoded(BlockOf(s, cut[i - 1], cut[i]))
              /\ cut[i] - cut[i - 1] <= (IF i = 1 THEN BlockSize ELSE w.block_size) + 1

\* The block not yet finished, of the entries behind place a: at most room of them.
Unfinished(w, s, a, room) ==
    /\ w.capacity = IF w.meta_entries = <<>> THEN BlockSize ELSE w.block_size
    /\ w.block = BlockOf(s, a, Len(s))
    /\ Len(s) - a <= room
    /\ a < Len(s) => w.first_key = s[a + 1].key /\ w.last_key = s[Len(s)].key

Cuts(w, s, cut, room) ==
    w \in Builders /\ Finished(w, s, cut) /\ Unfinished(w, s, cut[Len(w.meta_entries)], room)

InOrder(s) == \A i, j \in 1..Len(s) : i < j => Before(s[i], s[j])

\* What the file of w holds.
Written(w) == w.data \o <<Len(w.meta_entries)>> \o w.meta_entries \o <<Len(w.data)>>

SstInv ==
    /\ added \in Seq(Entries) /\ InOrder(added)
    /\ \E cut : Cuts(builder, added, cut, builder.capacity)
    /\ Built => /\ NumEntries(builder.block) = 0
                /\ builder.meta_entries # <<>>
                /\ file = Written(builder)
                /\ sst = Handle(builder.meta_entries, Len(builder.data))

\* What is finished stays so when an entry is added.
LEMMA FinishedAppend ==
    ASSUME NEW w \in Builders, NEW s \in Seq(Entries), NEW e \in Entries, NEW cut,
           Finished(w, s, cut)
    PROVE  Finished(w, Append(s, e), cut)
<1> DEFINE m == Len(w.meta_entries)
           t == Append(s, e)
<1>1. /\ Len(s) \in Nat /\ t \in Seq(Entries) /\ Len(t) = Len(s) + 1
      /\ \A i \in 1..Len(s) : t[i] = s[i]
  BY AppendProperties
<1>2. m \in Nat
  BY DEF Builders
<1>3. /\ cut \in [0..m -> 0..Len(s)] /\ cut[0] = 0
      /\ \A i, j \in 0..m : i < j => cut[i] < cut[j]
      /\ Len(w.data) = 2 * cut[m] + m
  BY DEF Finished
<1>4. \A i \in 1..m :
         /\ w.meta_entries[i] = [offset    |-> 2 * cut[i - 1] + (i - 1),
                                 first_key |-> s[cut[i - 1] + 1].key,
                                 last_key  |-> s[cut[i]].key]
         /\ SubSeq(w.data, 2 * cut[i - 1] + i, 2 * cut[i] + i)
                = Encoded(BlockOf(s, cut[i - 1], cut[i]))
         /\ cut[i] - cut[i - 1] <= (IF i = 1 THEN BlockSize ELSE w.block_size) + 1
  BY DEF Finished
<1> HIDE DEF m, t
<1>5. cut \in [0..m -> 0..Len(t)]
  BY <1>1, <1>2, <1>3
<1>6. ASSUME NEW i \in 1..m
      PROVE  /\ t[cut[i - 1] + 1] = s[cut[i - 1] + 1] /\ t[cut[i]] = s[cut[i]]
             /\ BlockOf(t, cut[i - 1], cut[i]) = BlockOf(s, cut[i - 1], cut[i])
  <2>1. i - 1 \in 0..m /\ i \in 0..m /\ i - 1 < i
    BY <1>2
  <2>2. cut[i - 1] \in 0..Len(s) /\ cut[i] \in 0..Len(s) /\ cut[i - 1] < cut[i]
    BY <1>3, <2>1
  <2>3. cut[i - 1] + 1 \in 1..Len(s) /\ cut[i] \in 1..Len(s) /\ cut[i - 1] \in 0..cut[i]
    BY <1>1, <2>2
  <2>4. BlockOf(t, cut[i - 1], cut[i]) = BlockOf(s, cut[i - 1], cut[i])
    BY <2>2, <2>3, BlockOfAppend DEF t
  <2>5. QED
    BY <1>1, <2>3, <2>4
<1>7. \A i \in 1..m :
         /\ w.meta_entries[i] = [offset    |-> 2 * cut[i - 1] + (i - 1),
                                 first_key |-> t[cut[i - 1] + 1].key,
                                 last_key  |-> t[cut[i]].key]
         /\ SubSeq(w.data, 2 * cut[i - 1] + i, 2 * cut[i] + i)
                = Encoded(BlockOf(t, cut[i - 1], cut[i]))
         /\ cut[i] - cut[i - 1] <= (IF i = 1 THEN BlockSize ELSE w.block_size) + 1
  BY <1>4, <1>6
<1>8. QED
  BY <1>3, <1>5, <1>7 DEF Finished, m, t

\* A block that is finished with the last entry added.
LEMMA FinishBlockCuts ==
    ASSUME NEW w, NEW s \in Seq(Entries), NEW cut, Cuts(w, s, cut, w.capacity + 1),
           cut[Len(w.meta_entries)] < Len(s)
    PROVE  LET k == FinishBlock(w)
           IN  /\ \E new : Cuts(k, s, new, k.capacity)
               /\ k.meta_entries # <<>> /\ NumEntries(k.block) = 0
<1> DEFINE m == Len(w.meta_entries)
           a == cut[m]
           L == Len(s)
           k == FinishBlock(w)
           M == [offset |-> Len(w.data), first_key |-> w.first_key, last_key |-> w.last_key]
           enc == Encoded(w.block)
           new == [i \in 0..(m + 1) |-> IF i = m + 1 THEN L ELSE cut[i]]
<1>1. /\ w \in Builders /\ m \in Nat /\ w.meta_entries \in Seq(Metas) /\ w.data \in Seq(Units)
      /\ w.capacity \in Nat /\ w.block_size \in BlockSizes /\ w.block_size \in Nat
  <2>1. w \in Builders
    BY DEF Cuts
  <2>2. w.meta_entries \in Seq(Metas) /\ w.data \in Seq(Units) /\ w.capacity \in Nat
        /\ w.block_size \in BlockSizes
    BY <2>1 DEF Builders
  <2>3. BlockSizes \subseteq Nat
    BY SizesAssumption
  <2>4. m \in Nat /\ w.block_size \in Nat
    <3>1. w.block_size \in Nat
      BY <2>2, <2>3
    <3>2. w.meta_entries \in Seq(Metas)
      BY <2>2
    <3>3. m \in Nat
      BY <3>2, LenProperties
    <3>4. QED
      BY <3>1, <3>3
  <2> HIDE DEF m
  <2>5. QED
    BY <2>1, <2>2, <2>4
<1>2. /\ cut \in [0..m -> 0..L] /\ cut[0] = 0
      /\ \A i, j \in 0..m : i < j => cut[i] < cut[j]
      /\ Len(w.data) = 2 * a + m
  BY DEF Cuts, Finished
<1>3. \A i \in 1..m :
         /\ w.meta_entries[i] = [offset    |-> 2 * cut[i - 1] + (i - 1),
                                 first_key |-> s[cut[i - 1] + 1].key,
                                 last_key  |-> s[cut[i]].key]
         /\ SubSeq(w.data, 2 * cut[i - 1] + i, 2 * cut[i] + i)
                = Encoded(BlockOf(s, cut[i - 1], cut[i]))
         /\ cut[i] - cut[i - 1] <= (IF i = 1 THEN BlockSize ELSE w.block_size) + 1
  BY DEF Cuts, Finished
<1>4. /\ w.capacity = (IF w.meta_entries = <<>> THEN BlockSize ELSE w.block_size)
      /\ w.block = BlockOf(s, a, L)
      /\ L - a <= w.capacity + 1
      /\ w.first_key = s[a + 1].key /\ w.last_key = s[L].key
  BY DEF Cuts, Unfinished
<1>5. /\ k.meta_entries = Append(w.meta_entries, M) /\ k.data = w.data \o enc
      /\ k.block = EmptyBlock /\ k.capacity = w.block_size /\ k.block_size = w.block_size
      /\ k.first_key = NoKey /\ k.last_key = NoKey
      /\ k = [block |-> k.block, capacity |-> k.capacity, block_size |-> k.block_size,
              first_key |-> k.first_key, last_key |-> k.last_key,
              meta_entries |-> k.meta_entries, data |-> k.data]
  <2>1. w = [block |-> w.block, capacity |-> w.capacity, block_size |-> w.block_size,
             first_key |-> w.first_key, last_key |-> w.last_key,
             meta_entries |-> w.meta_entries, data |-> w.data]
    BY <1>1 DEF Builders
  <2>2. k = [w EXCEPT !.meta_entries = Append(w.meta_entries, M),
                      !.data = w.data \o enc, !.block = EmptyBlock,
                      !.capacity = w.block_size,
                      !.first_key = NoKey, !.last_key = NoKey]
    BY DEF FinishBlock
  <2> HIDE DEF M, enc, k
  <2>3. k = [block |-> EmptyBlock, capacity |-> w.block_size, block_size |-> w.block_size,
             first_key |-> NoKey, last_key |-> NoKey,
             meta_entries |-> Append(w.meta_entries, M), data |-> w.data \o enc]
    BY <2>1, <2>2
  <2>4. QED
    BY <2>3
<1>6. a \in 0..L /\ a < L /\ L \in Nat /\ a \in Nat /\ L \in 0..Len(s)
  BY <1>1, <1>2
<1> HIDE DEF m, a, k
<1>7. M \in Metas /\ M = [offset |-> 2 * a + m, first_key |-> s[a + 1].key, last_key |-> s[L].key]
  <2>1. s[a + 1] \in Entries /\ s[L] \in Entries
    BY <1>6, ElementsOf
  <2>2. s[a + 1].key \in Keys /\ s[L].key \in Keys
    BY <2>1 DEF Entries
  <2>3. 2 * a + m \in Nat
    BY <1>1, <1>6
  <2>4. QED
    BY <1>2, <1>4, <2>2, <2>3 DEF Metas
<1> HIDE DEF M
<1>8. /\ k.meta_entries \in Seq(Metas) /\ Len(k.meta_entries) = m + 1 /\ k.meta_entries # <<>>
      /\ \A i \in 1..m : k.meta_entries[i] = w.meta_entries[i]
      /\ k.meta_entries[m + 1] = M
  <2> DEFINE x == w.meta_entries
  <2>1. x \in Seq(Metas) /\ M \in Metas /\ m = Len(x)
    BY <1>1, <1>7 DEF m
  <2> HIDE DEF x
  <2>2. /\ Append(x, M) \in Seq(Metas) /\ Append(x, M) # <<>>
        /\ Len(Append(x, M)) = Len(x) + 1
        /\ \A i \in 1..Len(x) : Append(x, M)[i] = x[i]
        /\ Append(x, M)[Len(x) + 1] = M
    BY <2>1, AppendProperties
  <2>3. k.meta_entries = Append(x, M)
    BY <1>5 DEF x
  <2>4. QED
    BY <2>1, <2>2, <2>3 DEF x
<1>9. enc \in Seq(Units) /\ Len(enc) = 2 * (L - a) + 1
  BY <1>4, <1>6, EncodedIs
<1>10. enc = Encoded(BlockOf(s, a, L))
  BY <1>4
<1> HIDE DEF enc
<1>11. k.data \in Seq(Units) /\ Len(k.data) = 2 * L + (m + 1)
  <2>1. k.data \in Seq(Units) /\ Len(k.data) = Len(w.data) + Len(enc)
    BY <1>1, <1>5, <1>9, ConcatProperties
  <2>2. QED
    BY <1>1, <1>2, <1>6, <1>9, <2>1 DEF a
<1>12. /\ new \in [0..(m + 1) -> 0..L] /\ new[0] = 0 /\ new[m + 1] = L
       /\ \A i \in 0..m : new[i] = cut[i] /\ cut[i] \in 0..L
       /\ \A i, j \in 0..(m + 1) : i < j => new[i] < new[j]
  <2>1. \A i \in 0..m : new[i] = cut[i] /\ cut[i] \in 0..L
    BY <1>1, <1>2
  <2>2. new[m + 1] = L /\ 0 \in 0..m /\ m \in 0..m /\ m + 1 \in 0..(m + 1)
    BY <1>1
  <2>3. new \in [0..(m + 1) -> 0..L]
    BY <1>1, <1>2, <1>6
  <2> HIDE DEF new
  <2>4. \A i \in 0..m : cut[i] < L
    <3> SUFFICES ASSUME NEW i \in 0..m PROVE cut[i] < L
      OBVIOUS
    <3>1. i = m \/ i < m
      BY <1>1
    <3>2. cut[i] = a \/ cut[i] < a
      BY <1>2, <2>2, <3>1 DEF a
    <3>3. QED
      BY <1>6, <2>1, <3>2
  <2>5. ASSUME NEW i \in 0..(m + 1), NEW j \in 0..(m + 1), i < j PROVE new[i] < new[j]
    <3>1. i \in 0..m /\ (j = m + 1 \/ j \in 0..m)
      BY <1>1, <2>5
    <3>2. CASE j = m + 1
      BY <2>1, <2>2, <2>4, <3>1, <3>2
    <3>3. CASE j \in 0..m
      BY <1>2, <2>1, <2>5, <3>1, <3>3
    <3>4. QED
      BY <3>1, <3>2, <3>3
  <2>6. QED
    BY <1>2, <2>1, <2>2, <2>3, <2>5
<1> HIDE DEF new
<1>13. ASSUME NEW i \in 1..(m + 1)
       PROVE  /\ k.meta_entries[i] = [offset    |-> 2 * new[i - 1] + (i - 1),
                                      first_key |-> s[new[i - 1] + 1].key,
                                      last_key  |-> s[new[i]].key]
              /\ SubSeq(k.data, 2 * new[i - 1] + i, 2 * new[i] + i)
                     = Encoded(BlockOf(s, new[i - 1], new[i]))
              /\ new[i] - new[i - 1] <= (IF i = 1 THEN BlockSize ELSE k.block_size) + 1
  <2>1. CASE i \in 1..m
    <3>1. i - 1 \in 0..m /\ i \in 0..m /\ i - 1 < i /\ m \in 0..m /\ (i = m \/ i < m)
      BY <1>1, <2>1
    <3>2. /\ new[i - 1] = cut[i - 1] /\ new[i] = cut[i] /\ cut[i - 1] < cut[i]
          /\ cut[i - 1] \in Nat /\ cut[i] \in Nat /\ cut[i] <= a
      <4>1. cut[i] = a \/ cut[i] < a
        BY <1>2, <3>1 DEF a
      <4>2. new[i - 1] = cut[i - 1] /\ new[i] = cut[i] /\ cut[i - 1] < cut[i]
            /\ cut[i - 1] \in 0..L /\ cut[i] \in 0..L
        BY <1>2, <1>12, <3>1
      <4>3. QED
        BY <1>6, <4>1, <4>2
    <3> DEFINE from == 2 * cut[i - 1] + i
               to == 2 * cut[i] + i
    <3>3. from \in 1..Len(w.data) /\ to \in 1..Len(w.data)
      <4>1. Len(w.data) = 2 * a + m
        BY <1>2
      <4>2. cut[i - 1] \in Nat /\ cut[i] \in Nat /\ cut[i - 1] < cut[i] /\ cut[i] <= a /\ i \in Nat
            /\ 1 <= i /\ i <= m
        BY <1>1, <2>1, <3>2
      <4>3. 1 <= from /\ from <= to /\ to <= 2 * a + m /\ from \in Nat /\ to \in Nat
        BY <1>1, <1>6, <4>2, SMTT(30)
      <4> HIDE DEF from, to
      <4>4. QED
        BY <1>1, <1>6, <4>1, <4>3
    <3> HIDE DEF from, to
    <3>4. SubSeq(w.data \o enc, from, to) = SubSeq(w.data, from, to)
      BY <1>1, <1>9, <3>3, SubSeqOfConcat1
    <3>5. SubSeq(k.data, from, to) = Encoded(BlockOf(s, cut[i - 1], cut[i]))
      BY <1>3, <1>5, <2>1, <3>4 DEF from, to
    <3>6. QED
      BY <1>3, <1>5, <1>8, <2>1, <3>2, <3>5 DEF from, to
  <2>2. CASE i = m + 1
    <3>1. i - 1 = m /\ i # 0 /\ m \in 0..m
      BY <1>1, <2>2
    <3>2. new[i - 1] = a /\ new[i] = L
      BY <1>12, <2>2, <3>1 DEF a
    <3>3. k.meta_entries[i] = [offset    |-> 2 * new[i - 1] + (i - 1),
                               first_key |-> s[new[i - 1] + 1].key,
                               last_key  |-> s[new[i]].key]
      BY <1>7, <1>8, <2>2, <3>1, <3>2
    <3> DEFINE n == Len(w.data)
               from == 2 * a + (m + 1)
               to == 2 * L + (m + 1)
    <3>4. /\ n \in Nat /\ from \in n + 1..n + Len(enc) /\ to \in n + 1..n + Len(enc)
          /\ from - n = 1 /\ to - n = Len(enc)
      <4>1. n = 2 * a + m /\ Len(enc) = 2 * (L - a) + 1
        BY <1>2, <1>9
      <4> HIDE DEF n
      <4>2. QED
        BY <1>1, <1>6, <4>1
    <3> HIDE DEF from, to
    <3>5. SubSeq(w.data \o enc, from, to) = SubSeq(enc, from - n, to - n)
      BY <1>1, <1>9, <3>4, SubSeqOfConcat2
    <3>6. SubSeq(enc, 1, Len(enc)) = enc
      BY <1>9, SubSeqFull
    <3>7. SubSeq(k.data, 2 * new[i - 1] + i, 2 * new[i] + i) = Encoded(BlockOf(s, new[i - 1], new[i]))
      BY <1>5, <1>10, <2>2, <3>2, <3>4, <3>5, <3>6 DEF from, to
    <3>8. w.capacity = IF i = 1 THEN BlockSize ELSE k.block_size
      <4>1. i = 1 <=> w.meta_entries = <<>>
        BY <1>1, <2>2 DEF m
      <4>2. QED
        BY <1>4, <1>5, <4>1
    <3>9. new[i] - new[i - 1] <= (IF i = 1 THEN BlockSize ELSE k.block_size) + 1
      BY <1>4, <3>2, <3>8
    <3>10. QED
      BY <3>3, <3>7, <3>9
  <2>3. QED
    BY <1>1, <2>1, <2>2
<1>14. Finished(k, s, new)
  BY <1>8, <1>11, <1>12, <1>13 DEF Finished
<1>15. EmptyBlock = BlockOf(s, L, L) /\ NumEntries(EmptyBlock) = 0
  <2> DEFINE b == BlockOf(s, L, L)
  <2>1. L \in 0..Len(s) /\ L \in 0..L
    BY <1>6
  <2>2. /\ b.data \in Seq(Entries) /\ Len(b.data) = L - L
        /\ b.offsets \in Seq(Nat) /\ Len(b.offsets) = L - L
    BY <2>1, BlockOfIs
  <2>3. L - L = 0
    BY <1>6
  <2> HIDE DEF b, L
  <2>4. b.data = <<>> /\ b.offsets = <<>>
    BY <2>2, <2>3, EmptySeq
  <2>5. BlockOf(s, L, L) = [data |-> b.data, offsets |-> b.offsets]
    BY DEF BlockOf, b
  <2>6. QED
    BY <2>4, <2>5 DEF EmptyBlock, NumEntries
<1>16. Unfinished(k, s, L, k.capacity)
  <2>1. L - L = 0 /\ ~(L < Len(s))
    BY <1>6
  <2>2. k.capacity \in Nat
    BY <1>1, <1>5
  <2> HIDE DEF L
  <2>3. L = Len(s)
    BY DEF L
  <2>4. L - L <= k.capacity
    BY <2>1, <2>2
  <2>5. QED
    BY <1>5, <1>8, <1>15, <2>1, <2>3, <2>4 DEF Unfinished
<1>17. k \in Builders
  <2>1. EmptyBlock \in [data : Seq(Entries), offsets : Seq(Nat)]
    BY DEF EmptyBlock
  <2>2. QED
    BY <1>1, <1>5, <1>8, <1>11, <2>1 DEF Builders
<1>18. Cuts(k, s, new, k.capacity)
  BY <1>8, <1>12, <1>14, <1>16, <1>17 DEF Cuts
<1>19. QED
  BY <1>5, <1>8, <1>15, <1>18 DEF k

LEMMA AddedCuts ==
    ASSUME NEW w, NEW s \in Seq(Entries), NEW e \in Entries, NEW cut, Cuts(w, s, cut, w.capacity)
    PROVE  \E new : Cuts(Added(w, e), Append(s, e), new, Added(w, e).capacity)
<1> DEFINE m == Len(w.meta_entries)
           a == cut[m]
           L == Len(s)
           t == Append(s, e)
           k == [w EXCEPT !.first_key = IF NumEntries(w.block) = 0 THEN e.key ELSE @,
                          !.last_key = e.key,
                          !.block = WithEntry(@, e)]
<1>1. w \in Builders /\ m \in Nat /\ Finished(w, s, cut)
  <2>1. w \in Builders /\ Finished(w, s, cut)
    BY DEF Cuts
  <2>2. w.meta_entries \in Seq(Metas)
    BY <2>1 DEF Builders
  <2>3. QED
    BY <2>1, <2>2, LenProperties
<1>2. /\ t \in Seq(Entries) /\ Len(t) = L + 1 /\ L \in Nat
      /\ \A i \in 1..L : t[i] = s[i]
      /\ t[L + 1] = e
  BY AppendProperties
<1>3. a \in 0..L /\ a \in Nat /\ a <= L
  <2>1. cut \in [0..m -> 0..L]
    BY <1>1 DEF Finished
  <2>2. QED
    BY <1>1, <1>2, <2>1
<1>4. /\ w.capacity = (IF w.meta_entries = <<>> THEN BlockSize ELSE w.block_size)
      /\ w.block = BlockOf(s, a, L)
      /\ L - a <= w.capacity
      /\ a < L => w.first_key = s[a + 1].key
      /\ w.capacity \in Nat
  BY <1>1 DEF Cuts, Unfinished, Builders
<1>5. k = [block |-> WithEntry(w.block, e), capacity |-> w.capacity, block_size |-> w.block_size,
           first_key |-> IF NumEntries(w.block) = 0 THEN e.key ELSE w.first_key,
           last_key |-> e.key, meta_entries |-> w.meta_entries, data |-> w.data]
  <2>1. w = [block |-> w.block, capacity |-> w.capacity, block_size |-> w.block_size,
             first_key |-> w.first_key, last_key |-> w.last_key,
             meta_entries |-> w.meta_entries, data |-> w.data]
    BY <1>1 DEF Builders
  <2> DEFINE fk == IF NumEntries(w.block) = 0 THEN e.key ELSE w.first_key
             bk == WithEntry(w.block, e)
  <2>2. k = [w EXCEPT !.first_key = fk, !.last_key = e.key, !.block = bk]
    OBVIOUS
  <2> HIDE DEF fk, bk, k
  <2>3. k = [block |-> bk, capacity |-> w.capacity, block_size |-> w.block_size,
             first_key |-> fk, last_key |-> e.key,
             meta_entries |-> w.meta_entries, data |-> w.data]
    BY <2>1, <2>2
  <2>4. QED
    BY <2>3 DEF fk, bk
<1>6. Added(w, e) = IF Overflows(w.block, w.capacity) THEN FinishBlock(k) ELSE k
  BY DEF Added
<1> HIDE DEF m, a, k
<1>7. NumEntries(w.block) = L - a /\ Len(w.block.data) = L - a
  BY <1>2, <1>3, <1>4, BlockOfIs
<1>8. WithEntry(w.block, e) = BlockOf(t, a, L + 1)
  BY <1>2, <1>3, <1>4, BlockOfAppend
<1>9. BlockOf(t, a, L + 1) \in [data : Seq(Entries), offsets : Seq(Nat)]
  <2> DEFINE z == L + 1
             b == BlockOf(t, a, z)
  <2>1. z \in 0..Len(t) /\ a \in 0..z
    BY <1>2, <1>3
  <2> HIDE DEF z
  <2>2. b.data \in Seq(Entries) /\ b.offsets \in Seq(Nat)
    BY <1>2, <2>1, BlockOfIs
  <2>3. b = [data |-> b.data, offsets |-> b.offsets]
    BY DEF BlockOf
  <2> HIDE DEF b
  <2>4. b \in [data : Seq(Entries), offsets : Seq(Nat)]
    BY <2>2, <2>3
  <2>5. QED
    BY <2>4 DEF b, z
<1>10. k.first_key = t[a + 1].key /\ k.last_key = t[Len(t)].key
  <2>1. CASE L = a
    BY <1>2, <1>3, <1>5, <1>7, <2>1
  <2>2. CASE L # a
    <3>1. a < L /\ a + 1 \in 1..L /\ ~(L - a = 0)
      BY <1>2, <1>3, <2>2
    <3>2. k.first_key = w.first_key
      BY <1>5, <1>7, <3>1
    <3>3. QED
      BY <1>2, <1>4, <1>5, <3>1, <3>2
  <2>3. QED
    BY <2>1, <2>2
<1>11. k \in Builders
  <2>1. e.key \in Keys
    BY DEF Entries
  <2>2. WithEntry(w.block, e) \in [data : Seq(Entries), offsets : Seq(Nat)]
    BY <1>8, <1>9
  <2>3. /\ w.capacity \in Nat /\ w.block_size \in BlockSizes /\ w.meta_entries \in Seq(Metas)
        /\ w.data \in Seq(Units) /\ w.first_key \in Keys \cup {NoKey}
    BY <1>1 DEF Builders
  <2>4. QED
    BY <1>5, <2>1, <2>2, <2>3 DEF Builders
<1>12. Finished(k, t, cut)
  <2>1. Finished(w, t, cut)
    BY <1>1, FinishedAppend
  <2>2. k.meta_entries = w.meta_entries /\ k.data = w.data /\ k.block_size = w.block_size
    BY <1>5
  <2>3. QED
    BY <2>1, <2>2 DEF Finished
<1>13. /\ k.meta_entries = w.meta_entries /\ k.capacity = w.capacity /\ k.block_size = w.block_size
       /\ k.block = BlockOf(t, a, Len(t)) /\ Len(k.meta_entries) = m /\ cut[Len(k.meta_entries)] = a
  BY <1>2, <1>5, <1>8 DEF m, a
<1>14. ASSUME NEW room, Len(t) - a <= room PROVE Cuts(k, t, cut, room)
  <2>1. Unfinished(k, t, a, room)
    BY <1>4, <1>10, <1>13, <1>14 DEF Unfinished
  <2>2. QED
    BY <1>11, <1>12, <1>13, <2>1 DEF Cuts
<1>15. CASE Overflows(w.block, w.capacity)
  <2>1. Len(t) - a <= k.capacity + 1
    BY <1>2, <1>3, <1>4, <1>13
  <2>2. Cuts(k, t, cut, k.capacity + 1)
    BY <1>14, <2>1
  <2>3. cut[Len(k.meta_entries)] < Len(t)
    BY <1>2, <1>3, <1>13
  <2>4. \E new : Cuts(FinishBlock(k), t, new, FinishBlock(k).capacity)
    BY <1>2, <2>2, <2>3, FinishBlockCuts
  <2>5. QED
    BY <1>6, <1>15, <2>4
<1>16. CASE ~Overflows(w.block, w.capacity)
  <2>1. Len(t) - a <= k.capacity
    <3>1. ~(L - a + 1 > w.capacity)
      BY <1>7, <1>16 DEF Overflows
    <3>2. QED
      BY <1>2, <1>3, <1>4, <1>13, <3>1
  <2>2. QED
    BY <1>6, <1>14, <1>16, <2>1
<1>17. QED
  BY <1>15, <1>16

LEMMA BeforeTransitive ==
    ASSUME NEW e \in Entries, NEW f \in Entries, NEW g \in Entries, Before(e, f), Before(f, g)
    PROVE  Before(e, g)
<1>1. e.key \in Keys /\ f.key \in Keys /\ g.key \in Keys
      /\ e.tranc_id \in 1..MaxId /\ f.tranc_id \in 1..MaxId /\ g.tranc_id \in 1..MaxId
  BY DEF Entries
<1>2. Keys \subseteq Int /\ 1..MaxId \subseteq Int
  BY KeysAssumption, MaxIdAssumption
<1>3. e.key \in Int /\ f.key \in Int /\ g.key \in Int
      /\ e.tranc_id \in Int /\ f.tranc_id \in Int /\ g.tranc_id \in Int
  BY <1>1, <1>2
<1>4. QED
  BY <1>3 DEF Before

LEMMA OrderKept ==
    ASSUME NEW s \in Seq(Entries), InOrder(s), NEW e \in Entries, s # <<>> => Before(Last(s), e)
    PROVE  InOrder(Append(s, e))
<1> DEFINE t == Append(s, e)
           L == Len(s)
<1>1. /\ t \in Seq(Entries) /\ Len(t) = L + 1 /\ L \in Nat
      /\ \A i \in 1..L : t[i] = s[i] /\ s[i] \in Entries
      /\ t[L + 1] = e
  <2>1. \A i \in 1..L : s[i] \in Entries
    BY ElementsOf
  <2>2. QED
    BY <2>1, AppendProperties
<1> HIDE DEF t
<1>2. ASSUME NEW i \in 1..(L + 1), NEW j \in 1..(L + 1), i < j PROVE Before(t[i], t[j])
  <2>1. i \in 1..L /\ s # <<>> /\ L \in 1..L /\ (j = L + 1 \/ j \in 1..L) /\ (i = L \/ i < L)
    BY <1>1, <1>2
  <2>2. CASE j \in 1..L
    BY <1>1, <1>2, <2>1, <2>2 DEF InOrder
  <2>3. CASE j = L + 1
    <3>1. Last(s) = s[L] /\ Before(s[L], e)
      BY <2>1 DEF Last
    <3>2. CASE i = L
      BY <1>1, <2>1, <2>3, <3>1, <3>2
    <3>3. CASE i < L
      <4>1. Before(s[i], s[L]) /\ s[i] \in Entries /\ s[L] \in Entries
        BY <1>1, <2>1, <3>3 DEF InOrder
      <4>2. Before(s[i], e)
        BY <3>1, <4>1, BeforeTransitive
      <4>3. QED
        BY <1>1, <2>1, <2>3, <4>2
    <3>4. QED
      BY <2>1, <3>2, <3>3
  <2>4. QED
    BY <2>1, <2>2, <2>3
<1>3. QED
  BY <1>1, <1>2 DEF InOrder, t

\* What is built, and read back by open, is what the handle of the file says.
LEMMA OpenSame ==
    ASSUME NEW w \in Builders, w.meta_entries # <<>>, file = Written(w), Open
    PROVE  sst' = Handle(w.meta_entries, Len(w.data))
<1> DEFINE d == w.data
           ms == w.meta_entries
           n == Len(d)
           m == Len(ms)
           one == <<m>>
           end == <<n>>
           u == d \o one
           v == u \o ms
           x == v \o end
<1>1. d \in Seq(Units) /\ ms \in Seq(Metas) /\ ms \in Seq(Units) /\ n \in Nat /\ m \in Nat
  <2>1. d \in Seq(Units) /\ ms \in Seq(Metas)
    BY DEF Builders
  <2>2. Metas \subseteq Units
    BY DEF Units
  <2> HIDE DEF d, ms
  <2>3. ms \in Seq(Units)
    BY <2>1, <2>2, SeqMonotonic
  <2>4. QED
    BY <2>1, <2>3, LenProperties
<1>2. file = x
  BY DEF Written
<1>3. sst' = Handle(SubSeq(SubSeq(file, Last(file) + 1, Len(file) - 1), 2,
                           1 + SubSeq(file, Last(file) + 1, Len(file) - 1)[1]), Last(file))
  BY DEF Open
<1>4. m \in Nat \ {0}
  BY <1>1
<1>5. one \in Seq(Units) /\ Len(one) = 1 /\ one[1] = m /\ end \in Seq(Units) /\ Len(end) = 1 /\ end[1] = n
  <2>1. m \in Units /\ n \in Units
    BY <1>1 DEF Units
  <2> HIDE DEF m, n
  <2>2. QED
    BY <2>1
<1> HIDE DEF d, ms, n, m, one, end
<1>6. /\ u \in Seq(Units) /\ Len(u) = n + 1
      /\ \A i \in 1..(n + 1) : u[i] = IF i <= n THEN d[i] ELSE one[i - n]
  <2>1. /\ d \o one \in Seq(Units) /\ Len(d \o one) = Len(d) + Len(one)
        /\ \A i \in 1..Len(d) + Len(one) : (d \o one)[i] = IF i <= Len(d) THEN d[i] ELSE one[i - Len(d)]
    BY <1>1, <1>5, ConcatProperties
  <2>2. QED
    BY <1>5, <2>1 DEF n
<1> HIDE DEF u
<1>7. /\ v \in Seq(Units) /\ Len(v) = n + 1 + m
      /\ \A i \in 1..(n + 1 + m) : v[i] = IF i <= n + 1 THEN u[i] ELSE ms[i - (n + 1)]
  <2>1. /\ u \o ms \in Seq(Units) /\ Len(u \o ms) = Len(u) + Len(ms)
        /\ \A i \in 1..Len(u) + Len(ms) : (u \o ms)[i] = IF i <= Len(u) THEN u[i] ELSE ms[i - Len(u)]
    BY <1>1, <1>6, ConcatProperties
  <2>2. QED
    BY <1>6, <2>1 DEF m
<1> HIDE DEF v
<1>8. /\ x \in Seq(Units) /\ Len(x) = n + 1 + m + 1
      /\ \A i \in 1..(n + 1 + m + 1) : x[i] = IF i <= n + 1 + m THEN v[i] ELSE end[i - (n + 1 + m)]
  <2>1. /\ v \o end \in Seq(Units) /\ Len(v \o end) = Len(v) + Len(end)
        /\ \A i \in 1..Len(v) + Len(end) : (v \o end)[i] = IF i <= Len(v) THEN v[i] ELSE end[i - Len(v)]
    BY <1>5, <1>7, ConcatProperties
  <2>2. QED
    BY <1>5, <1>7, <2>1
<1> HIDE DEF x
<1>9. Last(x) = n
  <2>1. Len(x) \in 1..(n + 1 + m + 1) /\ ~(Len(x) <= n + 1 + m) /\ Len(x) - (n + 1 + m) = 1
    BY <1>1, <1>8
  <2>2. x[Len(x)] = end[1]
    BY <1>8, <2>1
  <2>3. QED
    BY <1>5, <2>2 DEF Last
<1> DEFINE metas == SubSeq(x, n + 1, Len(x) - 1)
<1>10. /\ metas \in Seq(Units) /\ Len(metas) = m + 1
       /\ \A i \in 1..(m + 1) : metas[i] = x[n + i]
  <2> DEFINE l == n + 1
             r == Len(x) - 1
  <2>1. l \in Int /\ r \in Int /\ l <= r /\ r - l + 1 = m + 1 /\ 1 <= l /\ r <= Len(x)
        /\ \A i \in 1..(m + 1) : l + i - 1 = n + i
    BY <1>1, <1>8
  <2>2. \A i \in l..r : x[i] \in Units
    <3>1. \A i \in l..r : i \in 1..Len(x)
      BY <1>8, <2>1
    <3> HIDE DEF l, r
    <3>2. QED
      BY <1>8, <3>1, ElementsOf
  <2> HIDE DEF l, r
  <2>3. /\ SubSeq(x, l, r) \in Seq(Units)
        /\ Len(SubSeq(x, l, r)) = IF l <= r THEN r - l + 1 ELSE 0
        /\ \A i \in 1..(r - l + 1) : SubSeq(x, l, r)[i] = x[l + i - 1]
    BY <2>1, <2>2, SubSeqProperties
  <2>4. QED
    BY <2>1, <2>3 DEF l, r
<1> HIDE DEF metas
<1>11. metas[1] = m
  <2>1. n + 1 \in 1..(n + 1 + m + 1) /\ n + 1 <= n + 1 + m /\ n + 1 \in 1..(n + 1 + m)
        /\ n + 1 <= n + 1 /\ n + 1 \in 1..(n + 1) /\ ~(n + 1 <= n) /\ (n + 1) - n = 1 /\ 1 \in 1..(m + 1)
    BY <1>1
  <2>2. metas[1] = u[n + 1]
    BY <1>7, <1>8, <1>10, <2>1
  <2>3. QED
    BY <1>5, <1>6, <2>1, <2>2
<1>12. ASSUME NEW i \in 1..m PROVE metas[i + 1] = ms[i]
  <2>1. i + 1 \in 1..(m + 1) /\ n + (i + 1) \in 1..(n + 1 + m + 1) /\ n + (i + 1) <= n + 1 + m
        /\ n + (i + 1) \in 1..(n + 1 + m) /\ ~(n + (i + 1) <= n + 1) /\ (n + (i + 1)) - (n + 1) = i
    BY <1>1
  <2>2. metas[i + 1] = x[n + (i + 1)]
    BY <1>10, <2>1
  <2>3. x[n + (i + 1)] = v[n + (i + 1)]
    BY <1>8, <2>1
  <2>4. v[n + (i + 1)] = ms[i]
    BY <1>7, <2>1
  <2>5. QED
    BY <2>2, <2>3, <2>4
<1>13. SubSeq(metas, 2, 1 + m) = ms
  <2> DEFINE q == SubSeq(metas, 2, 1 + m)
  <2>1. \A i \in 2..(1 + m) : metas[i] \in Units
    BY <1>1, <1>10, ElementsOf
  <2>2. /\ q \in Seq(Units)
        /\ Len(q) = IF 2 <= 1 + m THEN (1 + m) - 2 + 1 ELSE 0
        /\ \A i \in 1..((1 + m) - 2 + 1) : q[i] = metas[2 + i - 1]
    BY <1>1, <2>1, SubSeqProperties
  <2> HIDE DEF q
  <2>3. (1 + m) - 2 + 1 = m /\ (IF 2 <= 1 + m THEN (1 + m) - 2 + 1 ELSE 0) = m
        /\ \A i \in 1..m : 2 + i - 1 = i + 1
    BY <1>4
  <2>4. Len(q) = m /\ \A i \in 1..m : q[i] = ms[i]
    BY <1>12, <2>2, <2>3
  <2>5. Len(ms) = m
    BY DEF m
  <2>6. q = ms
    BY <1>1, <2>2, <2>4, <2>5, SeqEqual
  <2>7. QED
    BY <2>6 DEF q
<1>14. sst' = Handle(SubSeq(metas, 2, 1 + metas[1]), n)
  BY <1>2, <1>3, <1>9 DEF metas
<1>15. sst' = Handle(ms, n)
  BY <1>11, <1>13, <1>14
<1>16. QED
  BY <1>15 DEF ms, n, d

LEMMA InitSst == Init => SstInv
<1> SUFFICES ASSUME Init PROVE SstInv
  OBVIOUS
<1> DEFINE w == builder
           cut == [i \in 0..0 |-> 0]
<1>1. PICK size \in BlockSizes :
         w = [block |-> EmptyBlock, capacity |-> BlockSize, block_size |-> size,
              first_key |-> NoKey, last_key |-> NoKey,
              meta_entries |-> <<>>, data |-> <<>>]
  BY DEF Init
<1>2. sst = NoSst /\ added = <<>>
  BY DEF Init
<1>3. BlockSize \in Nat
  BY SizesAssumption
<1> HIDE DEF w
<1>4. w \in Builders
  <2>1. EmptyBlock \in [data : Seq(Entries), offsets : Seq(Nat)]
    BY DEF EmptyBlock
  <2>2. <<>> \in Seq(Metas) /\ <<>> \in Seq(Units)
    OBVIOUS
  <2>3. QED
    BY <1>1, <1>3, <2>1, <2>2 DEF Builders
<1>5. Len(w.meta_entries) = 0 /\ Len(w.data) = 0 /\ w.meta_entries = <<>>
      /\ Len(added) = 0 /\ added \in Seq(Entries)
  BY <1>1, <1>2
<1>6. Finished(w, added, cut)
  <2> DEFINE m == Len(w.meta_entries)
             n == Len(added)
  <2>1. m = 0 /\ n = 0 /\ Len(w.data) = 0
    BY <1>5
  <2> HIDE DEF m, n
  <2>2. cut \in [0..m -> 0..n] /\ cut[0] = 0 /\ (\A i, j \in 0..m : ~(i < j)) /\ 1..m = {}
    BY <2>1
  <2>3. Len(w.data) = 2 * cut[m] + m
    BY <2>1
  <2>4. QED
    BY <2>2, <2>3 DEF Finished, m, n
<1>7. EmptyBlock = BlockOf(added, 0, 0)
  <2> DEFINE b == BlockOf(added, 0, 0)
  <2>1. /\ b.data \in Seq(Entries) /\ Len(b.data) = 0 - 0
        /\ b.offsets \in Seq(Nat) /\ Len(b.offsets) = 0 - 0
    <3>1. 0 \in 0..Len(added) /\ 0 \in 0..0
      BY <1>5
    <3> HIDE DEF b
    <3>2. LET c == BlockOf(added, 0, 0)
          IN  /\ c.data \in Seq(Entries) /\ Len(c.data) = 0 - 0
              /\ c.offsets \in Seq(Nat) /\ Len(c.offsets) = 0 - 0
      BY <1>5, <3>1, BlockOfIs
    <3>3. QED
      BY <3>2 DEF b
  <2> HIDE DEF b
  <2>2. b.data = <<>> /\ b.offsets = <<>>
    BY <2>1, EmptySeq
  <2>3. BlockOf(added, 0, 0) = [data |-> b.data, offsets |-> b.offsets]
    BY DEF BlockOf, b
  <2>4. QED
    BY <2>2, <2>3 DEF EmptyBlock
<1>8. Unfinished(w, added, 0, w.capacity)
  BY <1>1, <1>3, <1>5, <1>7 DEF Unfinished
<1>9. Cuts(w, added, cut, w.capacity)
  <2>1. cut[Len(w.meta_entries)] = 0
    BY <1>5
  <2> HIDE DEF cut
  <2>2. QED
    BY <1>4, <1>6, <1>8, <2>1 DEF Cuts
<1>10. \E c : Cuts(builder, added, c, builder.capacity)
  BY <1>9 DEF w
<1>11. InOrder(added)
  BY <1>5 DEF InOrder
<1>12. QED
  BY <1>2, <1>5, <1>10, <1>11 DEF SstInv, Built

LEMMA AddSst ==
    ASSUME SstInv, NEW e \in Entries, Add(e)
    PROVE  SstInv'
<1>1. PICK cut : Cuts(builder, added, cut, builder.capacity)
  BY DEF SstInv
<1>2. added \in Seq(Entries) /\ InOrder(added)
  BY DEF SstInv
<1>3. /\ builder' = Added(builder, e) /\ added' = Append(added, e)
      /\ sst = NoSst /\ sst' = sst
      /\ added # <<>> => Before(Last(added), e)
  BY DEF Add
<1>4. \E new : Cuts(builder', added', new, builder'.capacity)
  BY <1>1, <1>2, <1>3, AddedCuts
<1>5. InOrder(added')
  <2>1. InOrder(Append(added, e))
    BY <1>2, <1>3, OrderKept
  <2>2. QED
    BY <1>3, <2>1
<1>6. added' \in Seq(Entries)
  BY <1>2, <1>3, AppendProperties
<1>7. QED
  BY <1>3, <1>4, <1>5, <1>6 DEF SstInv, Built

LEMMA BuildSst ==
    ASSUME SstInv, Build
    PROVE  SstInv'
<1> DEFINE w == IF NumEntries(builder.block) = 0 THEN builder ELSE FinishBlock(builder)
<1>1. PICK cut : Cuts(builder, added, cut, builder.capacity)
  BY DEF SstInv
<1>2. added \in Seq(Entries) /\ InOrder(added)
  BY DEF SstInv
<1>3. /\ w.meta_entries # <<>> /\ builder' = w /\ file' = Written(w)
      /\ sst' = Handle(w.meta_entries, Len(w.data)) /\ added' = added
  BY DEF Build, Written
<1>4. (\E new : Cuts(w, added, new, w.capacity)) /\ NumEntries(w.block) = 0
  <2>1. CASE NumEntries(builder.block) = 0
    BY <1>1, <2>1
  <2>2. CASE NumEntries(builder.block) # 0
    <3> DEFINE m == Len(builder.meta_entries)
               a == cut[m]
               L == Len(added)
    <3>1. builder \in Builders /\ cut \in [0..m -> 0..L] /\ builder.block = BlockOf(added, a, L)
          /\ L - a <= builder.capacity
          /\ Finished(builder, added, cut) /\ Unfinished(builder, added, a, builder.capacity)
      BY <1>1 DEF Cuts, Finished, Unfinished
    <3>2. builder.meta_entries \in Seq(Metas) /\ builder.capacity \in Nat
      BY <3>1 DEF Builders
    <3>3. m \in Nat /\ L \in Nat /\ m \in 0..m
      BY <1>2, <3>2, LenProperties
    <3>4. a \in 0..L /\ a \in Nat /\ L \in 0..L
      BY <3>1, <3>3
    <3>5. NumEntries(builder.block) = L - a
      <4> DEFINE z == L
      <4>1. z \in 0..Len(added) /\ a \in 0..z /\ builder.block = BlockOf(added, a, z)
        BY <3>1, <3>4
      <4> HIDE DEF a, z
      <4>2. NumEntries(BlockOf(added, a, z)) = z - a
        BY <1>2, <4>1, BlockOfIs
      <4>3. QED
        BY <4>1, <4>2 DEF z
    <3>6. a < L
      BY <2>2, <3>3, <3>4, <3>5
    <3>7. L - a <= builder.capacity + 1
      BY <3>1, <3>2, <3>3, <3>4
    <3>8. Unfinished(builder, added, a, builder.capacity + 1)
      BY <3>1, <3>7 DEF Unfinished
    <3>9. Cuts(builder, added, cut, builder.capacity + 1)
      BY <3>1, <3>8 DEF Cuts
    <3>10. w = FinishBlock(builder)
      BY <2>2
    <3> HIDE DEF w
    <3>11. QED
      BY <1>2, <3>6, <3>9, <3>10, FinishBlockCuts
  <2>3. QED
    BY <2>1, <2>2
<1> HIDE DEF w
<1>5. QED
  BY <1>2, <1>3, <1>4 DEF SstInv, Built

\* SstInv holds at first and is kept by every step, so that it holds always.
THEOREM CutsKept == Spec => []SstInv
<1>1. Init => SstInv
  BY InitSst
<1>2. ASSUME SstInv, [Next]_vars PROVE SstInv'
  <2>1. CASE \E e \in Entries : Add(e)
    BY <1>2, <2>1, AddSst
  <2>2. CASE Build
    BY <1>2, <2>2, BuildSst
  <2>3. CASE Open
    <3>1. Built /\ builder' = builder /\ file' = file /\ added' = added
      BY <2>3 DEF Open, Built
    <3>2. /\ builder.meta_entries # <<>> /\ file = Written(builder)
          /\ NumEntries(builder.block) = 0
      BY <1>2, <3>1 DEF SstInv
    <3>3. builder \in Builders
      BY <1>2 DEF SstInv, Cuts
    <3>4. sst' = Handle(builder.meta_entries, Len(builder.data))
      BY <2>3, <3>2, <3>3, OpenSame
    <3>5. QED
      BY <1>2, <3>1, <3>2, <3>4 DEF SstInv, Built
  <2>4. CASE UNCHANGED vars
    BY <1>2, <2>4 DEF SstInv, Built, vars
  <2>5. QED
    BY <1>2, <2>1, <2>2, <2>3, <2>4 DEF Next
<1>3. QED
  BY <1>1, <1>2, PTL DEF Spec

-----------------------------------------------------------------------------
(* What is read from a file that was built *)

\* The blocks of a file hold all that was added.
LEMMA FileIs ==
    ASSUME SstInv, Built, NEW cut, Cuts(builder, added, cut, builder.capacity)
    PROVE  /\ sst = Handle(builder.meta_entries, Len(builder.data))
           /\ sst.meta_entries = builder.meta_entries
           /\ NumBlocks = Len(builder.meta_entries) /\ NumBlocks \in Nat \ {0}
           /\ added \in Seq(Entries) /\ Len(added) \in Nat /\ InOrder(added)
           /\ cut \in [0..NumBlocks -> 0..Len(added)] /\ cut[0] = 0 /\ cut[NumBlocks] = Len(added)
           /\ \A i, j \in 0..NumBlocks : i < j => cut[i] < cut[j]
           /\ \A i \in 1..NumBlocks :
                 sst.meta_entries[i] = [offset    |-> 2 * cut[i - 1] + (i - 1),
                                        first_key |-> added[cut[i - 1] + 1].key,
                                        last_key  |-> added[cut[i]].key]
<1> DEFINE w == builder
           m == Len(w.meta_entries)
           L == Len(added)
<1>1. /\ sst = Handle(w.meta_entries, Len(w.data)) /\ w.meta_entries # <<>>
      /\ NumEntries(w.block) = 0 /\ added \in Seq(Entries) /\ InOrder(added)
  BY DEF SstInv
<1>2. sst.meta_entries = w.meta_entries
  BY <1>1 DEF Handle
<1>3. NumBlocks = m
  BY <1>2 DEF NumBlocks
<1>4. w \in Builders /\ Finished(w, added, cut) /\ w.block = BlockOf(added, cut[m], L)
  BY DEF Cuts, Unfinished
<1>5. m \in Nat \ {0} /\ L \in Nat
  <2>1. w.meta_entries \in Seq(Metas)
    BY <1>4 DEF Builders
  <2>2. QED
    BY <1>1, <2>1, EmptySeq, LenProperties
<1>6. /\ cut \in [0..m -> 0..L] /\ cut[0] = 0
      /\ \A i, j \in 0..m : i < j => cut[i] < cut[j]
      /\ \A i \in 1..m :
            w.meta_entries[i] = [offset    |-> 2 * cut[i - 1] + (i - 1),
                                 first_key |-> added[cut[i - 1] + 1].key,
                                 last_key  |-> added[cut[i]].key]
  BY <1>4 DEF Finished
<1>7. cut[m] = L
  <2> DEFINE a == cut[m]
             z == L
  <2>1. a \in 0..z /\ z \in 0..Len(added) /\ z \in Nat
    BY <1>5, <1>6
  <2>2. w.block = BlockOf(added, a, z)
    BY <1>4
  <2> HIDE DEF a, z
  <2>3. NumEntries(BlockOf(added, a, z)) = z - a
    BY <1>1, <2>1, BlockOfIs
  <2>4. a = z
    BY <1>1, <2>1, <2>2, <2>3
  <2>5. QED
    BY <2>4 DEF a, z
<1> HIDE DEF m, L
<1>8. /\ NumBlocks \in Nat \ {0}
      /\ cut \in [0..NumBlocks -> 0..L] /\ cut[0] = 0 /\ cut[NumBlocks] = L
      /\ \A i, j \in 0..NumBlocks : i < j => cut[i] < cut[j]
  BY <1>3, <1>5, <1>6, <1>7
<1>9. \A i \in 1..NumBlocks :
         sst.meta_entries[i] = [offset    |-> 2 * cut[i - 1] + (i - 1),
                                first_key |-> added[cut[i - 1] + 1].key,
                                last_key  |-> added[cut[i]].key]
  BY <1>2, <1>3, <1>6
<1>10. QED
  BY <1>1, <1>2, <1>3, <1>5, <1>8, <1>9 DEF m, L

LEMMA ReadIs ==
    ASSUME SstInv, Built, NEW cut, Cuts(builder, added, cut, builder.capacity),
           NEW i \in 0..(NumBlocks - 1)
    PROVE  /\ i \in 0..NumBlocks /\ i + 1 \in 0..NumBlocks
           /\ cut[i] \in Nat /\ cut[i + 1] \in 0..Len(added) /\ cut[i] < cut[i + 1]
           /\ ReadBlock(i) = Decoded(Encoded(BlockOf(added, cut[i], cut[i + 1])))
           /\ cut[i + 1] - cut[i] <= (IF i = 0 THEN BlockSize ELSE builder.block_size) + 1
<1> DEFINE w == builder
           m == NumBlocks
           L == Len(added)
           enc == Encoded(BlockOf(added, cut[i], cut[i + 1]))
           from == 2 * cut[i] + i
           to == 2 * cut[i + 1] + (i + 1)
<1>1. /\ sst = Handle(w.meta_entries, Len(w.data)) /\ m = Len(w.meta_entries) /\ m \in Nat \ {0}
      /\ cut \in [0..m -> 0..L] /\ cut[m] = L /\ L \in Nat
      /\ \A x, y \in 0..m : x < y => cut[x] < cut[y]
      /\ \A x \in 1..m :
            sst.meta_entries[x] = [offset    |-> 2 * cut[x - 1] + (x - 1),
                                   first_key |-> added[cut[x - 1] + 1].key,
                                   last_key  |-> added[cut[x]].key]
  BY FileIs
<1>2. w \in Builders /\ Finished(w, added, cut) /\ file = Written(w)
  BY DEF Cuts, SstInv
<1>3. w.data \in Seq(Units) /\ w.meta_entries \in Seq(Metas)
  BY <1>2 DEF Builders
<1>4. /\ Len(w.data) = 2 * L + m
      /\ \A x \in 1..m :
            /\ SubSeq(w.data, 2 * cut[x - 1] + x, 2 * cut[x] + x)
                   = Encoded(BlockOf(added, cut[x - 1], cut[x]))
            /\ cut[x] - cut[x - 1] <= (IF x = 1 THEN BlockSize ELSE w.block_size) + 1
  BY <1>1, <1>2 DEF Finished
<1> HIDE DEF m
<1>5. /\ i \in 0..m /\ i + 1 \in 0..m /\ i < i + 1 /\ i + 1 \in 1..m /\ (i + 1) - 1 = i /\ i \in Nat
      /\ (i + 1 = m \/ (i + 2 \in 1..m /\ (i + 2) - 1 = i + 1)) /\ (i = m - 1 <=> i + 1 = m)
      /\ (i + 1 = 1 <=> i = 0)
  BY <1>1 DEF m
<1>6. cut[i] \in Nat /\ cut[i + 1] \in 0..L /\ cut[i] < cut[i + 1] /\ cut[i + 1] <= L
  BY <1>1, <1>5
<1>6a. \A x \in 1..m : sst.meta_entries[x].offset = 2 * cut[x - 1] + (x - 1)
  <2> SUFFICES ASSUME NEW x \in 1..m
               PROVE  sst.meta_entries[x].offset = 2 * cut[x - 1] + (x - 1)
    OBVIOUS
  <2> DEFINE o == 2 * cut[x - 1] + (x - 1)
  <2>1. sst.meta_entries[x] = [offset    |-> o,
                               first_key |-> added[cut[x - 1] + 1].key,
                               last_key  |-> added[cut[x]].key]
    BY <1>1
  <2> HIDE DEF o
  <2>2. sst.meta_entries[x].offset = o
    BY <2>1
  <2>3. QED
    BY <2>2 DEF o
<1>6b. L \in Nat /\ m \in Nat /\ Len(w.data) = 2 * L + m
  BY <1>1, <1>4
<1>7. sst.meta_entries[i + 1].offset = from
  <2>1. sst.meta_entries[i + 1].offset = 2 * cut[(i + 1) - 1] + ((i + 1) - 1)
    BY <1>5, <1>6a
  <2>2. QED
    BY <1>5, <2>1
<1>8. (IF i = m - 1 THEN sst.meta_block_offset ELSE sst.meta_entries[i + 2].offset) = to
  <2>1. CASE i + 1 = m
    <3>1. sst.meta_block_offset = Len(w.data)
      BY <1>1 DEF Handle
    <3>2. cut[i + 1] = L
      BY <1>1, <2>1
    <3>3. QED
      BY <1>4, <1>5, <2>1, <3>1, <3>2
  <2>2. CASE i + 1 # m
    <3>1. sst.meta_entries[i + 2].offset = 2 * cut[i + 1] + (i + 1)
      <4>1. sst.meta_entries[i + 2].offset = 2 * cut[(i + 2) - 1] + ((i + 2) - 1)
        BY <1>5, <1>6a, <2>2
      <4>2. QED
        BY <1>5, <2>2, <4>1
    <3>2. QED
      BY <1>5, <2>2, <3>1
  <2>3. QED
    BY <2>1, <2>2
<1>9. ReadBlock(i) = Decoded(SubSeq(file, from + 1, to))
  <2> HIDE DEF from, to
  <2>1. QED
    BY <1>7, <1>8 DEF ReadBlock, m
<1>10. SubSeq(w.data, from + 1, to) = enc
  <2>1. from + 1 = 2 * cut[i] + (i + 1)
    BY <1>5, <1>6
  <2>2. SubSeq(w.data, 2 * cut[(i + 1) - 1] + (i + 1), 2 * cut[i + 1] + (i + 1))
            = Encoded(BlockOf(added, cut[(i + 1) - 1], cut[i + 1]))
    BY <1>4, <1>5
  <2>3. QED
    BY <1>5, <2>1, <2>2
<1>11. from + 1 \in 1..Len(w.data) /\ to \in 1..Len(w.data)
  <2>1. 0 <= from /\ from + 1 <= to /\ to <= 2 * L + m /\ from \in Nat /\ to \in Nat
    <3>1. cut[i] \in Nat /\ cut[i + 1] \in Nat /\ cut[i] < cut[i + 1] /\ cut[i + 1] <= L
          /\ i \in Nat /\ i + 1 <= m /\ m \in Nat /\ L \in Nat
      BY <1>1, <1>5, <1>6
    <3> HIDE DEF L
    <3>2. QED
      BY <3>1
  <2> HIDE DEF from, to
  <2>2. Len(w.data) = 2 * L + m /\ 2 * L + m \in Nat
    BY <1>6b
  <2> HIDE DEF L
  <2>3. from + 1 \in Nat /\ 1 <= from + 1 /\ from + 1 <= 2 * L + m /\ 1 <= to
    BY <2>1, <2>2
  <2>4. QED
    BY <2>1, <2>2, <2>3
<1>12. SubSeq(file, from + 1, to) = SubSeq(w.data, from + 1, to)
  <2> DEFINE d == w.data
             ms == w.meta_entries
             one == <<m>>
             end == <<Len(w.data)>>
             rest == (one \o ms) \o end
  <2>1. d \in Seq(Units) /\ one \in Seq(Units) /\ end \in Seq(Units) /\ ms \in Seq(Units)
    <3>1. Metas \subseteq Units /\ Nat \subseteq Units
      BY DEF Units
    <3>2. w.meta_entries \in Seq(Units)
      BY <1>3, <3>1, SeqMonotonic
    <3>3. m \in Units /\ Len(w.data) \in Units
      BY <1>1, <1>3, <3>1, LenProperties
    <3>4. QED
      BY <1>3, <3>2, <3>3
  <2>2. file = ((d \o one) \o ms) \o end
    BY <1>1, <1>2 DEF Written, m
  <2> HIDE DEF one, end, from, to, d, ms
  <2>3. file = d \o rest /\ rest \in Seq(Units)
    <3>1. (d \o one) \o ms = d \o (one \o ms)
      BY <2>1, ConcatAssociative
    <3>2. one \o ms \in Seq(Units)
      BY <2>1, ConcatProperties
    <3>3. (d \o (one \o ms)) \o end = d \o rest
      BY <2>1, <3>2, ConcatAssociative, SMTT(30)
    <3>4. rest \in Seq(Units)
      BY <2>1, <3>2, ConcatProperties
    <3>5. QED
      BY <2>2, <3>1, <3>3, <3>4
  <2> HIDE DEF rest
  <2>4. from + 1 \in 1..Len(d) /\ to \in 1..Len(d)
    BY <1>11 DEF d
  <2>5. SubSeq(d \o rest, from + 1, to) = SubSeq(d, from + 1, to)
    BY <2>1, <2>3, <2>4, SubSeqOfConcat1
  <2>6. QED
    BY <2>3, <2>5 DEF d
<1>13. ReadBlock(i) = Decoded(enc)
  BY <1>9, <1>10, <1>12
<1>14. cut[i + 1] - cut[i] <= (IF i = 0 THEN BlockSize ELSE w.block_size) + 1
  BY <1>4, <1>5
<1>15. QED
  BY <1>5, <1>6, <1>13, <1>14 DEF m

\* A block whose offsets have not wrapped is read back as it was cut.
LEMMA ExactIs ==
    ASSUME SstInv, Built, NEW cut, Cuts(builder, added, cut, builder.capacity),
           NEW i \in 0..(NumBlocks - 1)
    PROVE  /\ Exact(ReadBlock(i)) <=> cut[i + 1] - cut[i] < OffsetRange
           /\ Exact(ReadBlock(i)) => /\ ReadBlock(i) = BlockOf(added, cut[i], cut[i + 1])
                                     /\ GoodBlock(ReadBlock(i))
<1> DEFINE a == cut[i]
           z == cut[i + 1]
           b == BlockOf(added, a, z)
<1>1. /\ a \in Nat /\ z \in 0..Len(added) /\ a < z /\ ReadBlock(i) = Decoded(Encoded(b))
  BY ReadIs
<1>2. added \in Seq(Entries) /\ InOrder(added) /\ Len(added) \in Nat
  BY FileIs
<1> HIDE DEF a, z
<1>3. a \in 0..z /\ z \in Nat /\ z <= Len(added)
  BY <1>1, <1>2
<1>4. /\ z - a < OffsetRange => Decoded(Encoded(b)) = b
      /\ Exact(Decoded(Encoded(b))) => z - a < OffsetRange
  BY <1>1, <1>2, <1>3, DecodedIs
<1>5. /\ b.data \in Seq(Entries) /\ Len(b.data) = z - a
      /\ \A x \in 1..(z - a) : b.data[x] = added[a + x] /\ b.offsets[x] = (x - 1) % OffsetRange
      /\ b.offsets \in Seq(Nat) /\ Len(b.offsets) = z - a
  BY <1>1, <1>2, <1>3, BlockOfIs
<1>6. b.offsets = [x \in 1..(z - a) |-> (x - 1) % OffsetRange]
  BY DEF BlockOf
<1> HIDE DEF b
<1>7. ASSUME z - a < OffsetRange PROVE GoodBlock(b)
  <2> DEFINE n == z - a
  <2>1. n \in Nat /\ n >= 1 /\ n < OffsetRange /\ OffsetRange \in Nat
    BY <1>1, <1>3, <1>7, OffsetAssumption
  <2>2. \A x \in 1..n : (x - 1) % OffsetRange = x - 1
    <3> SUFFICES ASSUME NEW x \in 1..n PROVE (x - 1) % OffsetRange = x - 1
      OBVIOUS
    <3> DEFINE y == x - 1
    <3>1. y \in Nat /\ y < OffsetRange /\ OffsetRange \in Nat
      BY <2>1
    <3> HIDE DEF y
    <3>2. y % OffsetRange = y
      BY <3>1
    <3>3. QED
      BY <3>2 DEF y
  <2>3. b.offsets = [x \in 1..n |-> x - 1]
    BY <1>6, <2>2
  <2>4. \A x, y \in 1..n : x < y => Before(b.data[x], b.data[y])
    <3> SUFFICES ASSUME NEW x \in 1..n, NEW y \in 1..n, x < y PROVE Before(b.data[x], b.data[y])
      OBVIOUS
    <3>1. a + x \in 1..Len(added) /\ a + y \in 1..Len(added) /\ a + x < a + y
      BY <1>1, <1>2, <1>3
    <3>2. Before(added[a + x], added[a + y])
      BY <1>2, <3>1 DEF InOrder
    <3>3. QED
      BY <1>5, <3>2
  <2>5. Len(b.data) = n /\ n \in 1..(OffsetRange - 1)
    BY <1>5, <2>1
  <2> HIDE DEF n
  <2>6. QED
    BY <1>5, <2>3, <2>4, <2>5 DEF GoodBlock
<1>8. z - a < OffsetRange => Exact(Decoded(Encoded(b)))
  BY <1>4, <1>5 DEF Exact
<1>9. QED
  BY <1>1, <1>4, <1>7, <1>8 DEF a, z, b

LEMMA ExactBlock ==
    ASSUME SstInv, Built, NEW b \in Blocks, Exact(b)
    PROVE  GoodBlock(b)
<1>1. PICK i \in 0..(NumBlocks - 1) : b = ReadBlock(i)
  BY DEF Blocks
<1>2. PICK cut : Cuts(builder, added, cut, builder.capacity)
  BY DEF SstInv
<1>3. QED
  BY <1>1, <1>2, ExactIs

\* The search by key and id in a block: get_idx_binary and adjust_idx_by_tranc_id find the
\* newest version of a key that the reader sees, whatever the keys, the ids and the size of
\* the block.
THEOREM BlocksSearched == Spec => []BinaryExact
<1>1. ASSUME SstInv PROVE BinaryExact
  <2> SUFFICES ASSUME Built, NEW b \in Blocks, Exact(b), NEW id \in Reader, NEW key \in Keys
               PROVE  LET seen == {i \in Indices(b) : EntryAt(b, i).key = key /\ Sees(id, EntryAt(b, i))}
                          idx  == IF seen = {} THEN {} ELSE {Least(seen)}
                      IN  /\ IdxBinary(b, key, id) = idx
                          /\ \A i \in Indices(b) : EntryAt(b, i).key = key =>
                                AdjustIdx(b, i, id) = IF seen = {} THEN -1 ELSE Least(seen)
    BY DEF BinaryExact
  <2>1. GoodBlock(b)
    BY <1>1, ExactBlock
  <2>2. id \in Nat
    BY MaxIdAssumption DEF Reader
  <2>3. QED
    BY <2>1, <2>2, IdxBinaryIs, AdjustIdxIs
<1>2. QED
  BY <1>1, CutsKept, PTL

\* The range of a predicate in a block: with two matches or more it is exact, without one
\* there is none.
THEOREM BlockRanges == Spec => []RangeExact
<1>1. ASSUME SstInv PROVE RangeExact
  <2> SUFFICES ASSUME Built, NEW b \in Blocks, Exact(b), NEW lo \in Keys, NEW hi \in Keys
               PROVE  LET m == Matches(b, lo, hi)
                      IN  /\ PrefixRange(b, lo, hi) =
                                IF m = {} THEN {} ELSE {<<Least(m), Greatest(m) + 1>>}
                          /\ m = {} => RangeBegin(b, lo, hi) = {}
                          /\ Cardinality(m) > 1 =>
                                /\ RangeBegin(b, lo, hi) = {IteratorAt(b, Least(m), 0)}
                                /\ RangeEnd(b, lo, hi) = Greatest(m) + 1
    BY DEF RangeExact
  <2> DEFINE m == Matches(b, lo, hi)
  <2>1. GoodBlock(b)
    BY <1>1, ExactBlock
  <2>2. /\ PrefixRange(b, lo, hi) = IF m = {} THEN {} ELSE {<<Least(m), Greatest(m) + 1>>}
        /\ IF m \subseteq {NumEntries(b) - 1} THEN RangeBegin(b, lo, hi) = {}
           ELSE IF m = {Least(m)}
           THEN {it.index : it \in RangeBegin(b, lo, hi)} = {Least(m) + 1}
           ELSE /\ RangeBegin(b, lo, hi) = {IteratorAt(b, Least(m), 0)}
                /\ RangeEnd(b, lo, hi) = Greatest(m) + 1
    BY <2>1, PrefixRangeIs, RangeBeginIs
  <2> HIDE DEF m
  <2>3. \A x : m \subseteq {x} => Cardinality(m) \in {0, 1}
    <3>1. SUFFICES ASSUME NEW x, m \subseteq {x} PROVE Cardinality(m) \in {0, 1}
      OBVIOUS
    <3>2. m = {} \/ m = {x}
      BY <3>1
    <3>3. Cardinality({}) = 0 /\ Cardinality({x}) = 1
      BY FS_EmptySet, FS_Singleton
    <3>4. QED
      BY <3>2, <3>3
  <2>4. QED
    BY <2>2, <2>3 DEF m
<1>2. QED
  BY <1>1, CutsKept, PTL

\* Pieces of a sequence, one after the other.
LEMMA FlattenPieces ==
    ASSUME NEW S, NEW s \in Seq(S), NEW n \in Nat \ {0}, NEW cut \in [0..n -> 0..Len(s)],
           cut[0] = 0, cut[n] = Len(s), \A i, j \in 0..n : i < j => cut[i] < cut[j]
    PROVE  FlattenSeq([i \in 1..n |-> SubSeq(s, cut[i - 1] + 1, cut[i])]) = s
<1> DEFINE seqs == [i \in 1..n |-> SubSeq(s, cut[i - 1] + 1, cut[i])]
           Is(f) == f = [i \in 1..Len(seqs) |-> IF i = 1 THEN seqs[i] ELSE f[i - 1] \o seqs[i]]
           f == CHOOSE g : Is(g)
           G == [i \in 1..n |-> SubSeq(s, 1, cut[i])]
<1>1. Len(s) \in Nat /\ s \in [1..Len(s) -> S]
  BY LenProperties
<1>2. ASSUME NEW i \in 1..n
      PROVE  /\ i - 1 \in 0..n /\ i \in 0..n /\ cut[i - 1] \in 0..Len(s) /\ cut[i] \in 0..Len(s)
             /\ cut[i - 1] < cut[i]
  <2>1. i - 1 \in 0..n /\ i \in 0..n /\ i - 1 < i
    OBVIOUS
  <2>2. QED
    BY <2>1
<1>3. Len(seqs) = n
  <2>1. ASSUME NEW i \in 1..n PROVE SubSeq(s, cut[i - 1] + 1, cut[i]) \in Seq(S)
    <3> DEFINE l == cut[i - 1] + 1
               r == cut[i]
    <3>1. l \in Int /\ r \in Int /\ l..r \subseteq 1..Len(s)
      BY <1>1, <1>2
    <3> HIDE DEF l, r
    <3>2. \A j \in l..r : s[j] \in S
      BY <1>1, <3>1
    <3>3. SubSeq(s, l, r) \in Seq(S)
      BY <3>1, <3>2, SubSeqProperties
    <3>4. QED
      BY <3>3 DEF l, r
  <2>2. seqs \in [1..n -> Seq(S)]
    BY <2>1
  <2> HIDE DEF seqs
  <2>3. QED
    BY <2>2
<1>4. \A i \in 1..n : seqs[i] = SubSeq(s, cut[i - 1] + 1, cut[i])
  OBVIOUS
<1>5. FlattenSeq(seqs) = f[n]
  <2>1. Len(seqs) # 0
    BY <1>3
  <2>2. FlattenSeq(seqs) = f[Len(seqs)]
    <3> HIDE DEF seqs
    <3>1. QED
      BY <2>1 DEF FlattenSeq
  <2>3. QED
    BY <1>3, <2>2
<1> HIDE DEF seqs
<1>6. ASSUME NEW i \in 1..n PROVE G[i] = IF i = 1 THEN seqs[i] ELSE G[i - 1] \o seqs[i]
  <2>1. CASE i = 1
    <3>1. i - 1 = 0
      BY <2>1
    <3>2. cut[i - 1] + 1 = 1
      BY <3>1
    <3>3. seqs[i] = SubSeq(s, 1, cut[i])
      BY <1>4, <3>2
    <3>4. QED
      BY <2>1, <3>3
  <2>2. CASE i # 1
    <3> DEFINE k == cut[i - 1]
               r == cut[i]
    <3>1. /\ 1 \in 1..Len(s)+1 /\ k \in 1-1..Len(s) /\ r \in k..Len(s)
      BY <1>1, <1>2
    <3>2. G[i - 1] = SubSeq(s, 1, k) /\ G[i] = SubSeq(s, 1, r)
      BY <2>2
    <3>3. seqs[i] = SubSeq(s, k + 1, r)
      BY <1>4
    <3> HIDE DEF k, r, G
    <3>4. SubSeq(s, 1, k) \o SubSeq(s, k + 1, r) = SubSeq(s, 1, r)
      BY <3>1, ConcatAdjacentSubSeq
    <3>5. QED
      BY <2>2, <3>2, <3>3, <3>4
  <2>3. QED
    BY <2>1, <2>2
<1>7. Is(G)
  <2>1. G = [i \in 1..n |-> G[i]]
    OBVIOUS
  <2> HIDE DEF G
  <2>2. G = [i \in 1..n |-> IF i = 1 THEN seqs[i] ELSE G[i - 1] \o seqs[i]]
    BY <1>6, <2>1
  <2>3. QED
    BY <1>3, <2>2
<1>8. Is(f)
  <2> HIDE DEF Is
  <2>1. QED
    BY <1>7
<1>9. \A i \in 1..n : f[i] = IF i = 1 THEN seqs[i] ELSE f[i - 1] \o seqs[i]
  <2> HIDE DEF f
  <2>1. QED
    BY <1>3, <1>8
<1> HIDE DEF f, Is
<1>10. ASSUME NEW i \in 1..n PROVE f[i] = G[i]
  <2> DEFINE Same == {k \in Nat : k \in 1..n => f[k] = G[k]}
  <2> HIDE DEF G
  <2>1. 0 \in Same
    OBVIOUS
  <2>2. ASSUME NEW k \in Nat, k \in Same PROVE k + 1 \in Same
    <3> SUFFICES ASSUME k + 1 \in 1..n PROVE f[k + 1] = G[k + 1]
      OBVIOUS
    <3>1. CASE k = 0
      BY <1>6, <1>9, <3>1
    <3>2. CASE k # 0
      <4>1. k \in 1..n /\ k + 1 # 1 /\ (k + 1) - 1 = k
        BY <3>2
      <4>2. f[k] = G[k]
        BY <2>2, <4>1
      <4>3. f[k + 1] = f[k] \o seqs[k + 1]
        BY <1>9, <4>1
      <4>4. G[k + 1] = G[k] \o seqs[k + 1]
        BY <1>6, <4>1
      <4>5. QED
        BY <4>2, <4>3, <4>4
    <3>3. QED
      BY <3>1, <3>2
  <2> HIDE DEF Same
  <2>3. Nat \subseteq Same
    BY <2>1, <2>2, InductionSet
  <2>4. QED
    BY <2>3 DEF Same
<1>11. f[n] = SubSeq(s, 1, Len(s))
  <2>1. n \in 1..n
    OBVIOUS
  <2>2. G[n] = SubSeq(s, 1, cut[n])
    BY <2>1
  <2> HIDE DEF G
  <2>3. QED
    BY <1>10, <2>1, <2>2
<1>12. SubSeq(s, 1, Len(s)) = s
  BY SubSeqFull
<1>13. QED
  BY <1>5, <1>11, <1>12 DEF seqs

\* An exact block begins and ends with the keys the index gives it.
LEMMA RightIs ==
    ASSUME SstInv, Built, NEW cut, Cuts(builder, added, cut, builder.capacity),
           NEW i \in 0..(NumBlocks - 1), Exact(ReadBlock(i))
    PROVE  LET b == ReadBlock(i)
           IN  /\ b.data = SubSeq(added, cut[i] + 1, cut[i + 1])
               /\ Len(b.data) = cut[i + 1] - cut[i]
               /\ \A x \in 1..(cut[i + 1] - cut[i]) : b.data[x] = added[cut[i] + x]
               /\ FirstKey(b) = sst.meta_entries[i + 1].first_key
               /\ LastKey(b) = sst.meta_entries[i + 1].last_key
               /\ sst.meta_entries[i + 1].first_key = added[cut[i] + 1].key
               /\ sst.meta_entries[i + 1].last_key = added[cut[i + 1]].key
<1> DEFINE b == ReadBlock(i)
           a == cut[i]
           z == cut[i + 1]
<1>1. a \in Nat /\ z \in 0..Len(added) /\ a < z
  BY ReadIs
<1>2. b = BlockOf(added, a, z) /\ GoodBlock(b)
  BY ExactIs
<1>3. added \in Seq(Entries) /\ Len(added) \in Nat
  BY FileIs
<1>4. /\ sst.meta_entries[i + 1].first_key = added[a + 1].key
      /\ sst.meta_entries[i + 1].last_key = added[z].key
  <2>1. i + 1 \in 1..NumBlocks /\ (i + 1) - 1 = i
    BY FileIs
  <2>2. sst.meta_entries[i + 1] = [offset    |-> 2 * cut[(i + 1) - 1] + ((i + 1) - 1),
                                   first_key |-> added[cut[(i + 1) - 1] + 1].key,
                                   last_key  |-> added[cut[i + 1]].key]
    BY <2>1, FileIs
  <2>3. QED
    BY <2>1, <2>2
<1> HIDE DEF a, z, b
<1>5. a \in 0..z /\ z \in Nat
  BY <1>1, <1>3
<1>6. /\ Len(b.data) = z - a /\ NumEntries(b) = z - a
      /\ \A x \in 1..(z - a) : b.data[x] = added[a + x]
  BY <1>1, <1>2, <1>3, <1>5, BlockOfIs
<1>7. b.data = SubSeq(added, a + 1, z)
  BY <1>2 DEF BlockOf
<1>8. FirstKey(b) = added[a + 1].key
  BY <1>1, <1>5, <1>6 DEF FirstKey
<1>9. LastKey(b) = added[z].key
  <2> DEFINE k == NumEntries(b) - 1
  <2>1. k \in Indices(b) /\ k + 1 = z - a /\ z - a \in 1..(z - a) /\ a + (z - a) = z
    BY <1>1, <1>5, <1>6 DEF Indices
  <2>2. LastKey(b) = EntryAt(b, k).key
    BY DEF LastKey
  <2> HIDE DEF k
  <2>3. EntryAt(b, k) = b.data[k + 1]
    BY <1>2, <2>1, EntriesOf
  <2>4. QED
    BY <1>6, <2>1, <2>2, <2>3
<1>10. QED
  BY <1>4, <1>6, <1>7, <1>8, <1>9 DEF a, b, z

\* Nothing is dropped, repeated or moved where a block ends, for every size of a block that
\* its offsets can count; and the first block is right for every size.
THEOREM BlocksComplete == Spec => []NothingDropped
<1>1. ASSUME SstInv, Built
      PROVE  LET right(i) ==
                   /\ FirstKey(ReadBlock(i)) = sst.meta_entries[i + 1].first_key
                   /\ LastKey(ReadBlock(i)) = sst.meta_entries[i + 1].last_key
             IN  /\ right(0) /\ ReadBlock(0).data = SubSeq(added, 1, Len(ReadBlock(0).data))
                 /\ builder.block_size + 1 < OffsetRange =>
                       /\ \A i \in 0..(NumBlocks - 1) : right(i)
                       /\ FlattenSeq([i \in 1..NumBlocks |-> ReadBlock(i - 1).data]) = added
                 /\ <<sst.first_key, sst.last_key>> = <<Head(added).key, Last(added).key>>
  <2> DEFINE m == NumBlocks
             L == Len(added)
             right(i) == /\ FirstKey(ReadBlock(i)) = sst.meta_entries[i + 1].first_key
                         /\ LastKey(ReadBlock(i)) = sst.meta_entries[i + 1].last_key
  <2>1. PICK cut : Cuts(builder, added, cut, builder.capacity)
    BY <1>1 DEF SstInv
  <2>2. /\ sst = Handle(builder.meta_entries, Len(builder.data))
        /\ sst.meta_entries = builder.meta_entries
        /\ m = Len(builder.meta_entries) /\ m \in Nat \ {0}
        /\ added \in Seq(Entries) /\ L \in Nat
        /\ cut \in [0..m -> 0..L] /\ cut[0] = 0 /\ cut[m] = L
        /\ \A i, j \in 0..m : i < j => cut[i] < cut[j]
        /\ \A i \in 1..m :
              sst.meta_entries[i] = [offset    |-> 2 * cut[i - 1] + (i - 1),
                                     first_key |-> added[cut[i - 1] + 1].key,
                                     last_key  |-> added[cut[i]].key]
    BY <1>1, <2>1, FileIs
  <2>3. ASSUME NEW i \in 0..(m - 1), Exact(ReadBlock(i))
        PROVE  right(i) /\ ReadBlock(i).data = SubSeq(added, cut[i] + 1, cut[i + 1])
               /\ Len(ReadBlock(i).data) = cut[i + 1] - cut[i]
    BY <1>1, <2>1, <2>3, RightIs
  <2>4. BlockSize \in Nat /\ BlockSize + 1 < OffsetRange /\ OffsetRange \in Nat
    BY SizesAssumption, OffsetAssumption
  <2>5. \A i \in 0..(m - 1) :
           /\ cut[i] \in Nat /\ cut[i + 1] \in 0..L /\ cut[i] < cut[i + 1]
           /\ cut[i + 1] - cut[i] <= (IF i = 0 THEN BlockSize ELSE builder.block_size) + 1
           /\ Exact(ReadBlock(i)) <=> cut[i + 1] - cut[i] < OffsetRange
    BY <1>1, <2>1, ReadIs, ExactIs
  <2>6. builder.block_size \in Nat
    <3>1. builder \in Builders
      BY <2>1 DEF Cuts
    <3>2. builder.block_size \in BlockSizes
      BY <3>1 DEF Builders
    <3>3. QED
      BY <3>2, SizesAssumption
  <2>7. Exact(ReadBlock(0)) /\ 0 \in 0..(m - 1)
    <3>1. 0 \in 0..(m - 1) /\ 0 + 1 = 1
      BY <2>2
    <3>2. cut[0 + 1] - cut[0] \in Int /\ cut[0 + 1] - cut[0] <= BlockSize + 1
      BY <2>2, <2>5, <3>1
    <3>3. cut[0 + 1] - cut[0] < OffsetRange
      BY <2>4, <3>2
    <3>4. QED
      BY <2>5, <3>1, <3>3
  <2>8. right(0) /\ ReadBlock(0).data = SubSeq(added, 1, Len(ReadBlock(0).data))
    <3>1. /\ right(0) /\ ReadBlock(0).data = SubSeq(added, cut[0] + 1, cut[0 + 1])
          /\ Len(ReadBlock(0).data) = cut[0 + 1] - cut[0]
      BY <2>3, <2>7
    <3>2. cut[0 + 1] \in Int
      BY <2>2, <2>5, <2>7
    <3>3. cut[0] + 1 = 1 /\ cut[0 + 1] - cut[0] = cut[0 + 1]
      BY <2>2, <3>2
    <3> HIDE DEF right
    <3>4. QED
      BY <3>1, <3>3
  <2>9. ASSUME builder.block_size + 1 < OffsetRange
        PROVE  /\ \A i \in 0..(m - 1) : right(i)
               /\ FlattenSeq([i \in 1..m |-> ReadBlock(i - 1).data]) = added
    <3>1. ASSUME NEW i \in 0..(m - 1) PROVE Exact(ReadBlock(i))
      <4>1. cut[i + 1] - cut[i] \in Int
        BY <2>2, <2>5
      <4>2. cut[i + 1] - cut[i] <= (IF i = 0 THEN BlockSize ELSE builder.block_size) + 1
        BY <2>5
      <4>3. cut[i + 1] - cut[i] < OffsetRange
        BY <2>4, <2>6, <2>9, <4>1, <4>2
      <4>4. QED
        BY <2>5, <4>3
    <3>2. ASSUME NEW i \in 1..m PROVE ReadBlock(i - 1).data = SubSeq(added, cut[i - 1] + 1, cut[i])
      <4>1. i - 1 \in 0..(m - 1) /\ (i - 1) + 1 = i
        BY <2>2
      <4>2. ReadBlock(i - 1).data = SubSeq(added, cut[i - 1] + 1, cut[(i - 1) + 1])
        BY <2>3, <3>1, <4>1
      <4>3. QED
        BY <4>1, <4>2
    <3>3. [i \in 1..m |-> ReadBlock(i - 1).data] = [i \in 1..m |-> SubSeq(added, cut[i - 1] + 1, cut[i])]
      BY <3>2
    <3>4. FlattenSeq([i \in 1..m |-> SubSeq(added, cut[i - 1] + 1, cut[i])]) = added
      <4>1. /\ added \in Seq(Entries) /\ m \in Nat \ {0} /\ cut \in [0..m -> 0..L]
            /\ cut[0] = 0 /\ cut[m] = L
            /\ \A i, j \in 0..m : i < j => cut[i] < cut[j]
        BY <2>2
      <4> HIDE DEF m
      <4>2. QED
        BY <4>1, FlattenPieces
    <3>5. QED
      BY <2>3, <3>1, <3>3, <3>4
  <2>10. <<sst.first_key, sst.last_key>> = <<Head(added).key, Last(added).key>>
    <3>1. /\ sst.first_key = Head(sst.meta_entries).first_key
          /\ sst.last_key = Last(sst.meta_entries).last_key
      BY <2>2 DEF Handle
    <3>2. sst.meta_entries \in Seq(Metas) /\ Len(sst.meta_entries) = m
      <4>1. builder \in Builders
        BY <2>1 DEF Cuts
      <4>2. QED
        BY <2>2, <4>1 DEF Builders
    <3> HIDE DEF m
    <3>3. Head(sst.meta_entries) = sst.meta_entries[1] /\ Last(sst.meta_entries) = sst.meta_entries[m]
      BY <2>2, <3>2 DEF Last
    <3>4. 1 \in 1..m /\ m \in 1..m /\ 1 - 1 = 0
      BY <2>2
    <3>5. sst.meta_entries[1].first_key = added[cut[1 - 1] + 1].key
          /\ sst.meta_entries[m].last_key = added[cut[m]].key
      <4>1. \A i \in 1..m : /\ sst.meta_entries[i].first_key = added[cut[i - 1] + 1].key
                            /\ sst.meta_entries[i].last_key = added[cut[i]].key
        <5> SUFFICES ASSUME NEW i \in 1..m
                     PROVE  /\ sst.meta_entries[i].first_key = added[cut[i - 1] + 1].key
                            /\ sst.meta_entries[i].last_key = added[cut[i]].key
          OBVIOUS
        <5>1. sst.meta_entries[i] = [offset    |-> 2 * cut[i - 1] + (i - 1),
                                     first_key |-> added[cut[i - 1] + 1].key,
                                     last_key  |-> added[cut[i]].key]
          BY <2>2
        <5>2. QED
          BY <5>1
      <4>2. QED
        BY <3>4, <4>1
    <3>6. added # <<>>
      <4>1. 0 \in 0..m /\ m \in 0..m /\ 0 < m
        BY <2>2
      <4>2. cut[0] < cut[m]
        BY <2>2, <4>1
      <4>3. 0 < L
        BY <2>2, <4>2
      <4>4. QED
        BY <2>2, <4>3
    <3>7. Head(added) = added[1] /\ Last(added) = added[L]
      BY <2>2, <3>6 DEF Last
    <3>8. cut[1 - 1] + 1 = 1
      BY <2>2, <3>4
    <3>9. QED
      BY <2>2, <3>1, <3>3, <3>5, <3>7, <3>8
  <2> HIDE DEF right
  <2>11. QED
    BY <2>8, <2>9, <2>10 DEF right
<1>2. ASSUME SstInv PROVE NothingDropped
  BY <1>1, <1>2 DEF NothingDropped
<1>3. QED
  BY <1>2, CutsKept, PTL

-----------------------------------------------------------------------------
(* The search by key in the whole file *)

First(i) == sst.meta_entries[i + 1].first_key
Final(i) == sst.meta_entries[i + 1].last_key
Places == 0..(NumBlocks - 1)

\* The keys of the index ascend.
LEMMA IndexOrder ==
    ASSUME SstInv, Built
    PROVE  /\ NumBlocks \in Nat \ {0} /\ Places = 0..(NumBlocks - 1)
           /\ \A i \in Places : First(i) \in Int /\ Final(i) \in Int /\ First(i) <= Final(i)
           /\ \A i, j \in Places : i < j => Final(i) <= First(j)
           /\ sst.first_key = First(0)
<1> DEFINE m == NumBlocks
           L == Len(added)
<1>1. PICK cut : Cuts(builder, added, cut, builder.capacity)
  BY DEF SstInv
<1>2. /\ m \in Nat \ {0} /\ added \in Seq(Entries) /\ L \in Nat /\ InOrder(added)
      /\ cut \in [0..m -> 0..L] /\ \A i, j \in 0..m : i < j => cut[i] < cut[j]
      /\ sst = Handle(builder.meta_entries, Len(builder.data))
      /\ sst.meta_entries = builder.meta_entries
      /\ \A i \in 1..m :
            sst.meta_entries[i] = [offset    |-> 2 * cut[i - 1] + (i - 1),
                                   first_key |-> added[cut[i - 1] + 1].key,
                                   last_key  |-> added[cut[i]].key]
  BY <1>1, FileIs
<1> HIDE DEF m, L
<1>3. ASSUME NEW i \in 0..(m - 1)
      PROVE  /\ First(i) = added[cut[i] + 1].key /\ Final(i) = added[cut[i + 1]].key
             /\ cut[i] + 1 \in 1..L /\ cut[i + 1] \in 1..L /\ cut[i] + 1 <= cut[i + 1]
  <2>1. i + 1 \in 1..m /\ i \in 0..m /\ i + 1 \in 0..m /\ (i + 1) - 1 = i /\ i < i + 1
    BY <1>2
  <2>2. sst.meta_entries[i + 1] = [offset    |-> 2 * cut[(i + 1) - 1] + ((i + 1) - 1),
                                   first_key |-> added[cut[(i + 1) - 1] + 1].key,
                                   last_key  |-> added[cut[i + 1]].key]
    BY <1>2, <2>1
  <2>3. First(i) = added[cut[i] + 1].key /\ Final(i) = added[cut[i + 1]].key
    BY <2>1, <2>2 DEF First, Final
  <2>4. cut[i] \in 0..L /\ cut[i + 1] \in 0..L /\ cut[i] < cut[i + 1]
    BY <1>2, <2>1
  <2>5. cut[i] + 1 \in 1..L /\ cut[i + 1] \in 1..L /\ cut[i] + 1 <= cut[i + 1]
    BY <1>2, <2>4
  <2>6. QED
    BY <2>3, <2>5
<1>4. \A x, y \in 1..L : x <= y => /\ added[x].key \in Int /\ added[y].key \in Int
                                   /\ added[x].key <= added[y].key
  <2> SUFFICES ASSUME NEW x \in 1..L, NEW y \in 1..L, x <= y
               PROVE  /\ added[x].key \in Int /\ added[y].key \in Int
                      /\ added[x].key <= added[y].key
    OBVIOUS
  <2>1. added[x] \in Entries /\ added[y] \in Entries
    BY <1>2, ElementsOf DEF L
  <2>2. added[x].key \in Keys /\ added[y].key \in Keys
    BY <2>1 DEF Entries
  <2>3. added[x].key \in Int /\ added[y].key \in Int
    BY <2>2, KeysAssumption
  <2>4. CASE x = y
    BY <2>3, <2>4
  <2>5. CASE x # y
    <3>1. x < y
      BY <1>2, <2>5
    <3>2. Before(added[x], added[y])
      BY <1>2, <3>1 DEF InOrder, L
    <3>3. QED
      BY <2>3, <3>2 DEF Before
  <2>6. QED
    BY <2>4, <2>5
<1>5. \A i \in 0..(m - 1) : First(i) \in Int /\ Final(i) \in Int /\ First(i) <= Final(i)
  BY <1>3, <1>4
<1>6. ASSUME NEW i \in 0..(m - 1), NEW j \in 0..(m - 1), i < j PROVE Final(i) <= First(j)
  <2>1. i + 1 \in 0..m /\ j \in 0..m /\ (i + 1 = j \/ i + 1 < j)
    BY <1>2, <1>6
  <2>2. cut[i + 1] \in 0..L /\ cut[j] \in 0..L /\ cut[i + 1] <= cut[j]
    BY <1>2, <2>1
  <2>3. cut[i + 1] <= cut[j] + 1
    BY <1>2, <2>2
  <2>4. added[cut[i + 1]].key <= added[cut[j] + 1].key
    BY <1>3, <1>4, <2>3
  <2>5. QED
    BY <1>3, <2>4
<1>7. sst.first_key = First(0)
  <2>1. sst.first_key = Head(sst.meta_entries).first_key
    BY <1>2 DEF Handle
  <2>2. sst.meta_entries \in Seq(Metas) /\ Len(sst.meta_entries) = m
    <3>1. builder \in Builders
      BY <1>1 DEF Cuts
    <3>2. QED
      BY <1>2, <3>1 DEF Builders, m, NumBlocks
  <2>3. Head(sst.meta_entries) = sst.meta_entries[1] /\ 0 + 1 = 1
    BY <1>2, <2>2
  <2>4. QED
    BY <2>1, <2>3 DEF First
<1>8. QED
  BY <1>2, <1>5, <1>6, <1>7 DEF m, Places

\* What find_block_idx answers: a block whose first and last key have the key between them; or
\* none, where the key lies between two blocks or behind the last; or what lies outside the
\* index, where the key is below the first block.
LEMMA FindBlockIdxIs ==
    ASSUME SstInv, Built, NEW key \in Keys
    PROVE  LET v == FindBlockIdx(key)
           IN  \/ v \in Places /\ First(v) <= key /\ key <= Final(v)
               \/ v = Wild /\ \A i \in Places : key < First(i)
               \/ v = NoBlock /\ First(0) <= key
                  /\ \A i \in Places : Final(i) < key \/ key < First(i)
<1> DEFINE m == NumBlocks
           D == (0..m) \X (-1..(m - 1))
           mid(w) == w[1] + (w[2] - w[1]) \div 2
           stop == {w \in D : w[2] = -1 \/ w[1] > w[2] \/ ~(key < First(mid(w)) \/ key > Final(mid(w)))}
           next == [w \in D |-> IF key < First(mid(w)) THEN <<w[1], mid(w) - 1>>
                                ELSE <<mid(w) + 1, w[2]>>]
           val == [w \in D |-> IF w[2] = -1 THEN Wild ELSE IF w[1] > w[2] THEN NoBlock ELSE mid(w)]
           meas == [w \in D |-> IF w[1] <= w[2] THEN w[2] - w[1] + 1 ELSE 0]
           Body(g, w) == LET x    == w[1] + (w[2] - w[1]) \div 2
                             meta == sst.meta_entries[x + 1]
                         IN  IF w[2] = -1 THEN Wild
                             ELSE IF w[1] > w[2] THEN NoBlock
                             ELSE IF key < meta.first_key THEN g[<<w[1], x - 1>>]
                             ELSE IF key > meta.last_key THEN g[<<x + 1, w[2]>>]
                             ELSE x
           Is(f) == f = [w \in D |->
                            LET x    == w[1] + (w[2] - w[1]) \div 2
                                meta == sst.meta_entries[x + 1]
                            IN  IF w[2] = -1 THEN Wild
                                ELSE IF w[1] > w[2] THEN NoBlock
                                ELSE IF key < meta.first_key THEN f[<<w[1], x - 1>>]
                                ELSE IF key > meta.last_key THEN f[<<x + 1, w[2]>>]
                                ELSE x]
           f == CHOOSE g : Is(g)
           Post(v) == \/ v \in Places /\ First(v) <= key /\ key <= Final(v)
                      \/ v = Wild /\ \A i \in Places : key < First(i)
                      \/ v = NoBlock /\ First(0) <= key
                         /\ \A i \in Places : Final(i) < key \/ key < First(i)
           Left(l) == \A i \in Places : i < l => Final(i) < key
           Right(r) == \A i \in Places : r < i => key < First(i)
           P == {w \in D : w[1] <= w[2] + 1 /\ Left(w[1]) /\ Right(w[2]) => Post(f[w])}
<1>1. /\ m \in Nat \ {0} /\ Places = 0..(m - 1) /\ key \in Int
      /\ \A i \in Places : First(i) \in Int /\ Final(i) \in Int /\ First(i) <= Final(i)
      /\ \A i, j \in Places : i < j => Final(i) <= First(j)
  BY IndexOrder, KeysAssumption
<1>2. \A w \in D : w = <<w[1], w[2]>> /\ w[1] \in 0..m /\ w[2] \in -1..(m - 1)
  OBVIOUS
<1>3. ASSUME NEW w \in D, w[1] <= w[2] PROVE mid(w) \in w[1]..w[2] /\ mid(w) \in Places
  <2> DEFINE l == w[1]
             r == w[2]
  <2>1. l \in Int /\ r \in Int /\ l <= r /\ 0 <= l /\ r <= m - 1
    BY <1>1, <1>2, <1>3
  <2> HIDE DEF l, r
  <2>2. l + (r - l) \div 2 \in l..r
    BY <2>1, Middle
  <2>3. l + (r - l) \div 2 \in Places
    BY <1>1, <2>1, <2>2
  <2>4. QED
    BY <2>2, <2>3 DEF l, r
<1>4. ASSUME NEW w \in D \ stop
      PROVE  /\ w[1] <= w[2] /\ w[1] \in Nat /\ w[2] \in Nat
             /\ mid(w) \in w[1]..w[2] /\ mid(w) \in Places
             /\ next[w] = (IF key < First(mid(w)) THEN <<w[1], mid(w) - 1>> ELSE <<mid(w) + 1, w[2]>>)
             /\ next[w] \in D
             /\ key < First(mid(w)) \/ key > Final(mid(w))
  <2>1. w \in D /\ w[2] # -1 /\ ~(w[1] > w[2]) /\ (key < First(mid(w)) \/ key > Final(mid(w)))
    OBVIOUS
  <2>2. w[1] <= w[2] /\ w[1] \in Nat /\ w[2] \in Nat
    BY <1>1, <1>2, <2>1
  <2>3. mid(w) \in w[1]..w[2] /\ mid(w) \in Places
    BY <1>3, <2>1, <2>2
  <2>4. next[w] = IF key < First(mid(w)) THEN <<w[1], mid(w) - 1>> ELSE <<mid(w) + 1, w[2]>>
    BY <2>1
  <2>5. w[1] \in 0..m /\ w[2] \in -1..(m - 1)
    BY <1>2, <2>1
  <2> HIDE DEF mid, next
  <2>6. mid(w) - 1 \in -1..(m - 1) /\ mid(w) + 1 \in 0..m
    BY <1>1, <2>3
  <2>7. <<w[1], mid(w) - 1>> \in D /\ <<mid(w) + 1, w[2]>> \in D
    BY <2>5, <2>6
  <2> HIDE DEF D
  <2>8. next[w] \in D
    BY <2>4, <2>7
  <2>9. QED
    BY <2>1, <2>2, <2>3, <2>4, <2>8
<1>5. Loop(D, meas, stop, next)
  <2>1. meas \in [D -> Nat]
    BY <1>1, <1>2
  <2>2. ASSUME NEW w \in D \ stop PROVE next[w] \in D /\ meas[next[w]] < meas[w]
    <3>1. /\ w[1] <= w[2] /\ w[1] \in Nat /\ w[2] \in Nat
          /\ mid(w) \in w[1]..w[2]
          /\ next[w] = <<w[1], mid(w) - 1>> \/ next[w] = <<mid(w) + 1, w[2]>>
          /\ next[w] \in D
      BY <1>4
    <3>2. meas[w] = w[2] - w[1] + 1
      BY <3>1
    <3> HIDE DEF mid, next
    <3>3. meas[next[w]] = IF next[w][1] <= next[w][2] THEN next[w][2] - next[w][1] + 1 ELSE 0
      BY <3>1
    <3> HIDE DEF meas, D
    <3>4. CASE next[w] = <<w[1], mid(w) - 1>>
      BY <3>1, <3>2, <3>3, <3>4
    <3>5. CASE next[w] = <<mid(w) + 1, w[2]>>
      BY <3>1, <3>2, <3>3, <3>5
    <3>6. QED
      BY <3>1, <3>4, <3>5
  <2>3. QED
    BY <2>1, <2>2 DEF Loop
<1>6. PICK g : g = [w \in D |-> IF w \in stop THEN val[w] ELSE g[next[w]]]
  <2> HIDE DEF D, meas, stop, next, val
  <2>1. QED
    BY <1>5, LoopExists
<1>7. ASSUME NEW w \in D
      PROVE  (IF w \in stop THEN val[w] ELSE g[next[w]]) = Body(g, w)
  <2>1. /\ val[w] = IF w[2] = -1 THEN Wild ELSE IF w[1] > w[2] THEN NoBlock ELSE mid(w)
        /\ next[w] = IF key < First(mid(w)) THEN <<w[1], mid(w) - 1>> ELSE <<mid(w) + 1, w[2]>>
        /\ w \in stop <=> w[2] = -1 \/ w[1] > w[2] \/ ~(key < First(mid(w)) \/ key > Final(mid(w)))
    OBVIOUS
  <2>2. Body(g, w) = IF w[2] = -1 THEN Wild
                     ELSE IF w[1] > w[2] THEN NoBlock
                     ELSE IF key < First(mid(w)) THEN g[<<w[1], mid(w) - 1>>]
                     ELSE IF key > Final(mid(w)) THEN g[<<mid(w) + 1, w[2]>>]
                     ELSE mid(w)
    BY DEF First, Final
  <2> HIDE DEF val, next, stop, Body, mid, D
  <2>3. QED
    BY <2>1, <2>2
<1>8. Is(g)
  <2>1. g = [w \in D |-> Body(g, w)]
    <3> HIDE DEF D, stop, next, val, Body
    <3>1. QED
      BY <1>6, <1>7
  <2>2. QED
    BY <2>1
<1>9. Is(f)
  <2> HIDE DEF Is
  <2>1. QED
    BY <1>8
<1>10. FindBlockIdx(key) = f[<<0, m - 1>>]
  BY DEF FindBlockIdx
<1>11. \A w \in D : f[w] = IF w[2] = -1 THEN Wild
                           ELSE IF w[1] > w[2] THEN NoBlock
                           ELSE IF key < First(mid(w)) THEN f[<<w[1], mid(w) - 1>>]
                           ELSE IF key > Final(mid(w)) THEN f[<<mid(w) + 1, w[2]>>]
                           ELSE mid(w)
  <2>1. \A w \in D : f[w] = Body(f, w)
    <3> HIDE DEF f
    <3>1. QED
      BY <1>9
  <2> HIDE DEF f
  <2>2. QED
    BY <2>1 DEF First, Final
<1> HIDE DEF f, Is
<1>12. ASSUME NEW w \in D \cap stop PROVE w \in P
  <2> SUFFICES ASSUME w[1] <= w[2] + 1, Left(w[1]), Right(w[2]) PROVE Post(f[w])
    OBVIOUS
  <2>1. w \in D /\ w[1] \in 0..m /\ w[2] \in -1..(m - 1)
    BY <1>2
  <2>2. w[2] = -1 \/ w[1] > w[2] \/ ~(key < First(mid(w)) \/ key > Final(mid(w)))
    OBVIOUS
  <2>3. CASE w[2] = -1
    <3>1. f[w] = Wild
      BY <1>11, <2>1, <2>3
    <3>2. \A i \in Places : key < First(i)
      BY <1>1, <2>3
    <3>3. QED
      BY <3>1, <3>2
  <2>4. CASE w[2] # -1 /\ w[1] > w[2]
    <3>1. f[w] = NoBlock
      BY <1>11, <2>1, <2>4
    <3>2. w[1] = w[2] + 1 /\ 0 \in Places /\ 0 < w[1]
      BY <1>1, <2>1, <2>4
    <3>3. Final(0) < key /\ First(0) <= Final(0) /\ First(0) \in Int /\ Final(0) \in Int
      BY <1>1, <3>2
    <3>4. First(0) <= key
      BY <1>1, <3>3
    <3>5. \A i \in Places : i < w[1] \/ w[2] < i
      BY <1>1, <2>1, <3>2
    <3>6. \A i \in Places : Final(i) < key \/ key < First(i)
      BY <3>5
    <3>7. QED
      BY <3>1, <3>4, <3>6
  <2>5. CASE w[2] # -1 /\ ~(w[1] > w[2])
    <3>1. w[1] <= w[2]
      BY <1>1, <2>1, <2>5
    <3>2. mid(w) \in Places
      BY <1>3, <2>1, <3>1
    <3> HIDE DEF mid, D, stop
    <3>3. ~(key < First(mid(w)) \/ key > Final(mid(w)))
      BY <2>2, <2>5
    <3>4. f[w] = mid(w)
      BY <1>11, <2>1, <2>5, <3>3
    <3>5. First(mid(w)) <= key /\ key <= Final(mid(w))
      BY <1>1, <3>2, <3>3
    <3>6. QED
      BY <3>2, <3>4, <3>5
  <2>6. QED
    BY <2>3, <2>4, <2>5
<1>13. ASSUME NEW w \in D \ stop, next[w] \in P PROVE w \in P
  <2> SUFFICES ASSUME w[1] <= w[2] + 1, Left(w[1]), Right(w[2]) PROVE Post(f[w])
    OBVIOUS
  <2> DEFINE c == mid(w)
  <2>1. /\ w \in D /\ w[1] <= w[2] /\ w[1] \in Nat /\ w[2] \in Nat
        /\ c \in w[1]..w[2] /\ c \in Places
        /\ next[w] = (IF key < First(c) THEN <<w[1], c - 1>> ELSE <<c + 1, w[2]>>)
        /\ next[w] \in D
        /\ key < First(c) \/ key > Final(c)
    BY <1>4
  <2>2. next[w][1] <= next[w][2] + 1 /\ Left(next[w][1]) /\ Right(next[w][2]) => Post(f[next[w]])
    <3> HIDE DEF next, Post, Left, Right
    <3>1. QED
      BY <1>13
  <2>3. f[w] = IF key < First(c) THEN f[<<w[1], c - 1>>]
               ELSE IF key > Final(c) THEN f[<<c + 1, w[2]>>] ELSE c
    <3>1. w[2] # -1 /\ ~(w[1] > w[2])
      BY <2>1
    <3> HIDE DEF mid, D
    <3>2. QED
      BY <1>11, <2>1, <3>1
  <2>4. CASE key < First(c)
    <3>1. next[w] = <<w[1], c - 1>> /\ f[w] = f[next[w]]
      BY <2>1, <2>3, <2>4
    <3>2. Right(c - 1)
      <4> SUFFICES ASSUME NEW i \in Places, c - 1 < i PROVE key < First(i)
        OBVIOUS
      <4> HIDE DEF c
      <4>1. i = c \/ c < i
        BY <1>1, <2>1
      <4>2. First(c) \in Int /\ Final(c) \in Int /\ First(i) \in Int /\ First(c) <= Final(c)
        BY <1>1, <2>1
      <4>3. First(c) <= First(i)
        <5>1. CASE i = c
          BY <4>2, <5>1
        <5>2. CASE c < i
          <6>1. Final(c) <= First(i)
            BY <1>1, <2>1, <5>2
          <6>2. QED
            BY <4>2, <6>1
        <5>3. QED
          BY <4>1, <5>1, <5>2
      <4>4. QED
        BY <1>1, <2>4, <4>2, <4>3
    <3> HIDE DEF Post, Left, Right, c, next
    <3>3. w[1] <= (c - 1) + 1
      BY <2>1
    <3>4. QED
      BY <2>2, <3>1, <3>2, <3>3
  <2>5. CASE ~(key < First(c))
    <3>1. next[w] = <<c + 1, w[2]>> /\ f[w] = f[next[w]] /\ key > Final(c)
      BY <2>1, <2>3, <2>5
    <3>2. Left(c + 1)
      <4> SUFFICES ASSUME NEW i \in Places, i < c + 1 PROVE Final(i) < key
        OBVIOUS
      <4> HIDE DEF c
      <4>1. i = c \/ i < c
        BY <1>1, <2>1
      <4>2. First(c) \in Int /\ Final(c) \in Int /\ Final(i) \in Int /\ First(c) <= Final(c)
        BY <1>1, <2>1
      <4>3. Final(i) <= Final(c)
        <5>1. CASE i = c
          BY <4>2, <5>1
        <5>2. CASE i < c
          <6>1. Final(i) <= First(c)
            BY <1>1, <2>1, <5>2
          <6>2. QED
            BY <4>2, <6>1
        <5>3. QED
          BY <4>1, <5>1, <5>2
      <4>4. QED
        BY <1>1, <3>1, <4>2, <4>3
    <3> HIDE DEF Post, Left, Right, c, next
    <3>3. c + 1 <= w[2] + 1
      BY <2>1
    <3>4. QED
      BY <2>2, <3>1, <3>2, <3>3
  <2>6. QED
    BY <2>4, <2>5
<1>14. \A w \in D : w \in P
  <2> HIDE DEF D, P, meas, stop, next
  <2>1. QED
    BY <1>5, <1>12, <1>13, LoopInduction
<1>15. <<0, m - 1>> \in D
  BY <1>1
<1>16. Post(f[<<0, m - 1>>])
  <2>1. Left(0) /\ Right(m - 1) /\ 0 <= (m - 1) + 1
    BY <1>1
  <2> HIDE DEF Post, D, Left, Right
  <2>2. QED
    BY <1>14, <1>15, <2>1
<1>17. QED
  BY <1>10, <1>16

NewestOf(s, key) ==
    CHOOSE e \in Range(s) : e.key = key /\ \A f \in Range(s) : f.key = key => f.tranc_id <= e.tranc_id

\* Of the versions of a key, one is the newest.
LEMMA NewestIs ==
    ASSUME NEW s \in Seq(Entries), NEW key, NEW e \in Range(s), e.key = key,
           \A f \in Range(s) : f.key = key => f.tranc_id <= e.tranc_id
    PROVE  NewestOf(s, key) = e
<1> DEFINE n == NewestOf(s, key)
<1>1. n \in Range(s) /\ n.key = key /\ \A f \in Range(s) : f.key = key => f.tranc_id <= n.tranc_id
  BY DEF NewestOf
<1> HIDE DEF n
<1>2. Range(s) \subseteq Entries
  BY RangeOfSeq
<1>3. n \in Entries /\ e \in Entries
  BY <1>1, <1>2
<1>4. n.tranc_id \in 1..MaxId /\ e.tranc_id \in 1..MaxId
      /\ n = [key |-> n.key, tranc_id |-> n.tranc_id] /\ e = [key |-> e.key, tranc_id |-> e.tranc_id]
  BY <1>3 DEF Entries
<1>5. n.tranc_id <= e.tranc_id /\ e.tranc_id <= n.tranc_id
  BY <1>1
<1>6. n.tranc_id = e.tranc_id
  BY <1>4, <1>5, MaxIdAssumption
<1>7. QED
  BY <1>1, <1>4, <1>6 DEF n

\* The entries of a block, by the places of its search.
LEMMA RangeOfBlock ==
    ASSUME NEW b, GoodBlock(b)
    PROVE  /\ Range(b.data) = {EntryAt(b, x) : x \in Indices(b)}
           /\ \A e \in Range(b.data) : e.key \in Int /\ FirstKey(b) <= e.key /\ e.key <= LastKey(b)
           /\ \E e \in Range(b.data) : e.key = FirstKey(b)
           /\ \E e \in Range(b.data) : e.key = LastKey(b)
<1> DEFINE n == NumEntries(b)
<1>1. n \in Nat \ {0} /\ Indices(b) = 0..(n - 1) /\ Len(b.data) = n
  BY EntriesOf DEF Indices
<1>2. \A x \in Indices(b) : x + 1 \in 1..n /\ EntryAt(b, x) = b.data[x + 1] /\ EntryAt(b, x).key \in Int
  BY <1>1, EntriesOf
<1>3. DOMAIN b.data = 1..n
  BY <1>1 DEF GoodBlock
<1>4. Range(b.data) = {b.data[y] : y \in 1..n}
  BY <1>3 DEF Range
<1>5. \A y \in 1..n : y - 1 \in Indices(b) /\ (y - 1) + 1 = y /\ b.data[y] = EntryAt(b, y - 1)
  <2> SUFFICES ASSUME NEW y \in 1..n
               PROVE  y - 1 \in Indices(b) /\ (y - 1) + 1 = y /\ b.data[y] = EntryAt(b, y - 1)
    OBVIOUS
  <2>1. y - 1 \in Indices(b) /\ (y - 1) + 1 = y
    BY <1>1
  <2>2. EntryAt(b, y - 1) = b.data[(y - 1) + 1]
    BY <1>2, <2>1
  <2>3. QED
    BY <2>1, <2>2
<1> HIDE DEF n
<1>6. Range(b.data) = {EntryAt(b, x) : x \in Indices(b)}
  BY <1>2, <1>4, <1>5
<1>7. 0 \in Indices(b) /\ n - 1 \in Indices(b) /\ \A x \in Indices(b) : 0 <= x /\ x <= n - 1
  BY <1>1
<1>8. FirstKey(b) = EntryAt(b, 0).key /\ LastKey(b) = EntryAt(b, n - 1).key
  <2>1. EntryAt(b, 0) = b.data[0 + 1]
    BY <1>2, <1>7
  <2>2. QED
    BY <2>1 DEF FirstKey, LastKey, n
<1>9. \A x \in Indices(b) : EntryAt(b, 0).key <= EntryAt(b, x).key /\ EntryAt(b, x).key <= EntryAt(b, n - 1).key
  BY <1>7, EntriesOf
<1>10. QED
  BY <1>2, <1>6, <1>7, <1>8, <1>9

\* A block with the key has a newest version of it.
LEMMA NewestExists ==
    ASSUME NEW b, GoodBlock(b), NEW key, \E e \in Range(b.data) : e.key = key
    PROVE  LET n == NewestOf(b.data, key)
           IN  n \in Range(b.data) /\ n.key = key
               /\ \A f \in Range(b.data) : f.key = key => f.tranc_id <= n.tranc_id
<1> DEFINE S == {i \in Indices(b) : EntryAt(b, i).key = key}
<1>1. Range(b.data) = {EntryAt(b, x) : x \in Indices(b)}
  BY RangeOfBlock
<1>2. S # {} /\ S \in SUBSET Nat
  BY <1>1 DEF Indices
<1>3. PICK k \in S : \A j \in S : k <= j
  BY <1>2, LeastNat
<1> DEFINE e == EntryAt(b, k)
<1>4. k \in Indices(b) /\ e.key = key /\ e \in Range(b.data)
  BY <1>1
<1>5. ASSUME NEW f \in Range(b.data), f.key = key PROVE f.tranc_id <= e.tranc_id
  <2>1. PICK j \in Indices(b) : f = EntryAt(b, j)
    BY <1>1
  <2>2. j \in S /\ k <= j
    BY <1>3, <1>5, <2>1
  <2>3. e.tranc_id \in Nat /\ f.tranc_id \in Nat
    BY <1>4, <2>1, EntriesOf
  <2>4. CASE k = j
    BY <2>1, <2>3, <2>4
  <2>5. CASE k # j
    <3>1. k < j
      BY <2>2, <2>5 DEF Indices
    <3>2. f.tranc_id < e.tranc_id
      BY <1>4, <1>5, <2>1, <3>1, EntriesOf
    <3>3. QED
      BY <2>3, <3>2
  <2>6. QED
    BY <2>4, <2>5
<1> HIDE DEF e
<1>6. b.data \in Seq(Entries)
  BY DEF GoodBlock
<1>7. NewestOf(b.data, key) = e
  BY <1>4, <1>5, <1>6, NewestIs
<1>8. QED
  BY <1>4, <1>5, <1>7

\* The blocks of a file and the entries it was built from.
LEMMA HomesOf ==
    ASSUME SstInv, Built, AllExact, NEW i \in Places
    PROVE  /\ GoodBlock(ReadBlock(i)) /\ Range(ReadBlock(i).data) \subseteq Range(added)
           /\ \A e \in Range(ReadBlock(i).data) : e.key \in Int /\ First(i) <= e.key /\ e.key <= Final(i)
           /\ \E e \in Range(ReadBlock(i).data) : e.key = First(i)
           /\ \E e \in Range(ReadBlock(i).data) : e.key = Final(i)
<1> DEFINE b == ReadBlock(i)
           L == Len(added)
<1>1. PICK cut : Cuts(builder, added, cut, builder.capacity)
  BY DEF SstInv
<1>2. i \in 0..(NumBlocks - 1) /\ Exact(b)
  BY DEF Places, AllExact
<1>3. GoodBlock(b)
  BY <1>1, <1>2, ExactIs
<1>4. FirstKey(b) = First(i) /\ LastKey(b) = Final(i)
  BY <1>1, <1>2, RightIs DEF First, Final
<1>5. /\ cut[i] \in Nat /\ cut[i + 1] \in 0..L /\ cut[i] < cut[i + 1] /\ L \in Nat
      /\ added \in Seq(Entries)
  BY <1>1, <1>2, ReadIs, FileIs
<1>6. Len(b.data) = cut[i + 1] - cut[i] /\ \A x \in 1..(cut[i + 1] - cut[i]) : b.data[x] = added[cut[i] + x]
  BY <1>1, <1>2, RightIs
<1> HIDE DEF b
<1>7. Range(b.data) \subseteq Range(added)
  <2> SUFFICES ASSUME NEW e \in Range(b.data) PROVE e \in Range(added)
    OBVIOUS
  <2>1. DOMAIN b.data = 1..(cut[i + 1] - cut[i]) /\ DOMAIN added = 1..L
    <3>1. b.data \in Seq(Entries)
      BY <1>3 DEF GoodBlock
    <3>2. QED
      BY <1>5, <1>6, <3>1, LenProperties
  <2>2. PICK x \in 1..(cut[i + 1] - cut[i]) : e = b.data[x]
    BY <2>1 DEF Range
  <2>3. cut[i] + x \in 1..L
    BY <1>5
  <2>4. e = added[cut[i] + x]
    BY <1>6, <2>2
  <2>5. QED
    BY <2>1, <2>3, <2>4 DEF Range
<1>8. /\ \A e \in Range(b.data) : e.key \in Int /\ FirstKey(b) <= e.key /\ e.key <= LastKey(b)
      /\ \E e \in Range(b.data) : e.key = FirstKey(b)
      /\ \E e \in Range(b.data) : e.key = LastKey(b)
  BY <1>3, RangeOfBlock
<1>9. QED
  BY <1>3, <1>4, <1>7, <1>8 DEF b

LEMMA EveryHome ==
    ASSUME SstInv, Built, AllExact, NEW e \in Range(added)
    PROVE  \E i \in Places : e \in Range(ReadBlock(i).data)
<1> DEFINE L == Len(added)
           m == NumBlocks
<1>1. PICK cut : Cuts(builder, added, cut, builder.capacity)
  BY DEF SstInv
<1>2. /\ m \in Nat \ {0} /\ added \in Seq(Entries) /\ L \in Nat
      /\ cut \in [0..m -> 0..L] /\ cut[0] = 0 /\ cut[m] = L
  BY <1>1, FileIs
<1>3. DOMAIN added = 1..L
  BY <1>2, LenProperties
<1>4. PICK p \in 1..L : e = added[p]
  BY <1>3 DEF Range
<1> HIDE DEF L, m
<1> DEFINE S == {j \in 0..m : p <= cut[j]}
<1>5. m \in S /\ S \in SUBSET Nat
  <2>1. p <= L
    BY <1>2
  <2>2. QED
    BY <1>2, <2>1
<1>6. PICK k \in S : \A j \in S : k <= j
  BY <1>5, LeastNat
<1>7. k # 0
  BY <1>2
<1> DEFINE i == k - 1
<1>8. i \in 0..(m - 1) /\ i + 1 = k /\ i \notin S /\ i \in 0..m
  BY <1>2, <1>6, <1>7
<1>9. cut[i] < p /\ p <= cut[i + 1] /\ cut[i] \in Nat /\ cut[i + 1] \in Nat
  BY <1>2, <1>8
<1> HIDE DEF i, S
<1>10. i \in Places /\ i \in 0..(NumBlocks - 1) /\ Exact(ReadBlock(i))
  BY <1>8 DEF Places, AllExact, m
<1>11. /\ Len(ReadBlock(i).data) = cut[i + 1] - cut[i]
       /\ \A x \in 1..(cut[i + 1] - cut[i]) : ReadBlock(i).data[x] = added[cut[i] + x]
  BY <1>1, <1>10, RightIs
<1>12. p - cut[i] \in 1..(cut[i + 1] - cut[i]) /\ cut[i] + (p - cut[i]) = p
  BY <1>9
<1>13. ReadBlock(i).data[p - cut[i]] = e
  BY <1>4, <1>11, <1>12
<1>14. DOMAIN ReadBlock(i).data = 1..(cut[i + 1] - cut[i])
  <2>1. GoodBlock(ReadBlock(i))
    BY <1>10, HomesOf
  <2>2. ReadBlock(i).data \in Seq(Entries)
    BY <2>1 DEF GoodBlock
  <2>3. QED
    BY <1>11, <2>2, LenProperties
<1>15. e \in Range(ReadBlock(i).data)
  BY <1>12, <1>13, <1>14 DEF Range
<1>16. QED
  BY <1>10, <1>15

\* What get shows of a block that find_block_idx has answered.
LEMMA SeekInBlock ==
    ASSUME SstInv, Built, AllExact, NEW key \in Keys, NEW v \in Places, FindBlockIdx(key) = v
    PROVE  Seek(key, 0) = IF \E e \in Range(ReadBlock(v).data) : e.key = key
                          THEN NewestOf(ReadBlock(v).data, key) ELSE Throws
<1> DEFINE b == ReadBlock(v)
           seen == {i \in Indices(b) : EntryAt(b, i).key = key /\ Sees(0, EntryAt(b, i))}
           idx == IdxBinary(b, key, 0)
<1>1. v \notin {Wild, NoBlock}
  <2>1. v \in Nat
    BY IndexOrder
  <2>2. QED
    BY <2>1, FoundAssumption
<1>2. Seek(key, 0) = IF idx = {} THEN Throws ELSE EntryAt(b, CHOOSE x \in idx : TRUE)
  BY <1>1 DEF Seek
<1>3. GoodBlock(b)
  BY HomesOf
<1> HIDE DEF b
<1>4. idx = IF seen = {} THEN {} ELSE {Least(seen)}
  BY <1>3, IdxBinaryIs
<1> HIDE DEF idx
<1>5. seen = {i \in Indices(b) : EntryAt(b, i).key = key}
  BY DEF Sees
<1> HIDE DEF seen
<1>6. Range(b.data) = {EntryAt(b, x) : x \in Indices(b)}
  BY <1>3, RangeOfBlock
<1>7. (\E e \in Range(b.data) : e.key = key) <=> seen # {}
  BY <1>5, <1>6
<1>8. CASE seen = {}
  BY <1>2, <1>4, <1>7, <1>8 DEF b
<1>9. CASE seen # {}
  <2> DEFINE r == Least(seen)
             e == EntryAt(b, r)
  <2>1. seen \in SUBSET Nat /\ seen \subseteq Indices(b)
    BY <1>5 DEF Indices
  <2>2. PICK k \in seen : \A j \in seen : k <= j
    BY <1>9, <2>1, LeastNat
  <2>3. r = k
    <3>1. seen \in SUBSET Int
      BY <2>1
    <3>2. QED
      BY <2>2, <3>1, LeastIs
  <2>4. idx = {r} /\ (CHOOSE x \in idx : TRUE) = r
    BY <1>4, <1>9
  <2>5. Seek(key, 0) = e
    <3>1. idx # {}
      BY <2>4
    <3>2. QED
      BY <1>2, <2>4, <3>1
  <2> HIDE DEF r
  <2>6. r \in Indices(b) /\ e.key = key /\ \A j \in seen : r <= j
    BY <1>5, <2>2, <2>3
  <2>7. ASSUME NEW f \in Range(b.data), f.key = key PROVE f.tranc_id <= e.tranc_id
    <3>1. PICK j \in Indices(b) : f = EntryAt(b, j)
      BY <1>6
    <3>2. j \in seen /\ r <= j
      BY <1>5, <2>6, <2>7, <3>1
    <3>3. e.tranc_id \in Nat /\ f.tranc_id \in Nat
      BY <1>3, <2>6, <3>1, EntriesOf
    <3>4. CASE r = j
      BY <3>1, <3>3, <3>4
    <3>5. CASE r # j
      <4>1. r < j
        BY <2>1, <2>6, <3>2, <3>5 DEF Indices
      <4>2. f.tranc_id < e.tranc_id
        BY <1>3, <2>6, <2>7, <3>1, <4>1, EntriesOf
      <4>3. QED
        BY <3>3, <4>2
    <3>6. QED
      BY <3>4, <3>5
  <2>8. e \in Range(b.data)
    BY <1>6, <2>6
  <2> HIDE DEF e
  <2>9. b.data \in Seq(Entries)
    BY <1>3 DEF GoodBlock
  <2>10. NewestOf(b.data, key) = e
    BY <2>6, <2>7, <2>8, <2>9, NewestIs
  <2>11. QED
    BY <1>7, <1>9, <2>5, <2>10 DEF b
<1>10. QED
  BY <1>8, <1>9

\* The search by key in the whole file: wherever the key lies to its blocks.
LEMMA SeekIs ==
    ASSUME SstInv, Built, AllExact, NEW key \in Keys
    PROVE  LET homes   == {i \in 0..(NumBlocks - 1) :
                              \E e \in Range(ReadBlock(i).data) : e.key = key}
               between == \E i \in 0..(NumBlocks - 1) :
                             sst.meta_entries[i + 1].first_key < key
                             /\ key < sst.meta_entries[i + 1].last_key
               hit     == Seek(key, 0)
           IN  IF key < sst.first_key THEN hit = Wild
               ELSE IF homes = {} THEN hit = IF between THEN Throws ELSE NoBlock
               ELSE IF homes = {Least(homes)} THEN hit = NewestOf(added, key)
               ELSE hit \in {NewestOf(ReadBlock(i).data, key) : i \in homes}
<1> DEFINE homes   == {i \in 0..(NumBlocks - 1) :
                          \E e \in Range(ReadBlock(i).data) : e.key = key}
           between == \E i \in 0..(NumBlocks - 1) :
                         sst.meta_entries[i + 1].first_key < key
                         /\ key < sst.meta_entries[i + 1].last_key
           hit     == Seek(key, 0)
           v       == FindBlockIdx(key)
<1>1. /\ NumBlocks \in Nat \ {0} /\ Places = 0..(NumBlocks - 1) /\ key \in Int
      /\ \A i \in Places : First(i) \in Int /\ Final(i) \in Int /\ First(i) <= Final(i)
      /\ \A i, j \in Places : i < j => Final(i) <= First(j)
      /\ sst.first_key = First(0) /\ 0 \in Places
  BY IndexOrder, KeysAssumption
<1>2. \/ v \in Places /\ First(v) <= key /\ key <= Final(v)
      \/ v = Wild /\ \A i \in Places : key < First(i)
      \/ v = NoBlock /\ First(0) <= key
         /\ \A i \in Places : Final(i) < key \/ key < First(i)
  BY FindBlockIdxIs
<1>3. hit = IF v \in {Wild, NoBlock} THEN v
            ELSE LET idx == IdxBinary(ReadBlock(v), key, 0)
                 IN  IF idx = {} THEN Throws ELSE EntryAt(ReadBlock(v), CHOOSE x \in idx : TRUE)
  BY DEF Seek
<1>4. homes = {i \in Places : \E e \in Range(ReadBlock(i).data) : e.key = key}
  BY DEF Places
<1>5. between <=> \E i \in Places : First(i) < key /\ key < Final(i)
  BY DEF Places, First, Final
<1>6. v \in Places => hit = IF v \in homes THEN NewestOf(ReadBlock(v).data, key) ELSE Throws
  <2>1. ASSUME NEW x \in Places, v = x
        PROVE  hit = IF \E e \in Range(ReadBlock(x).data) : e.key = key
                     THEN NewestOf(ReadBlock(x).data, key) ELSE Throws
    <3> HIDE DEF v, hit
    <3>1. FindBlockIdx(key) = x
      BY <2>1 DEF v
    <3>2. QED
      BY <3>1, SeekInBlock DEF hit
  <2> HIDE DEF v, hit, homes
  <2>2. QED
    BY <1>4, <2>1
<1> HIDE DEF homes, between, hit, v
<1>7. \A i \in homes : i \in Places /\ First(i) <= key /\ key <= Final(i)
  <2> SUFFICES ASSUME NEW i \in homes
               PROVE  i \in Places /\ First(i) <= key /\ key <= Final(i)
    OBVIOUS
  <2>1. i \in Places /\ \E e \in Range(ReadBlock(i).data) : e.key = key
    BY <1>4
  <2>2. \A e \in Range(ReadBlock(i).data) : First(i) <= e.key /\ e.key <= Final(i)
    BY <2>1, HomesOf
  <2>3. QED
    BY <2>1, <2>2
<1>8. \A i \in Places : First(i) = key \/ Final(i) = key => i \in homes
  BY <1>4, HomesOf
<1>9. CASE key < First(0)
  <2>1. v = Wild
    <3>1. ~(First(0) <= key)
      BY <1>1, <1>9
    <3>2. ASSUME v \in Places, First(v) <= key PROVE FALSE
      <4>1. v = 0 \/ 0 < v
        BY <1>1, <3>2
      <4>2. First(0) <= First(v)
        <5>1. CASE v = 0
          BY <1>1, <5>1
        <5>2. CASE 0 < v
          <6>1. Final(0) <= First(v) /\ First(0) <= Final(0)
            BY <1>1, <3>2, <5>2
          <6>2. First(0) \in Int /\ Final(0) \in Int /\ First(v) \in Int
            BY <1>1, <3>2
          <6>3. QED
            BY <6>1, <6>2
        <5>3. QED
          BY <4>1, <5>1, <5>2
      <4>3. First(0) \in Int /\ First(v) \in Int
        BY <1>1, <3>2
      <4>4. QED
        BY <1>1, <3>1, <3>2, <4>2, <4>3
    <3>3. QED
      BY <1>2, <3>1, <3>2
  <2>2. hit = Wild
    BY <1>3, <2>1
  <2>3. key < sst.first_key
    BY <1>1, <1>9
  <2>4. QED
    BY <2>2, <2>3 DEF hit
<1>10. CASE ~(key < First(0)) /\ homes = {}
  <2>1. CASE v \in Places
    <3>1. First(v) <= key /\ key <= Final(v)
      <4>1. v \in Nat
        BY <1>1, <2>1
      <4>2. v # Wild /\ v # NoBlock
        BY <4>1, FoundAssumption
      <4>3. QED
        BY <1>2, <4>2
    <3>2. First(v) # key /\ Final(v) # key
      BY <1>8, <1>10, <2>1
    <3>3. First(v) < key /\ key < Final(v)
      BY <1>1, <2>1, <3>1, <3>2
    <3>4. between
      BY <1>5, <2>1, <3>3
    <3>5. hit = Throws
      BY <1>6, <1>10, <2>1
    <3>6. QED
      BY <1>1, <1>10, <3>4, <3>5 DEF homes, between, hit
  <2>2. CASE v \notin Places
    <3>1. v = NoBlock /\ \A i \in Places : Final(i) < key \/ key < First(i)
      BY <1>1, <1>2, <1>10, <2>2
    <3>2. ~between
      <4> SUFFICES ASSUME NEW i \in Places, First(i) < key, key < Final(i) PROVE FALSE
        BY <1>5
      <4>1. Final(i) < key \/ key < First(i)
        BY <3>1
      <4>2. First(i) \in Int /\ Final(i) \in Int
        BY <1>1
      <4>3. QED
        BY <1>1, <4>1, <4>2
    <3>3. hit = NoBlock
      BY <1>3, <3>1
    <3>4. QED
      BY <1>1, <1>10, <3>2, <3>3 DEF homes, between, hit
  <2>3. QED
    BY <2>1, <2>2
<1>11. CASE ~(key < First(0)) /\ homes # {}
  <2>1. PICK h \in homes : TRUE
    BY <1>11
  <2>2. h \in Places /\ First(h) <= key /\ key <= Final(h) /\ First(h) \in Int /\ Final(h) \in Int
    BY <1>1, <1>7
  <2>3. v \in Places /\ First(v) <= key /\ key <= Final(v)
    <3>1. ~(\A i \in Places : Final(i) < key \/ key < First(i))
      <4>1. ~(Final(h) < key \/ key < First(h))
        BY <1>1, <2>2
      <4>2. QED
        BY <2>2, <4>1
    <3>2. ~(\A i \in Places : key < First(i))
      BY <1>1, <1>11
    <3>3. QED
      BY <1>2, <3>1, <3>2
  <2>4. v \in homes
    <3>1. v \in Int /\ h \in Int /\ First(v) \in Int /\ Final(v) \in Int
      BY <1>1, <2>2, <2>3
    <3>2. CASE h = v
      BY <2>1, <3>2
    <3>3. CASE h < v
      <4>1. Final(h) <= First(v)
        BY <1>1, <2>2, <2>3, <3>3
      <4>2. First(v) = key
        BY <1>1, <2>2, <2>3, <3>1, <4>1
      <4>3. QED
        BY <1>8, <2>3, <4>2
    <3>4. CASE v < h
      <4>1. Final(v) <= First(h)
        BY <1>1, <2>2, <2>3, <3>4
      <4>2. Final(v) = key
        BY <1>1, <2>2, <2>3, <3>1, <4>1
      <4>3. QED
        BY <1>8, <2>3, <4>2
    <3>5. QED
      BY <3>1, <3>2, <3>3, <3>4
  <2>5. hit = NewestOf(ReadBlock(v).data, key)
    BY <1>6, <2>3, <2>4
  <2>6. ASSUME homes = {Least(homes)} PROVE hit = NewestOf(added, key)
    <3>1. \A i \in homes : i = v
      BY <2>4, <2>6
    <3> DEFINE b == ReadBlock(v)
               n == NewestOf(b.data, key)
    <3>2. /\ GoodBlock(b) /\ Range(b.data) \subseteq Range(added)
      BY <2>3, HomesOf
    <3>3. \E e \in Range(b.data) : e.key = key
      BY <1>4, <2>4
    <3>4. n \in Range(b.data) /\ n.key = key /\ \A f \in Range(b.data) : f.key = key => f.tranc_id <= n.tranc_id
      BY <3>2, <3>3, NewestExists
    <3> HIDE DEF n
    <3>5. ASSUME NEW f \in Range(added), f.key = key PROVE f.tranc_id <= n.tranc_id
      <4>1. PICK i \in Places : f \in Range(ReadBlock(i).data)
        BY EveryHome
      <4>2. i \in homes
        BY <1>4, <3>5, <4>1
      <4>3. f \in Range(b.data)
        BY <3>1, <4>1, <4>2
      <4>4. QED
        BY <3>4, <3>5, <4>3
    <3>6. added \in Seq(Entries)
      BY DEF SstInv
    <3>7. n \in Range(added)
      BY <3>2, <3>4
    <3>8. NewestOf(added, key) = n
      BY <3>4, <3>5, <3>6, <3>7, NewestIs
    <3>9. QED
      BY <2>5, <3>8 DEF n
  <2>7. hit \in {NewestOf(ReadBlock(i).data, key) : i \in homes}
    BY <2>4, <2>5
  <2>8. ~(key < sst.first_key) /\ homes # {}
    BY <1>1, <1>11
  <2>9. QED
    BY <2>6, <2>7, <2>8 DEF homes, hit
<1>12. QED
  BY <1>9, <1>10, <1>11

\* From the first key of the file on, a search by key finds the newest version of a key that
\* lies in one block, one of the newest of its blocks of any other, and no entry for a key
\* that is not there.
THEOREM FileSearched == Spec => []SeekExact
<1>1. ASSUME SstInv PROVE SeekExact
  <2> SUFFICES ASSUME Built, AllExact, NEW key \in Keys, key >= sst.first_key
               PROVE  LET homes == {i \in 0..(NumBlocks - 1) :
                                       \E e \in Range(ReadBlock(i).data) : e.key = key}
                          hit   == Seek(key, 0)
                      IN  IF homes = {} THEN hit \in {Throws, NoBlock}
                          ELSE IF homes = {Least(homes)} THEN hit = NewestOf(added, key)
                          ELSE hit \in {NewestOf(ReadBlock(i).data, key) : i \in homes}
    BY DEF SeekExact, NewestOf
  <2>1. ~(key < sst.first_key)
    <3>1. /\ key \in Int /\ First(0) \in Int /\ sst.first_key = First(0)
      BY <1>1, IndexOrder, KeysAssumption
    <3>2. QED
      BY <3>1
  <2>2. QED
    BY <1>1, <2>1, SeekIs
<1>2. QED
  BY <1>1, CutsKept, PTL
=============================================================================
