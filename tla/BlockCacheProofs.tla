-------------------------- MODULE BlockCacheProofs --------------------------
(***************************************************************************)
(* Theorems about the block cache and its callers, for every capacity,     *)
(* every K from 2 on, and every set of keys, blocks and nodes.             *)
(***************************************************************************)
EXTENDS BlockCacheUse, CommonProofs

-----------------------------------------------------------------------------
(* Lists without repetition *)

OneToOne(s) == \A i, j \in DOMAIN s : s[i] = s[j] => i = j

\* x stands somewhere before y.
Before(s, x, y) == \E i, j \in DOMAIN s : i < j /\ s[i] = x /\ s[j] = y

LEMMA RemoveAtParts ==
    ASSUME NEW S, NEW s \in Seq(S), NEW p \in DOMAIN s
    PROVE  /\ RemoveAt(s, p) \in Seq(S)
           /\ Len(s) \in Nat /\ DOMAIN s = 1..Len(s)
           /\ DOMAIN RemoveAt(s, p) = 1..(Len(s) - 1)
           /\ \A i \in 1..(Len(s) - 1) :
                 RemoveAt(s, p)[i] = IF i < p THEN s[i] ELSE s[i + 1]
<1> DEFINE a == SubSeq(s, 1, p - 1)
           b == SubSeq(s, p + 1, Len(s))
<1>1. Len(s) \in Nat /\ DOMAIN s = 1..Len(s) /\ p \in 1..Len(s)
  OBVIOUS
<1>2. a \in Seq(S) /\ Len(a) = p - 1 /\ \A i \in 1..(p - 1) : a[i] = s[i]
  BY <1>1
<1>3. /\ b \in Seq(S) /\ Len(b) = Len(s) - p
      /\ \A i \in 1..(Len(s) - p) : b[i] = s[p + i]
  BY <1>1
<1> HIDE DEF a, b
<1>4. a \o b \in Seq(S) /\ Len(a \o b) = Len(s) - 1 /\ DOMAIN (a \o b) = 1..(Len(s) - 1)
  <2>1. a \o b \in Seq(S) /\ Len(a \o b) = Len(a) + Len(b) /\ DOMAIN (a \o b) = 1..Len(a \o b)
    <3>1. a \in Seq(S) /\ b \in Seq(S)
      BY <1>2, <1>3
    <3>2. a \o b \in Seq(S)
      BY <3>1
    <3>3. Len(a \o b) = Len(a) + Len(b)
      BY <3>1
    <3>4. DOMAIN (a \o b) = 1..Len(a \o b)
      BY <3>2
    <3>5. QED
      BY <3>2, <3>3, <3>4
  <2>2. p \in Int /\ (p - 1) + (Len(s) - p) = Len(s) - 1
    BY <1>1
  <2>3. Len(a \o b) = Len(s) - 1
    BY <1>2, <1>3, <2>1, <2>2
  <2>4. QED
    BY <2>1, <2>3
<1>5. ASSUME NEW i \in 1..(Len(s) - 1)
      PROVE  (a \o b)[i] = IF i < p THEN s[i] ELSE s[i + 1]
  <2>1. CASE i < p
    BY <1>1, <1>2, <1>3, <2>1
  <2>2. CASE ~(i < p)
    <3>1. (a \o b)[i] = b[i - (p - 1)] /\ i - (p - 1) \in 1..(Len(s) - p)
      BY <1>1, <1>2, <1>3, <2>2
    <3>2. b[i - (p - 1)] = s[p + (i - (p - 1))] /\ p + (i - (p - 1)) = i + 1
      BY <1>1, <1>3, <3>1
    <3>3. QED
      BY <2>2, <3>1, <3>2
  <2>3. QED
    BY <2>1, <2>2
<1>6. RemoveAt(s, p) = a \o b
  BY DEF RemoveAt, a, b
<1> DEFINE w == a \o b
<1> HIDE DEF w
<1>7. RemoveAt(s, p) = w /\ w \in Seq(S) /\ DOMAIN w = 1..(Len(s) - 1)
  BY <1>4, <1>6 DEF w
<1>8. \A i \in 1..(Len(s) - 1) : w[i] = IF i < p THEN s[i] ELSE s[i + 1]
  BY <1>5 DEF w
<1>9. QED
  BY <1>1, <1>7, <1>8

\* Erasing a node from a list leaves the others in their order.
LEMMA WithoutParts ==
    ASSUME NEW S, NEW s \in Seq(S), NEW x, OneToOne(s)
    PROVE  /\ Without(s, x) \in Seq(S)
           /\ OneToOne(Without(s, x))
           /\ ToSet(Without(s, x)) = ToSet(s) \ {x}
           /\ \A y, z : Before(Without(s, x), y, z) <=> Before(s, y, z) /\ y # x /\ z # x
<1>0. DOMAIN s = 1..Len(s) /\ Len(s) \in Nat
  OBVIOUS
<1>1. CASE x \notin ToSet(s)
  <2>1. Without(s, x) = s /\ \A i \in DOMAIN s : s[i] # x
    BY <1>1 DEF Without, ToSet
  <2>2. QED
    BY <1>1, <2>1 DEF Before
<1>2. CASE x \in ToSet(s)
  <2> DEFINE p == CHOOSE i \in DOMAIN s : s[i] = x
             w == RemoveAt(s, p)
  <2>1. p \in DOMAIN s /\ s[p] = x /\ Without(s, x) = w
    BY <1>2 DEF Without, ToSet
  <2> HIDE DEF p
  <2>2. /\ w \in Seq(S)
        /\ DOMAIN w = 1..(Len(s) - 1)
        /\ \A i \in 1..(Len(s) - 1) : w[i] = IF i < p THEN s[i] ELSE s[i + 1]
    BY <2>1, RemoveAtParts
  <2>3. p \in 1..Len(s)
    BY <1>0, <2>1
  <2> HIDE DEF w
  <2> DEFINE to(i) == IF i < p THEN i ELSE i + 1
             from(q) == IF q < p THEN q ELSE q - 1
  <2>4. ASSUME NEW i \in DOMAIN w PROVE to(i) \in DOMAIN s /\ to(i) # p /\ w[i] = s[to(i)]
    BY <1>0, <2>2, <2>3
  <2>5. ASSUME NEW q \in DOMAIN s, q # p
        PROVE  from(q) \in DOMAIN w /\ s[q] = w[from(q)]
    <3>1. from(q) \in 1..(Len(s) - 1) /\ to(from(q)) = q
      BY <1>0, <2>3, <2>5
    <3>2. QED
      BY <2>2, <2>4, <3>1
  <2>6. \A i, j \in DOMAIN w : i < j <=> to(i) < to(j)
    BY <1>0, <2>2, <2>3
  <2>7. \A q, r \in DOMAIN s : q # p /\ r # p /\ q < r => from(q) < from(r)
    BY <1>0, <2>3
  <2> HIDE DEF to, from
  <2>8. \A q \in DOMAIN s : s[q] = x => q = p
    BY <2>1 DEF OneToOne
  <2>9. OneToOne(w)
    <3>1. ASSUME NEW i \in DOMAIN w, NEW j \in DOMAIN w, w[i] = w[j] PROVE i = j
      <4>1. to(i) = to(j)
        BY <2>4, <3>1 DEF OneToOne
      <4>2. ~(i < j) /\ ~(j < i)
        <5>1. to(i) \in Nat
          BY <1>0, <2>4
        <5>2. QED
          BY <2>6, <4>1, <5>1
      <4>3. i \in Nat /\ j \in Nat
        BY <2>2
      <4>4. QED
        BY <4>2, <4>3
    <3>2. QED
      BY <3>1 DEF OneToOne
  <2>10. ToSet(w) = ToSet(s) \ {x}
    BY <2>1, <2>4, <2>5, <2>8 DEF ToSet
  <2>11. ASSUME NEW y, NEW z, Before(w, y, z) PROVE Before(s, y, z) /\ y # x /\ z # x
    <3>1. PICK i \in DOMAIN w, j \in DOMAIN w : i < j /\ w[i] = y /\ w[j] = z
      BY <2>11 DEF Before
    <3>2. to(i) < to(j) /\ to(i) \in DOMAIN s /\ to(j) \in DOMAIN s
      BY <2>4, <2>6, <3>1
    <3>3. QED
      BY <2>4, <2>8, <3>1, <3>2 DEF Before
  <2>12. ASSUME NEW y, NEW z, Before(s, y, z), y # x, z # x PROVE Before(w, y, z)
    <3>1. PICK i \in DOMAIN s, j \in DOMAIN s : i < j /\ s[i] = y /\ s[j] = z
      BY <2>12 DEF Before
    <3>2. i # p /\ j # p
      BY <2>1, <2>12, <3>1
    <3>3. from(i) < from(j)
      BY <2>7, <3>1, <3>2
    <3>4. QED
      BY <2>5, <3>1, <3>2, <3>3 DEF Before
  <2>13. QED
    BY <2>1, <2>2, <2>9, <2>10, <2>11, <2>12
<1>3. QED
  BY <1>1, <1>2

\* A node more at the front.
LEMMA FrontParts ==
    ASSUME NEW S, NEW s \in Seq(S), NEW x \in S, OneToOne(s), x \notin ToSet(s)
    PROVE  /\ <<x>> \o s \in Seq(S)
           /\ OneToOne(<<x>> \o s)
           /\ ToSet(<<x>> \o s) = {x} \cup ToSet(s)
           /\ \A y, z : Before(<<x>> \o s, y, z) <=>
                           Before(s, y, z) \/ (y = x /\ z \in ToSet(s))
<1> DEFINE w == <<x>> \o s
<1>1. /\ w \in Seq(S) /\ DOMAIN w = 1..(Len(s) + 1) /\ DOMAIN s = 1..Len(s) /\ Len(s) \in Nat
      /\ w[1] = x /\ \A i \in 1..Len(s) : w[i + 1] = s[i]
  OBVIOUS
<1> HIDE DEF w
<1>2. \A i \in DOMAIN w : i # 1 => i - 1 \in DOMAIN s /\ w[i] = s[i - 1]
  BY <1>1
<1>3. \A i \in DOMAIN s : i + 1 \in DOMAIN w /\ w[i + 1] = s[i] /\ i + 1 # 1 /\ s[i] # x
  BY <1>1 DEF ToSet
<1>4. 1 \in DOMAIN w
  BY <1>1
<1>5. ToSet(w) = {x} \cup ToSet(s)
  <2>1. ToSet(w) \subseteq {x} \cup ToSet(s)
    BY <1>1, <1>2 DEF ToSet
  <2>2. {x} \cup ToSet(s) \subseteq ToSet(w)
    BY <1>1, <1>3, <1>4 DEF ToSet
  <2>3. QED
    BY <2>1, <2>2
<1>6. OneToOne(w)
  <2>1. ASSUME NEW i \in DOMAIN w, NEW j \in DOMAIN w, w[i] = w[j] PROVE i = j
    <3>1. CASE i = 1
      BY <1>1, <1>2, <1>3, <2>1, <3>1
    <3>2. CASE j = 1
      BY <1>1, <1>2, <1>3, <2>1, <3>2
    <3>3. CASE i # 1 /\ j # 1
      <4>1. i - 1 = j - 1
        BY <1>2, <2>1, <3>3 DEF OneToOne
      <4>2. i \in Int /\ j \in Int
        BY <1>1
      <4>3. QED
        BY <4>1, <4>2
    <3>4. QED
      BY <3>1, <3>2, <3>3
  <2>2. QED
    BY <2>1 DEF OneToOne
<1>7. ASSUME NEW y, NEW z, Before(w, y, z)
      PROVE  Before(s, y, z) \/ (y = x /\ z \in ToSet(s))
  <2>1. PICK i \in DOMAIN w, j \in DOMAIN w : i < j /\ w[i] = y /\ w[j] = z
    BY <1>7 DEF Before
  <2>2. j # 1
    BY <1>1, <2>1
  <2>3. CASE i = 1
    BY <1>1, <1>2, <2>1, <2>2, <2>3 DEF ToSet
  <2>4. CASE i # 1
    <3>1. i - 1 < j - 1
      BY <1>1, <2>1
    <3>2. QED
      BY <1>2, <2>1, <2>2, <2>4, <3>1 DEF Before
  <2>5. QED
    BY <2>3, <2>4
<1>8. ASSUME NEW y, NEW z, Before(s, y, z) PROVE Before(w, y, z)
  <2>1. PICK i \in DOMAIN s, j \in DOMAIN s : i < j /\ s[i] = y /\ s[j] = z
    BY <1>8 DEF Before
  <2>2. i + 1 < j + 1
    BY <1>1, <2>1
  <2>3. QED
    BY <1>3, <2>1, <2>2 DEF Before
<1>9. ASSUME NEW z \in ToSet(s) PROVE Before(w, x, z)
  <2>1. PICK j \in DOMAIN s : s[j] = z
    BY DEF ToSet
  <2>2. 1 < j + 1
    BY <1>1
  <2>3. QED
    BY <1>1, <1>3, <1>4, <2>1, <2>2 DEF Before
<1>10. QED
  BY <1>1, <1>5, <1>6, <1>7, <1>8, <1>9 DEF w

\* The last node of a list stands behind all the others.
LEMMA LastParts ==
    ASSUME NEW S, NEW s \in Seq(S), s # <<>>, OneToOne(s)
    PROVE  /\ Last(s) \in ToSet(s)
           /\ \A y \in ToSet(s) : y # Last(s) => Before(s, y, Last(s))
<1>1. Len(s) \in Nat /\ DOMAIN s = 1..Len(s) /\ Len(s) # 0 /\ Len(s) \in DOMAIN s
  OBVIOUS
<1>2. ASSUME NEW i \in DOMAIN s, s[i] # Last(s) PROVE Before(s, s[i], Last(s))
  <2>1. i # Len(s) /\ i \in 1..Len(s)
    BY <1>1, <1>2 DEF Last
  <2>2. i < Len(s)
    BY <1>1, <2>1
  <2>3. QED
    BY <1>1, <2>2 DEF Before, Last
<1>3. QED
  BY <1>1, <1>2 DEF ToSet, Last

-----------------------------------------------------------------------------
(* The inductive invariant *)

\* Every node in use is in the one list its count calls for, and the map and the keys in
\* the nodes lead to one another.
CacheInv ==
    /\ DOMAIN item \subseteq Nodes
    /\ item \in [DOMAIN item -> CacheItem]
    /\ cache_list_less_k \in Seq(Nodes) /\ OneToOne(cache_list_less_k)
    /\ cache_list_greater_k \in Seq(Nodes) /\ OneToOne(cache_list_greater_k)
    /\ ToSet(cache_list_less_k) = {n \in DOMAIN item : item[n].access_count < K}
    /\ ToSet(cache_list_greater_k) = {n \in DOMAIN item : ~(item[n].access_count < K)}
    /\ DOMAIN cache_map \subseteq CacheKeys
    /\ cache_map \in [DOMAIN cache_map -> DOMAIN item]
    /\ \A key \in DOMAIN cache_map : item[cache_map[key]].key = key
    /\ \A n \in DOMAIN item : item[n].key \in DOMAIN cache_map /\ cache_map[item[n].key] = n

\* What the callers know: how often, and with which block.
UseInv ==
    /\ uses \in [CacheKeys -> Nat]
    /\ last_put \in [CacheKeys -> Blocks \cup {Null}]
    /\ \A key \in DOMAIN cache_map :
          /\ uses[key] = item[cache_map[key]].access_count
          /\ last_put[key] = item[cache_map[key]].cache_block

\* A list is in the order of the last uses.
InRecency(list, items, rec) ==
    \A n, o : Before(list, n, o) => Before(rec, items[n].key, items[o].key)

RecencyInv ==
    /\ recency \in Seq(CacheKeys) /\ OneToOne(recency)
    /\ DOMAIN cache_map \subseteq ToSet(recency)
    /\ InRecency(cache_list_less_k, item, recency)
    /\ InRecency(cache_list_greater_k, item, recency)

RoomInv == IsFiniteSet(DOMAIN cache_map) /\ Cardinality(DOMAIN cache_map) <= Capacity

Inv == CacheInv /\ UseInv /\ RecencyInv /\ RoomInv

-----------------------------------------------------------------------------
(* The shape of every step *)

\* Node x, if in use, goes, and node new, which may be x, comes to the front of its list
\* with the item used.
Replaced(x, new, used) ==
    /\ new \in Nodes
    /\ new \notin DOMAIN item \ {x}
    /\ used \in CacheItem
    /\ \A n \in DOMAIN item \ {x} : item[n].key # used.key
    /\ item' = With(Less(item, x), new, used)
    /\ cache_map' =
          [key \in {k \in DOMAIN cache_map : cache_map[k] # x} \cup {used.key} |->
              IF key = used.key THEN new ELSE cache_map[key]]
    /\ cache_list_less_k' =
          IF used.access_count < K THEN <<new>> \o Without(cache_list_less_k, x)
          ELSE Without(cache_list_less_k, x)
    /\ cache_list_greater_k' =
          IF used.access_count < K THEN Without(cache_list_greater_k, x)
          ELSE <<new>> \o Without(cache_list_greater_k, x)

\* The callers take note.
Noted(used) ==
    /\ uses' = [uses EXCEPT ![used.key] = used.access_count]
    /\ last_put' = [last_put EXCEPT ![used.key] = used.cache_block]
    /\ recency' = ToFront(recency, used.key)

\* Erasing what is not in a list changes nothing.
LEMMA WithoutAbsent ==
    ASSUME NEW s, NEW x, x \notin ToSet(s)
    PROVE  Without(s, x) = s
BY DEF Without

\* A hit and an update: the item is replaced, in its node or in a new one.
LEMMA UseReplaces ==
    ASSUME CacheInv, NEW key \in DOMAIN cache_map, NEW block \in Blocks,
           UpdateAccessCount(cache_map[key], block)
    PROVE  \E x, new, used :
              /\ Replaced(x, new, used)
              /\ used.key = key /\ used.cache_block = block
              /\ used.access_count = item[cache_map[key]].access_count + 1
              /\ {k \in DOMAIN cache_map : cache_map[k] # x} = DOMAIN cache_map \ {key}
<1> DEFINE node == cache_map[key]
           used == [item[node] EXCEPT !.access_count = @ + 1, !.cache_block = block]
<1>1. /\ node \in DOMAIN item /\ node \in Nodes /\ item[node].key = key
      /\ item[node] \in CacheItem
      /\ \A n \in DOMAIN item : item[n].key = key => n = node
      /\ \A k \in DOMAIN cache_map : cache_map[k] = node => k = key
  BY DEF CacheInv
<1>2. /\ used \in CacheItem /\ used.key = key /\ used.cache_block = block
      /\ used.access_count = item[node].access_count + 1
      /\ item[node].access_count \in Nat
  <2> DEFINE it == item[node]
  <2>1. it \in [key : CacheKeys, cache_block : Blocks, access_count : Nat] /\ it.key = key
    BY <1>1 DEF CacheItem
  <2> HIDE DEF it
  <2>2. /\ it = [key |-> key, cache_block |-> it.cache_block, access_count |-> it.access_count]
        /\ it.access_count \in Nat
    BY <2>1
  <2> DEFINE c == it.access_count
             u == [it EXCEPT !.access_count = c + 1, !.cache_block = block]
  <2> HIDE DEF c
  <2>3. u = [key |-> key, cache_block |-> block, access_count |-> c + 1]
    <3> DEFINE b == it.cache_block
    <3>1. it = [key |-> key, cache_block |-> b, access_count |-> c]
      BY <2>2 DEF c
    <3> HIDE DEF b, it
    <3> DEFINE v == [it EXCEPT !.access_count = c + 1]
    <3>2. v = [key |-> key, cache_block |-> b, access_count |-> c + 1]
      BY <3>1
    <3>3. u = [v EXCEPT !.cache_block = block]
      OBVIOUS
    <3> HIDE DEF u, v
    <3>4. QED
      BY <3>2, <3>3
  <2>4. c \in Nat /\ used = u
    BY <2>2 DEF c, it
  <2> HIDE DEF u
  <2>5. /\ u \in [key : CacheKeys, cache_block : Blocks, access_count : Nat]
        /\ u.key = key /\ u.cache_block = block /\ u.access_count = c + 1
    BY <1>1, <2>3, <2>4 DEF CacheInv
  <2>6. QED
    BY <2>4, <2>5 DEF CacheItem, c, it
<1>3. /\ node \in ToSet(cache_list_less_k) <=> item[node].access_count < K
      /\ node \in ToSet(cache_list_greater_k) <=> ~(item[node].access_count < K)
  BY <1>1 DEF CacheInv
<1>4. K \in Nat
  BY KAssumption
<1>5. /\ {k \in DOMAIN cache_map : cache_map[k] # node} = DOMAIN cache_map \ {key}
      /\ \A n \in DOMAIN item \ {node} : item[n].key # used.key
  BY <1>1, <1>2
<1>6. UpdateAccessCount(node, block)
  OBVIOUS
<1> HIDE DEF used
<1>7. ASSUME item' = [item EXCEPT ![node] = used]
      PROVE  item' = With(Less(item, node), node, used)
  <2>1. item = [n \in DOMAIN item |-> item[n]] /\ node \in DOMAIN item
    BY <1>1 DEF CacheInv
  <2>2. DOMAIN item = (DOMAIN item \ {node}) \cup {node}
    BY <2>1
  <2>3. item' = [n \in DOMAIN item |-> IF n = node THEN used ELSE item[n]]
    BY <1>7, <2>1
  <2> HIDE DEF node
  <2>4. [n \in DOMAIN item |-> IF n = node THEN used ELSE item[n]]
           = [n \in (DOMAIN item \ {node}) \cup {node} |->
                IF n = node THEN used ELSE [z \in DOMAIN item \ {node} |-> item[z]][n]]
    BY <2>2
  <2>5. QED
    BY <2>3, <2>4 DEF With, Less
<1>8. ASSUME cache_map' = cache_map
      PROVE  cache_map' =
               [k \in {k \in DOMAIN cache_map : cache_map[k] # node} \cup {used.key} |->
                  IF k = used.key THEN node ELSE cache_map[k]]
  <2>1. cache_map = [k \in DOMAIN cache_map |-> cache_map[k]]
    BY DEF CacheInv
  <2>2. {k \in DOMAIN cache_map : cache_map[k] # node} \cup {used.key} = DOMAIN cache_map
    BY <1>2, <1>5
  <2>3. \A k \in DOMAIN cache_map : cache_map[k] = IF k = used.key THEN node ELSE cache_map[k]
    BY <1>2
  <2> HIDE DEF node
  <2>4. [k \in DOMAIN cache_map |-> cache_map[k]]
          = [k \in {k \in DOMAIN cache_map : cache_map[k] # node} \cup {used.key} |->
               IF k = used.key THEN node ELSE cache_map[k]]
    BY <2>2, <2>3
  <2>5. QED
    BY <1>8, <2>1, <2>4
<1>9. CASE used.access_count < K
  <2>1. /\ cache_list_less_k' = ToFront(cache_list_less_k, node)
        /\ item' = [item EXCEPT ![node] = used]
        /\ UNCHANGED <<cache_list_greater_k, cache_map>>
    BY <1>2, <1>4, <1>6, <1>9 DEF UpdateAccessCount, used
  <2>2. Without(cache_list_greater_k, node) = cache_list_greater_k
    BY <1>2, <1>3, <1>4, <1>9, WithoutAbsent
  <2>3. Replaced(node, node, used)
    BY <1>1, <1>2, <1>5, <1>7, <1>8, <1>9, <2>1, <2>2 DEF Replaced, ToFront
  <2>4. QED
    BY <1>2, <1>5, <2>3
<1>10. CASE used.access_count = K
  <2>1. Promote(node, used)
    BY <1>2, <1>4, <1>6, <1>10 DEF UpdateAccessCount, used
  <2>2. PICK new \in Nodes \ (DOMAIN item \ {node}) :
          /\ cache_list_less_k' = Without(cache_list_less_k, node)
          /\ cache_list_greater_k' = <<new>> \o cache_list_greater_k
          /\ item' = With(Less(item, node), new, used)
          /\ cache_map' = With(cache_map, used.key, new)
    BY <2>1 DEF Promote
  <2>3. Without(cache_list_greater_k, node) = cache_list_greater_k
    BY <1>2, <1>3, <1>4, <1>10, WithoutAbsent
  <2>4. cache_map' =
           [k \in {k \in DOMAIN cache_map : cache_map[k] # node} \cup {used.key} |->
              IF k = used.key THEN new ELSE cache_map[k]]
    <3>1. {k \in DOMAIN cache_map : cache_map[k] # node} \cup {used.key}
             = DOMAIN cache_map \cup {used.key}
      BY <1>2, <1>5
    <3>2. QED
      BY <2>2, <3>1 DEF With
  <2>5. ~(used.access_count < K)
    BY <1>4, <1>10
  <2>6. Replaced(node, new, used)
    BY <1>2, <1>5, <2>2, <2>3, <2>4, <2>5 DEF Replaced
  <2>7. QED
    BY <1>2, <1>5, <2>6
<1>11. CASE used.access_count > K
  <2>1. /\ cache_list_greater_k' = ToFront(cache_list_greater_k, node)
        /\ item' = [item EXCEPT ![node] = used]
        /\ UNCHANGED <<cache_list_less_k, cache_map>>
    BY <1>2, <1>4, <1>6, <1>11 DEF UpdateAccessCount, used
  <2>2. Without(cache_list_less_k, node) = cache_list_less_k /\ ~(used.access_count < K)
    BY <1>2, <1>3, <1>4, <1>11, WithoutAbsent
  <2>3. Replaced(node, node, used)
    BY <1>1, <1>2, <1>5, <1>7, <1>8, <2>1, <2>2 DEF Replaced, ToFront
  <2>4. QED
    BY <1>2, <1>5, <2>3
<1>12. QED
  BY <1>2, <1>4, <1>9, <1>10, <1>11

\* A full cache has a node to lose.
LEMMA VictimIs ==
    ASSUME CacheInv, RoomInv, Full
    PROVE  /\ Victim \in DOMAIN item
           /\ cache_list_less_k # <<>> =>
                 /\ item[Victim].access_count < K
                 /\ \A n \in DOMAIN item \ {Victim} :
                       item[n].access_count < K => Before(cache_list_less_k, n, Victim)
           /\ cache_list_less_k = <<>> =>
                 /\ \A n \in DOMAIN item : ~(item[n].access_count < K)
                 /\ \A n \in DOMAIN item \ {Victim} : Before(cache_list_greater_k, n, Victim)
<1>1. PICK key : key \in DOMAIN cache_map
  <2>1. Cardinality({}) = 0
    BY FS_EmptySet
  <2>2. DOMAIN cache_map # {}
    BY <2>1, CapacityAssumption DEF Full
  <2>3. QED
    BY <2>2
<1>2. /\ cache_list_less_k \in Seq(Nodes) /\ OneToOne(cache_list_less_k)
      /\ cache_list_greater_k \in Seq(Nodes) /\ OneToOne(cache_list_greater_k)
      /\ ToSet(cache_list_less_k) = {n \in DOMAIN item : item[n].access_count < K}
      /\ ToSet(cache_list_greater_k) = {n \in DOMAIN item : ~(item[n].access_count < K)}
      /\ cache_map[key] \in DOMAIN item
  BY <1>1 DEF CacheInv
<1>3. CASE cache_list_less_k # <<>>
  <2>1. Victim = Last(cache_list_less_k)
    BY <1>3 DEF Victim
  <2>2. QED
    BY <1>2, <1>3, <2>1, LastParts
<1>4. CASE cache_list_less_k = <<>>
  <2>1. ToSet(cache_list_less_k) = {}
    BY <1>4 DEF ToSet
  <2>2. \A n \in DOMAIN item : ~(item[n].access_count < K) /\ n \in ToSet(cache_list_greater_k)
    BY <1>2, <2>1
  <2>3. cache_list_greater_k # <<>>
    <3>1. cache_map[key] \in ToSet(cache_list_greater_k)
      BY <1>2, <2>2
    <3>2. ToSet(<<>>) = {}
      BY DEF ToSet
    <3>3. QED
      BY <3>1, <3>2
  <2>4. Victim = Last(cache_list_greater_k)
    BY <1>4 DEF Victim
  <2>5. QED
    BY <1>2, <1>4, <2>2, <2>3, <2>4, LastParts
<1>5. QED
  BY <1>3, <1>4

\* A put of a new key: the new item takes the place of the victim's, if the cache is full.
LEMMA InsertReplaces ==
    ASSUME CacheInv, RoomInv, NEW key \in CacheKeys, NEW block \in Blocks, Insert(key, block)
    PROVE  \E x, new :
              /\ Replaced(x, new, [key |-> key, cache_block |-> block, access_count |-> 1])
              /\ Full => x = Victim
              /\ ~Full => x \notin DOMAIN item
<1> DEFINE used == [key |-> key, cache_block |-> block, access_count |-> 1]
<1>1. used \in CacheItem /\ used.key = key /\ used.access_count < K
  BY KAssumption DEF CacheItem
<1>2. PICK new \in Nodes \ DOMAIN RoomInItems :
         /\ cache_list_less_k' = <<new>> \o RoomInLists[1]
         /\ cache_list_greater_k' = RoomInLists[2]
         /\ item' = With(RoomInItems, new, used)
         /\ cache_map' = With(RoomInMap, key, new)
  BY DEF Insert
<1>3. \A n \in DOMAIN item : item[n].key # key
  BY DEF Insert, CacheInv
<1>4. /\ \A n \in ToSet(cache_list_less_k) : n \in DOMAIN item
      /\ \A n \in ToSet(cache_list_greater_k) : n \in DOMAIN item
  BY DEF CacheInv
<1> HIDE DEF used
<1>5. CASE Full
  <2>1. /\ RoomInLists[1] = Without(cache_list_less_k, Victim)
        /\ RoomInLists[2] = Without(cache_list_greater_k, Victim)
        /\ RoomInItems = Less(item, Victim)
        /\ RoomInMap = Less(cache_map, item[Victim].key)
    BY <1>5 DEF RoomInLists, RoomInItems, RoomInMap
  <2>2. Victim \in DOMAIN item
    BY <1>5, VictimIs
  <2>3. {k \in DOMAIN cache_map : cache_map[k] # Victim} = DOMAIN cache_map \ {item[Victim].key}
    BY <2>2 DEF CacheInv
  <2>4. new \notin DOMAIN item \ {Victim}
    BY <2>1 DEF Less
  <2> DEFINE left == DOMAIN cache_map \ {item[Victim].key}
  <2>5. cache_map' = [k \in left \cup {key} |-> IF k = key THEN new ELSE cache_map[k]]
    BY <1>2, <2>1 DEF With, Less
  <2>6. cache_map' =
           [k \in {k \in DOMAIN cache_map : cache_map[k] # Victim} \cup {used.key} |->
              IF k = used.key THEN new ELSE cache_map[k]]
    BY <1>1, <2>3, <2>5
  <2>7. Replaced(Victim, new, used)
    BY <1>1, <1>2, <1>3, <2>1, <2>4, <2>6 DEF Replaced
  <2>8. QED
    BY <1>5, <2>7 DEF used
<1>6. CASE ~Full
  <2>1. /\ RoomInLists[1] = cache_list_less_k
        /\ RoomInLists[2] = cache_list_greater_k
        /\ RoomInItems = item
        /\ RoomInMap = cache_map
    BY <1>6 DEF RoomInLists, RoomInItems, RoomInMap
  <2>2. new \notin DOMAIN item
    BY <2>1
  <2>3. Without(cache_list_less_k, new) = cache_list_less_k
    BY <1>4, <2>2, WithoutAbsent
  <2>4. Without(cache_list_greater_k, new) = cache_list_greater_k
    BY <1>4, <2>2, WithoutAbsent
  <2>5. Less(item, new) = item
    <3>1. item = [n \in DOMAIN item |-> item[n]]
      BY DEF CacheInv
    <3>2. DOMAIN item \ {new} = DOMAIN item
      BY <2>2
    <3>3. QED
      BY <3>1, <3>2 DEF Less
  <2>6. cache_map' =
           [k \in {k \in DOMAIN cache_map : cache_map[k] # new} \cup {used.key} |->
              IF k = used.key THEN new ELSE cache_map[k]]
    <3>1. {k \in DOMAIN cache_map : cache_map[k] # new} = DOMAIN cache_map
      <4>1. \A k \in DOMAIN cache_map : cache_map[k] \in DOMAIN item
        BY DEF CacheInv
      <4>2. QED
        BY <2>2, <4>1
    <3>2. cache_map' = With(cache_map, used.key, new)
      BY <1>1, <1>2, <2>1
    <3>3. QED
      BY <3>1, <3>2 DEF With
  <2>7. Replaced(new, new, used)
    BY <1>1, <1>2, <1>3, <2>1, <2>3, <2>4, <2>5, <2>6 DEF Replaced
  <2>8. QED
    BY <1>6, <2>2, <2>7 DEF used
<1>7. QED
  BY <1>5, <1>6

-----------------------------------------------------------------------------
(* Every step keeps the invariant *)

\* The items after a replacement.
LEMMA ReplacedItems ==
    ASSUME CacheInv, NEW x, NEW new, NEW used, Replaced(x, new, used)
    PROVE  /\ DOMAIN item' = (DOMAIN item \ {x}) \cup {new}
           /\ item'[new] = used
           /\ \A n \in DOMAIN item \ {x} : n # new /\ item'[n] = item[n]
           /\ item' \in [DOMAIN item' -> CacheItem]
<1>1. item' = [n \in (DOMAIN item \ {x}) \cup {new} |-> IF n = new THEN used ELSE item[n]]
  <2>1. DOMAIN Less(item, x) = DOMAIN item \ {x}
    BY DEF Less
  <2>2. \A n \in DOMAIN item \ {x} : Less(item, x)[n] = item[n]
    BY DEF Less
  <2>3. item' = [n \in DOMAIN Less(item, x) \cup {new} |->
                    IF n = new THEN used ELSE Less(item, x)[n]]
    BY DEF Replaced, With
  <2>4. QED
    BY <2>1, <2>2, <2>3
<1>2. used \in CacheItem /\ new \notin DOMAIN item \ {x}
  BY DEF Replaced
<1>3. \A n \in DOMAIN item : item[n] \in CacheItem
  BY DEF CacheInv
<1>4. QED
  BY <1>1, <1>2, <1>3

\* The keys that do not lead to node x.
KeptKeys(x) == {k \in DOMAIN cache_map : cache_map[k] # x}

\* The map after a replacement.
MapReplaced(x, new, used) ==
    /\ DOMAIN cache_map' = KeptKeys(x) \cup {used.key}
    /\ cache_map'[used.key] = new
    /\ \A k \in DOMAIN cache_map' : k # used.key =>
          /\ k \in DOMAIN cache_map /\ cache_map'[k] = cache_map[k]
          /\ cache_map[k] \in DOMAIN item \ {x}

LEMMA ReplacedMap ==
    ASSUME CacheInv, NEW x, NEW new, NEW used, Replaced(x, new, used)
    PROVE  MapReplaced(x, new, used)
<1> DEFINE D == KeptKeys(x) \cup {used.key}
<1>1. cache_map' = [k \in D |-> IF k = used.key THEN new ELSE cache_map[k]]
  BY DEF Replaced, KeptKeys
<1>2. \A k \in DOMAIN cache_map : cache_map[k] \in DOMAIN item
  BY DEF CacheInv
<1>3. QED
  BY <1>1, <1>2 DEF KeptKeys, MapReplaced

\* The keys after a replacement.
LEMMA ReplacedKeys ==
    ASSUME CacheInv, NEW x, NEW new, NEW used, Replaced(x, new, used)
    PROVE  DOMAIN cache_map' = KeptKeys(x) \cup {used.key}
<1>1. MapReplaced(x, new, used)
  BY ReplacedMap
<1>2. QED
  BY <1>1 DEF MapReplaced

\* The lists after a replacement.
LEMMA ReplacedLists ==
    ASSUME CacheInv, NEW x, NEW new, NEW used, Replaced(x, new, used)
    PROVE  /\ cache_list_less_k' \in Seq(Nodes) /\ OneToOne(cache_list_less_k')
           /\ cache_list_greater_k' \in Seq(Nodes) /\ OneToOne(cache_list_greater_k')
           /\ ToSet(cache_list_less_k')
                 = {n \in DOMAIN item' : item'[n].access_count < K}
           /\ ToSet(cache_list_greater_k')
                 = {n \in DOMAIN item' : ~(item'[n].access_count < K)}
<1> DEFINE less    == cache_list_less_k
           greater == cache_list_greater_k
           l       == Without(less, x)
           g       == Without(greater, x)
<1>1. /\ less \in Seq(Nodes) /\ OneToOne(less)
      /\ greater \in Seq(Nodes) /\ OneToOne(greater)
      /\ ToSet(less) = {n \in DOMAIN item : item[n].access_count < K}
      /\ ToSet(greater) = {n \in DOMAIN item : ~(item[n].access_count < K)}
  BY DEF CacheInv
<1>2. /\ new \in Nodes /\ new \notin DOMAIN item \ {x}
      /\ less' = IF used.access_count < K THEN <<new>> \o l ELSE l
      /\ greater' = IF used.access_count < K THEN g ELSE <<new>> \o g
  BY DEF Replaced
<1> HIDE DEF less, greater
<1>3. /\ l \in Seq(Nodes) /\ OneToOne(l) /\ ToSet(l) = ToSet(less) \ {x}
      /\ g \in Seq(Nodes) /\ OneToOne(g) /\ ToSet(g) = ToSet(greater) \ {x}
  BY <1>1, WithoutParts
<1> HIDE DEF l, g
<1>4. new \notin ToSet(l) /\ new \notin ToSet(g)
  BY <1>1, <1>2, <1>3
<1>5. /\ <<new>> \o l \in Seq(Nodes) /\ OneToOne(<<new>> \o l)
      /\ ToSet(<<new>> \o l) = {new} \cup ToSet(l)
      /\ <<new>> \o g \in Seq(Nodes) /\ OneToOne(<<new>> \o g)
      /\ ToSet(<<new>> \o g) = {new} \cup ToSet(g)
  BY <1>2, <1>3, <1>4, FrontParts
<1>6. /\ DOMAIN item' = (DOMAIN item \ {x}) \cup {new}
      /\ item'[new] = used
      /\ \A n \in DOMAIN item \ {x} : item'[n] = item[n]
  BY ReplacedItems
<1>7. CASE used.access_count < K
  BY <1>1, <1>2, <1>3, <1>4, <1>5, <1>6, <1>7 DEF less, greater
<1>8. CASE ~(used.access_count < K)
  BY <1>1, <1>2, <1>3, <1>4, <1>5, <1>6, <1>8 DEF less, greater
<1>9. QED
  BY <1>7, <1>8

LEMMA ReplacedKeeps ==
    ASSUME CacheInv, NEW x, NEW new, NEW used, Replaced(x, new, used)
    PROVE  CacheInv'
<1>1. /\ DOMAIN item' = (DOMAIN item \ {x}) \cup {new}
      /\ item'[new] = used
      /\ \A n \in DOMAIN item \ {x} : n # new /\ item'[n] = item[n]
      /\ item' \in [DOMAIN item' -> CacheItem]
  BY ReplacedItems
<1>2. /\ DOMAIN cache_map' = KeptKeys(x) \cup {used.key}
      /\ cache_map'[used.key] = new
      /\ \A k \in DOMAIN cache_map' : k # used.key =>
            /\ k \in DOMAIN cache_map /\ cache_map'[k] = cache_map[k]
            /\ cache_map[k] \in DOMAIN item \ {x}
  <2>1. MapReplaced(x, new, used)
    BY ReplacedMap
  <2>2. QED
    BY <2>1 DEF MapReplaced
<1>3. /\ new \in Nodes /\ used.key \in CacheKeys
      /\ \A n \in DOMAIN item \ {x} : item[n].key # used.key
  BY DEF Replaced, CacheItem
<1>4. /\ DOMAIN item \subseteq Nodes /\ DOMAIN cache_map \subseteq CacheKeys
      /\ \A k \in DOMAIN cache_map : item[cache_map[k]].key = k
      /\ \A n \in DOMAIN item : item[n].key \in DOMAIN cache_map /\ cache_map[item[n].key] = n
  BY DEF CacheInv
<1>5. DOMAIN item' \subseteq Nodes /\ DOMAIN cache_map' \subseteq CacheKeys
  BY <1>1, <1>2, <1>3, <1>4 DEF KeptKeys
<1>6. \A k \in DOMAIN cache_map' : cache_map'[k] \in DOMAIN item' /\ item'[cache_map'[k]].key = k
  BY <1>1, <1>2, <1>4
<1>7. cache_map' \in [DOMAIN cache_map' -> DOMAIN item']
  <2>1. cache_map' = [k \in DOMAIN cache_map' |-> cache_map'[k]]
    BY DEF Replaced
  <2>2. QED
    BY <1>6, <2>1
<1>8. ASSUME NEW n \in DOMAIN item'
      PROVE  item'[n].key \in DOMAIN cache_map' /\ cache_map'[item'[n].key] = n
  <2>1. CASE n = new
    BY <1>1, <1>2, <2>1
  <2>2. CASE n # new
    <3>1. n \in DOMAIN item \ {x} /\ item'[n] = item[n] /\ item[n].key # used.key
      BY <1>1, <1>3, <2>2
    <3>2. item[n].key \in DOMAIN cache_map /\ cache_map[item[n].key] = n /\ n # x
      BY <1>4, <3>1
    <3>3. item[n].key \in DOMAIN cache_map'
      BY <1>2, <3>2 DEF KeptKeys
    <3>4. QED
      BY <1>2, <3>1, <3>2, <3>3
  <2>3. QED
    BY <2>1, <2>2
<1>9. QED
  BY <1>1, <1>5, <1>6, <1>7, <1>8, ReplacedLists DEF CacheInv

LEMMA NotedKeeps ==
    ASSUME CacheInv, UseInv, NEW x, NEW new, NEW used, Replaced(x, new, used), Noted(used)
    PROVE  UseInv'
<1>1. /\ item'[new] = used
      /\ \A n \in DOMAIN item \ {x} : item'[n] = item[n]
  BY ReplacedItems
<1>2. /\ cache_map'[used.key] = new
      /\ DOMAIN cache_map' \subseteq CacheKeys
      /\ \A k \in DOMAIN cache_map' : k # used.key =>
            /\ k \in DOMAIN cache_map /\ cache_map'[k] = cache_map[k]
            /\ cache_map[k] \in DOMAIN item \ {x}
  <2>1. CacheInv'
    BY ReplacedKeeps
  <2>2. DOMAIN cache_map' \subseteq CacheKeys
    BY <2>1 DEF CacheInv
  <2>3. MapReplaced(x, new, used)
    BY ReplacedMap
  <2>4. QED
    BY <2>2, <2>3 DEF MapReplaced
<1>3. used.key \in CacheKeys /\ used.access_count \in Nat /\ used.cache_block \in Blocks
  BY DEF Replaced, CacheItem
<1>4. uses \in [CacheKeys -> Nat] /\ last_put \in [CacheKeys -> Blocks \cup {Null}]
  BY DEF UseInv
<1>5. /\ uses' \in [CacheKeys -> Nat] /\ last_put' \in [CacheKeys -> Blocks \cup {Null}]
      /\ uses'[used.key] = used.access_count /\ last_put'[used.key] = used.cache_block
      /\ \A k \in CacheKeys : k # used.key => uses'[k] = uses[k] /\ last_put'[k] = last_put[k]
  BY <1>3, <1>4 DEF Noted
<1>6. ASSUME NEW k \in DOMAIN cache_map'
      PROVE  /\ uses'[k] = item'[cache_map'[k]].access_count
             /\ last_put'[k] = item'[cache_map'[k]].cache_block
  <2>1. CASE k = used.key
    BY <1>1, <1>2, <1>5, <2>1
  <2>2. CASE k # used.key
    <3>1. k \in CacheKeys /\ k \in DOMAIN cache_map /\ item'[cache_map'[k]] = item[cache_map[k]]
      BY <1>1, <1>2, <2>2
    <3>2. QED
      BY <1>5, <2>2, <3>1 DEF UseInv
  <2>3. QED
    BY <2>1, <2>2
<1>7. QED
  BY <1>5, <1>6 DEF UseInv

\* A key that is used comes to the front of recency, the others stay in their order.
LEMMA RecencyMoves ==
    ASSUME NEW rec \in Seq(CacheKeys), OneToOne(rec), NEW key \in CacheKeys
    PROVE  /\ ToFront(rec, key) \in Seq(CacheKeys)
           /\ OneToOne(ToFront(rec, key))
           /\ ToSet(ToFront(rec, key)) = ToSet(rec) \cup {key}
           /\ \A k, j : Before(ToFront(rec, key), k, j) <=>
                           \/ Before(rec, k, j) /\ k # key /\ j # key
                           \/ k = key /\ j \in ToSet(rec) /\ j # key
<1> DEFINE w == Without(rec, key)
<1>1. /\ w \in Seq(CacheKeys) /\ OneToOne(w) /\ ToSet(w) = ToSet(rec) \ {key}
      /\ \A k, j : Before(w, k, j) <=> Before(rec, k, j) /\ k # key /\ j # key
  BY WithoutParts
<1> HIDE DEF w
<1>2. key \notin ToSet(w)
  BY <1>1
<1>3. /\ <<key>> \o w \in Seq(CacheKeys) /\ OneToOne(<<key>> \o w)
      /\ ToSet(<<key>> \o w) = {key} \cup ToSet(w)
      /\ \A k, j : Before(<<key>> \o w, k, j) <=> Before(w, k, j) \/ (k = key /\ j \in ToSet(w))
  BY <1>1, <1>2, FrontParts
<1>4. ToFront(rec, key) = <<key>> \o w
  BY DEF ToFront, w
<1> DEFINE f == <<key>> \o w
<1> HIDE DEF f
<1>5. QED
  BY <1>1, <1>3, <1>4 DEF f

\* The nodes that stand before one another are in the list.
LEMMA BeforeInList == \A s, n, o : Before(s, n, o) => n \in ToSet(s) /\ o \in ToSet(s)
BY DEF Before, ToSet

LEMMA RecencyStep ==
    ASSUME CacheInv, RecencyInv, NEW x, NEW new, NEW used, Replaced(x, new, used), Noted(used)
    PROVE  RecencyInv'
<1> DEFINE key     == used.key
           less    == cache_list_less_k
           greater == cache_list_greater_k
           l       == Without(less, x)
           g       == Without(greater, x)
           rec     == ToFront(recency, key)
<1>0. recency \in Seq(CacheKeys) /\ OneToOne(recency) /\ key \in CacheKeys
  BY DEF RecencyInv, Replaced, CacheItem
<1>1. /\ rec \in Seq(CacheKeys) /\ OneToOne(rec)
      /\ ToSet(rec) = ToSet(recency) \cup {key}
      /\ \A k, j : Before(rec, k, j) <=>
                      \/ Before(recency, k, j) /\ k # key /\ j # key
                      \/ k = key /\ j \in ToSet(recency) /\ j # key
  BY <1>0, RecencyMoves
<1>2. recency' = rec
  BY DEF Noted
<1>3. /\ item'[new] = used
      /\ \A n \in DOMAIN item \ {x} : n # new /\ item'[n] = item[n] /\ item[n].key # key
  <2>1. /\ item'[new] = used
        /\ \A n \in DOMAIN item \ {x} : n # new /\ item'[n] = item[n]
    BY ReplacedItems
  <2>2. \A n \in DOMAIN item \ {x} : item[n].key # key
    BY DEF Replaced
  <2>3. QED
    BY <2>1, <2>2
<1>4. \A n \in DOMAIN item : item[n].key \in ToSet(recency)
  BY DEF CacheInv, RecencyInv
<1>5. DOMAIN cache_map' \subseteq ToSet(rec)
  BY <1>1, ReplacedKeys DEF RecencyInv, KeptKeys
<1> HIDE DEF rec
<1>6. ASSUME NEW list \in Seq(Nodes), OneToOne(list), ToSet(list) \subseteq DOMAIN item,
             InRecency(list, item, recency)
      PROVE  /\ InRecency(Without(list, x), item', rec)
             /\ InRecency(<<new>> \o Without(list, x), item', rec)
  <2> DEFINE w == Without(list, x)
  <2>1. /\ w \in Seq(Nodes) /\ OneToOne(w) /\ ToSet(w) = ToSet(list) \ {x}
        /\ \A n, o : Before(w, n, o) <=> Before(list, n, o) /\ n # x /\ o # x
    BY <1>6, WithoutParts
  <2> HIDE DEF w
  <2>2. InRecency(w, item', rec)
    <3> SUFFICES ASSUME NEW n, NEW o, Before(w, n, o)
                 PROVE  Before(rec, item'[n].key, item'[o].key)
      BY DEF InRecency
    <3>1. n \in DOMAIN item \ {x} /\ o \in DOMAIN item \ {x} /\ Before(list, n, o)
      BY <1>6, <2>1, BeforeInList
    <3>2. Before(recency, item[n].key, item[o].key)
      BY <1>6, <3>1 DEF InRecency
    <3>3. item[n].key # key /\ item[o].key # key /\ item'[n] = item[n] /\ item'[o] = item[o]
      BY <1>3, <3>1
    <3>4. QED
      BY <1>1, <3>2, <3>3
  <2>3. ASSUME NEW n, NEW o, Before(<<new>> \o w, n, o)
        PROVE  Before(rec, item'[n].key, item'[o].key)
    <3>1. new \notin ToSet(w) /\ new \in Nodes
      BY <1>3, <1>6, <2>1 DEF Replaced
    <3>2. Before(w, n, o) \/ (n = new /\ o \in ToSet(w))
      BY <2>1, <2>3, <3>1, FrontParts
    <3>3. CASE Before(w, n, o)
      BY <2>2, <3>3 DEF InRecency
    <3>4. CASE n = new /\ o \in ToSet(w)
      <4>1. o \in DOMAIN item \ {x}
        BY <1>6, <2>1, <3>4
      <4>2. item'[n].key = key /\ item'[o].key = item[o].key /\ item[o].key # key
        BY <1>3, <3>4, <4>1
      <4>3. item[o].key \in ToSet(recency)
        BY <1>4, <4>1
      <4>4. QED
        BY <1>1, <4>2, <4>3
    <3>5. QED
      BY <3>2, <3>3, <3>4
  <2>4. QED
    BY <2>2, <2>3 DEF InRecency, w
<1>7. /\ less' = IF used.access_count < K THEN <<new>> \o l ELSE l
      /\ greater' = IF used.access_count < K THEN g ELSE <<new>> \o g
  BY DEF Replaced
<1>8. /\ InRecency(l, item', rec) /\ InRecency(<<new>> \o l, item', rec)
      /\ InRecency(g, item', rec) /\ InRecency(<<new>> \o g, item', rec)
  <2>1. /\ less \in Seq(Nodes) /\ OneToOne(less) /\ ToSet(less) \subseteq DOMAIN item
        /\ greater \in Seq(Nodes) /\ OneToOne(greater) /\ ToSet(greater) \subseteq DOMAIN item
        /\ InRecency(less, item, recency) /\ InRecency(greater, item, recency)
    BY DEF CacheInv, RecencyInv
  <2> HIDE DEF less, greater
  <2>2. QED
    BY <1>6, <2>1
<1> HIDE DEF l, g
<1>9. InRecency(less', item', rec) /\ InRecency(greater', item', rec)
  BY <1>7, <1>8
<1>10. QED
  BY <1>1, <1>2, <1>5, <1>9 DEF RecencyInv

-----------------------------------------------------------------------------
(* The steps of the callers *)

\* A use of a cached key is a replacement that keeps the keys.
LEMMA UseStep ==
    ASSUME Inv, NEW key \in CacheKeys, Get(key) \/ \E block \in Blocks : Refresh(key, block)
    PROVE  \E x, new, used :
              /\ Replaced(x, new, used) /\ Noted(used)
              /\ KeptKeys(x) \cup {used.key} = DOMAIN cache_map
<1> DEFINE node == cache_map[key]
<1>1. /\ key \in DOMAIN cache_map /\ node \in DOMAIN item /\ item[node] \in CacheItem
      /\ uses \in [CacheKeys -> Nat] /\ uses[key] = item[node].access_count
      /\ last_put \in [CacheKeys -> Blocks \cup {Null}]
      /\ last_put[key] = item[node].cache_block
  <2>1. key \in DOMAIN cache_map
    BY DEF Get, Refresh, Hit, Update
  <2>2. QED
    BY <2>1 DEF Inv, CacheInv, UseInv
<1>2. PICK block \in Blocks :
        /\ UpdateAccessCount(node, block)
        /\ uses' = [uses EXCEPT ![key] = uses[key] + 1]
        /\ last_put' = [last_put EXCEPT ![key] = block]
        /\ recency' = ToFront(recency, key)
  <2>1. CASE Get(key)
    <3>1. item[node].cache_block \in Blocks
      BY <1>1 DEF CacheItem
    <3>2. last_put = [last_put EXCEPT ![key] = last_put[key]]
      BY <1>1
    <3>3. /\ UpdateAccessCount(node, item[node].cache_block)
          /\ last_put' = last_put /\ recency' = ToFront(recency, key)
      BY <2>1 DEF Get, Hit, Used
    <3>4. uses' = [uses EXCEPT ![key] = uses[key] + 1]
      BY <2>1 DEF Get
    <3> HIDE DEF node
    <3>5. last_put' = [last_put EXCEPT ![key] = item[node].cache_block]
      BY <1>1, <3>2, <3>3
    <3>6. QED
      BY <3>1, <3>3, <3>4, <3>5
  <2>2. CASE \E block \in Blocks : Refresh(key, block)
    <3>1. PICK block \in Blocks : Refresh(key, block)
      BY <2>2
    <3>2. UpdateAccessCount(node, block) /\ recency' = ToFront(recency, key)
      BY <3>1 DEF Refresh, Update, Used
    <3>3. /\ uses' = [uses EXCEPT ![key] = uses[key] + 1]
          /\ last_put' = [last_put EXCEPT ![key] = block]
      BY <3>1 DEF Refresh
    <3>4. QED
      BY <3>2, <3>3
  <2>3. QED
    BY <2>1, <2>2
<1>3. PICK x, new, used :
        /\ Replaced(x, new, used)
        /\ used.key = key /\ used.cache_block = block
        /\ used.access_count = item[node].access_count + 1
        /\ {k \in DOMAIN cache_map : cache_map[k] # x} = DOMAIN cache_map \ {key}
  BY <1>1, <1>2, UseReplaces DEF Inv
<1>4. Noted(used)
  BY <1>1, <1>2, <1>3 DEF Noted
<1>5. KeptKeys(x) \cup {used.key} = DOMAIN cache_map
  BY <1>1, <1>3 DEF KeptKeys
<1>6. QED
  BY <1>3, <1>4, <1>5

\* A put of a new key is a replacement of the victim, or an addition.
LEMMA PutStep ==
    ASSUME Inv, NEW key \in CacheKeys, NEW block \in Blocks, Put(key, block)
    PROVE  \E x, new, used :
              /\ Replaced(x, new, used) /\ Noted(used)
              /\ used.key = key /\ key \notin DOMAIN cache_map
              /\ Full => x = Victim
              /\ ~Full => x \notin DOMAIN item
<1> DEFINE used == [key |-> key, cache_block |-> block, access_count |-> 1]
<1>1. PICK x, new :
        /\ Replaced(x, new, used)
        /\ Full => x = Victim
        /\ ~Full => x \notin DOMAIN item
  BY InsertReplaces DEF Inv, Put
<1>2. used.key = key /\ used.cache_block = block /\ used.access_count = 1
  OBVIOUS
<1> HIDE DEF used
<1>3. Noted(used)
  BY <1>2 DEF Put, Used, Noted
<1>4. key \notin DOMAIN cache_map
  BY DEF Put, Insert
<1>5. QED
  BY <1>1, <1>2, <1>3, <1>4

\* Room is made for what is added.
LEMMA PutRoom ==
    ASSUME CacheInv, RoomInv, NEW x, NEW new, NEW used, Replaced(x, new, used),
           used.key \notin DOMAIN cache_map,
           Full => x = Victim, ~Full => x \notin DOMAIN item
    PROVE  RoomInv'
<1> DEFINE D == DOMAIN cache_map
<1>1. IsFiniteSet(D) /\ Cardinality(D) \in Nat /\ Cardinality(D) <= Capacity /\ Capacity \in Nat
  BY FS_CardinalityType, CapacityAssumption DEF RoomInv
<1>2. DOMAIN cache_map' = KeptKeys(x) \cup {used.key} /\ used.key \notin KeptKeys(x)
  BY ReplacedKeys DEF KeptKeys
<1>3. IsFiniteSet(KeptKeys(x)) /\ Cardinality(KeptKeys(x)) + 1 <= Capacity
  <2>1. CASE Full
    <3>1. x \in DOMAIN item
      BY <2>1, VictimIs
    <3>2. item[x].key \in D /\ KeptKeys(x) = D \ {item[x].key}
      BY <3>1 DEF CacheInv, KeptKeys
    <3> HIDE DEF D
    <3>3. IsFiniteSet(KeptKeys(x)) /\ Cardinality(KeptKeys(x)) = Cardinality(D) - 1
      BY <1>1, <3>2, FS_RemoveElement
    <3>4. QED
      BY <1>1, <3>3
  <2>2. CASE ~Full
    <3>1. KeptKeys(x) = D
      <4>1. \A k \in D : cache_map[k] \in DOMAIN item
        BY DEF CacheInv
      <4>2. QED
        BY <2>2, <4>1 DEF KeptKeys
    <3>2. ~(Cardinality(D) >= Capacity)
      BY <2>2 DEF Full
    <3> HIDE DEF D
    <3>3. QED
      BY <1>1, <3>1, <3>2
  <2>3. QED
    BY <2>1, <2>2
<1>4. /\ IsFiniteSet(KeptKeys(x) \cup {used.key})
      /\ Cardinality(KeptKeys(x) \cup {used.key}) = Cardinality(KeptKeys(x)) + 1
  BY <1>2, <1>3, FS_AddElement
<1>5. QED
  BY <1>2, <1>3, <1>4 DEF RoomInv

LEMMA InitInv == Init => Inv
<1> SUFFICES ASSUME Init PROVE Inv
  OBVIOUS
<1> USE DEF Init, CacheInit
<1>1. DOMAIN item = {} /\ DOMAIN cache_map = {}
  OBVIOUS
<1>2. \A s : s = <<>> => s \in Seq(Nodes) /\ s \in Seq(CacheKeys) /\ DOMAIN s = {}
  OBVIOUS
<1>3. \A s : s = <<>> => OneToOne(s) /\ ToSet(s) = {} /\ \A n, o : ~Before(s, n, o)
  BY <1>2 DEF OneToOne, ToSet, Before
<1>4. CacheInv
  BY <1>1, <1>2, <1>3 DEF CacheInv
<1>5. UseInv
  BY <1>1 DEF UseInv
<1>6. RecencyInv
  BY <1>1, <1>2, <1>3 DEF RecencyInv, InRecency
<1>7. RoomInv
  BY <1>1, FS_EmptySet, CapacityAssumption DEF RoomInv
<1>8. QED
  BY <1>4, <1>5, <1>6, <1>7 DEF Inv

LEMMA NextInv == Inv /\ [Next]_vars => Inv'
<1> SUFFICES ASSUME Inv, [Next]_vars PROVE Inv'
  OBVIOUS
<1>1. ASSUME NEW x, NEW new, NEW used, Replaced(x, new, used), Noted(used)
      PROVE  CacheInv' /\ UseInv' /\ RecencyInv'
  BY <1>1, ReplacedKeeps, NotedKeeps, RecencyStep DEF Inv
<1>2. ASSUME NEW key \in CacheKeys, Get(key) \/ \E block \in Blocks : Refresh(key, block)
      PROVE  Inv'
  <2>1. PICK x, new, used :
          /\ Replaced(x, new, used) /\ Noted(used)
          /\ KeptKeys(x) \cup {used.key} = DOMAIN cache_map
    BY <1>2, UseStep
  <2>2. DOMAIN cache_map' = DOMAIN cache_map
    BY <2>1, ReplacedKeys DEF Inv
  <2>3. RoomInv'
    BY <2>2 DEF Inv, RoomInv
  <2>4. QED
    BY <1>1, <2>1, <2>3 DEF Inv
<1>3. ASSUME NEW key \in CacheKeys, NEW block \in Blocks, Put(key, block)
      PROVE  Inv'
  <2>1. PICK x, new, used :
          /\ Replaced(x, new, used) /\ Noted(used)
          /\ used.key = key /\ key \notin DOMAIN cache_map
          /\ Full => x = Victim
          /\ ~Full => x \notin DOMAIN item
    BY <1>3, PutStep
  <2>2. RoomInv'
    BY <2>1, PutRoom DEF Inv
  <2>3. QED
    BY <1>1, <2>1, <2>2 DEF Inv
<1>4. CASE UNCHANGED vars
  BY <1>4 DEF vars, cacheVars, Inv, CacheInv, UseInv, RecencyInv, RoomInv
<1>5. QED
  BY <1>2, <1>3, <1>4 DEF Next

LEMMA InvHolds == Spec => []Inv
BY InitInv, NextInv, PTL DEF Spec

-----------------------------------------------------------------------------
(* The invariants of the run, and what is evicted *)

LEMMA InvTypes == Inv => TypeOK
<1> SUFFICES ASSUME Inv PROVE TypeOK
  OBVIOUS
<1>1. ASSUME NEW s \in Seq(Nodes), ToSet(s) \subseteq DOMAIN item PROVE s \in Seq(DOMAIN item)
  <2>1. Len(s) \in Nat /\ DOMAIN s = 1..Len(s) /\ s = [i \in 1..Len(s) |-> s[i]]
    OBVIOUS
  <2>2. \A i \in 1..Len(s) : s[i] \in DOMAIN item
    BY <1>1, <2>1 DEF ToSet
  <2>3. s \in [1..Len(s) -> DOMAIN item]
    BY <2>1, <2>2
  <2>4. QED
    BY <2>1, <2>3
<1>2. /\ cache_list_less_k \in Seq(Nodes) /\ ToSet(cache_list_less_k) \subseteq DOMAIN item
      /\ cache_list_greater_k \in Seq(Nodes) /\ ToSet(cache_list_greater_k) \subseteq DOMAIN item
  BY DEF Inv, CacheInv
<1>3. IsNodeList(cache_list_less_k) /\ IsNodeList(cache_list_greater_k)
  BY <1>1, <1>2 DEF IsNodeList
<1>4. QED
  BY <1>3 DEF Inv, CacheInv, TypeOK

\* Two lists without repetition and without a common node, one behind the other.
LEMMA BothParts ==
    ASSUME NEW S, NEW s \in Seq(S), NEW t \in Seq(S), OneToOne(s), OneToOne(t),
           ToSet(s) \cap ToSet(t) = {}
    PROVE  /\ s \o t \in Seq(S) /\ OneToOne(s \o t)
           /\ ToSet(s \o t) = ToSet(s) \cup ToSet(t)
           /\ ToSet(s) \in SUBSET S /\ ToSet(t) \in SUBSET S
<1> DEFINE w == s \o t
<1>1. /\ Len(s) \in Nat /\ Len(t) \in Nat /\ DOMAIN s = 1..Len(s) /\ DOMAIN t = 1..Len(t)
      /\ w \in Seq(S) /\ DOMAIN w = 1..(Len(s) + Len(t))
  OBVIOUS
<1>2. \A i \in 1..(Len(s) + Len(t)) : w[i] = IF i <= Len(s) THEN s[i] ELSE t[i - Len(s)]
  OBVIOUS
<1> HIDE DEF w
<1>3. \A i \in DOMAIN s : i \in DOMAIN w /\ i <= Len(s) /\ w[i] = s[i]
  BY <1>1, <1>2
<1>4. ASSUME NEW i \in DOMAIN t
      PROVE  i + Len(s) \in DOMAIN w /\ w[i + Len(s)] = t[i]
  <2>1. i + Len(s) \in 1..(Len(s) + Len(t)) /\ ~(i + Len(s) <= Len(s)) /\ (i + Len(s)) - Len(s) = i
    BY <1>1
  <2>2. QED
    BY <1>1, <1>2, <2>1
<1>5. ASSUME NEW i \in DOMAIN w
      PROVE  \/ i <= Len(s) /\ i \in DOMAIN s /\ w[i] = s[i]
             \/ ~(i <= Len(s)) /\ i - Len(s) \in DOMAIN t /\ w[i] = t[i - Len(s)]
  BY <1>1, <1>2
<1>6. ToSet(w) = ToSet(s) \cup ToSet(t)
  <2>1. ToSet(w) \subseteq ToSet(s) \cup ToSet(t)
    BY <1>5 DEF ToSet
  <2>2. ToSet(s) \subseteq ToSet(w)
    BY <1>3 DEF ToSet
  <2>3. ToSet(t) \subseteq ToSet(w)
    BY <1>4 DEF ToSet
  <2>4. QED
    BY <2>1, <2>2, <2>3
<1>7. ASSUME NEW i \in DOMAIN w, NEW j \in DOMAIN w, w[i] = w[j] PROVE i = j
  <2>1. i \in Int /\ j \in Int /\ Len(s) \in Int
    BY <1>1
  <2>2. \A p \in DOMAIN s, q \in DOMAIN t : s[p] # t[q]
    BY DEF ToSet
  <2>3. CASE i <= Len(s) /\ j <= Len(s)
    BY <1>5, <1>7, <2>3 DEF OneToOne
  <2>4. CASE ~(i <= Len(s)) /\ ~(j <= Len(s))
    <3>1. i - Len(s) = j - Len(s)
      BY <1>5, <1>7, <2>4 DEF OneToOne
    <3>2. QED
      BY <2>1, <3>1
  <2>5. CASE i <= Len(s) /\ ~(j <= Len(s))
    BY <1>5, <1>7, <2>2, <2>5
  <2>6. CASE ~(i <= Len(s)) /\ j <= Len(s)
    BY <1>5, <1>7, <2>2, <2>6
  <2>7. QED
    BY <2>3, <2>4, <2>5, <2>6
<1>8. ToSet(s) \in SUBSET S /\ ToSet(t) \in SUBSET S
  BY DEF ToSet
<1>9. QED
  BY <1>1, <1>6, <1>7, <1>8 DEF OneToOne, w

\* A list of the nodes of all items is as long as the map has keys.
LEMMA CountKeys ==
    ASSUME CacheInv, RoomInv, NEW both \in Seq(Nodes), OneToOne(both), ToSet(both) = DOMAIN item
    PROVE  Len(both) = Cardinality(DOMAIN cache_map)
<1> DEFINE f == [i \in 1..Len(both) |-> item[both[i]].key]
           D == DOMAIN cache_map
<1>1. Len(both) \in Nat /\ DOMAIN both = 1..Len(both)
  OBVIOUS
<1>2. ASSUME NEW i \in 1..Len(both)
      PROVE  both[i] \in DOMAIN item /\ item[both[i]].key \in D /\ cache_map[item[both[i]].key] = both[i]
  <2>1. both[i] \in DOMAIN item
    BY <1>1 DEF ToSet
  <2>2. QED
    BY <2>1 DEF CacheInv
<1>3. f \in [1..Len(both) -> D]
  BY <1>2
<1>4. ASSUME NEW i \in 1..Len(both), NEW j \in 1..Len(both), f[i] = f[j] PROVE i = j
  <2>1. both[i] = both[j]
    BY <1>2, <1>4
  <2>2. QED
    BY <1>1, <2>1 DEF OneToOne
<1>5. ASSUME NEW k \in D PROVE \E i \in 1..Len(both) : f[i] = k
  <2>1. cache_map[k] \in DOMAIN item /\ item[cache_map[k]].key = k
    BY DEF CacheInv
  <2>2. PICK i \in 1..Len(both) : both[i] = cache_map[k]
    BY <1>1, <2>1 DEF ToSet
  <2>3. f[i] = k
    BY <2>1, <2>2
  <2>4. QED
    BY <2>3
<1> HIDE DEF f, D
<1>6. f \in Bijection(1..Len(both), D)
  BY <1>3, <1>4, <1>5 DEF Bijection, Injection, Surjection, IsInjective
<1>7. ExistsBijection(1..Len(both), D)
  BY <1>6 DEF ExistsBijection
<1>8. QED
  BY <1>1, <1>7, FS_CountingElements DEF D

LEMMA InvBookkeeping == Inv => Bookkeeping
<1> SUFFICES ASSUME Inv PROVE Bookkeeping
  OBVIOUS
<1> DEFINE both == cache_list_less_k \o cache_list_greater_k
<1>1. /\ cache_list_less_k \in Seq(Nodes) /\ OneToOne(cache_list_less_k)
      /\ cache_list_greater_k \in Seq(Nodes) /\ OneToOne(cache_list_greater_k)
      /\ ToSet(cache_list_less_k) = {n \in DOMAIN item : item[n].access_count < K}
      /\ ToSet(cache_list_greater_k) = {n \in DOMAIN item : ~(item[n].access_count < K)}
  BY DEF Inv, CacheInv
<1>2. both \in Seq(Nodes) /\ OneToOne(both) /\ ToSet(both) = DOMAIN item
  <2>1. ToSet(cache_list_less_k) \cap ToSet(cache_list_greater_k) = {}
    BY <1>1
  <2>2. ToSet(cache_list_less_k) \cup ToSet(cache_list_greater_k) = DOMAIN item
    BY <1>1
  <2>3. /\ both \in Seq(Nodes) /\ OneToOne(both)
        /\ ToSet(both) = ToSet(cache_list_less_k) \cup ToSet(cache_list_greater_k)
    BY <1>1, <2>1, BothParts
  <2> HIDE DEF both
  <2>4. QED
    BY <2>2, <2>3
<1> HIDE DEF both
<1>3. Len(both) = Cardinality(DOMAIN cache_map)
  BY <1>2, CountKeys DEF Inv
<1>4. Len(both) <= Capacity
  BY <1>3 DEF Inv, RoomInv
<1>5. ASSUME NEW key \in DOMAIN cache_map
      PROVE  /\ \E i \in DOMAIN both : both[i] = cache_map[key] /\ item[both[i]].key = key
             /\ uses[key] = item[cache_map[key]].access_count
             /\ (uses[key] < K) <=>
                   \E i \in DOMAIN cache_list_less_k : cache_list_less_k[i] = cache_map[key]
  <2>1. /\ cache_map[key] \in DOMAIN item /\ item[cache_map[key]].key = key
        /\ uses[key] = item[cache_map[key]].access_count
    BY DEF Inv, CacheInv, UseInv
  <2>2. \E i \in DOMAIN both : both[i] = cache_map[key] /\ item[both[i]].key = key
    BY <1>2, <2>1 DEF ToSet
  <2>3. cache_map[key] \in ToSet(cache_list_less_k) <=> uses[key] < K
    BY <1>1, <2>1
  <2>4. QED
    BY <2>1, <2>2, <2>3 DEF ToSet
<1>6. QED
  BY <1>3, <1>4, <1>5 DEF Bookkeeping, both

LEMMA InvFresh == Inv => Fresh
BY DEF Inv, UseInv, Fresh

\* What is evicted is the victim.
LEMMA PutEvicts ==
    ASSUME Inv, NEW key \in CacheKeys, NEW block \in Blocks, Put(key, block),
           NEW lost \in DOMAIN cache_map \ DOMAIN cache_map',
           NEW kept \in DOMAIN cache_map \ {lost}
    PROVE  \/ uses[lost] < K /\ uses[kept] >= K
           \/ (uses[lost] < K <=> uses[kept] < K) /\ UsedBefore(lost, kept)
<1>1. PICK x, new, used :
        /\ Replaced(x, new, used) /\ Noted(used)
        /\ used.key = key /\ key \notin DOMAIN cache_map
        /\ Full => x = Victim
        /\ ~Full => x \notin DOMAIN item
  BY PutStep
<1>2. CacheInv /\ RoomInv
  BY DEF Inv
<1>3. cache_map[lost] = x
  <2>1. DOMAIN cache_map' = KeptKeys(x) \cup {used.key}
    BY <1>1, <1>2, ReplacedKeys
  <2>2. QED
    BY <2>1 DEF KeptKeys
<1> DEFINE n == cache_map[kept]
<1>4. /\ x \in DOMAIN item /\ item[x].key = lost
      /\ n \in DOMAIN item \ {x} /\ item[n].key = kept
  BY <1>2, <1>3 DEF CacheInv
<1>5. Full /\ x = Victim
  BY <1>1, <1>4
<1>6. /\ uses[lost] = item[x].access_count /\ uses[kept] = item[n].access_count
      /\ uses[lost] \in Nat /\ uses[kept] \in Nat
  <2>1. lost \in CacheKeys /\ kept \in CacheKeys
    BY <1>2 DEF CacheInv
  <2>2. QED
    BY <1>3, <2>1 DEF Inv, UseInv
<1> HIDE DEF n
<1>7. /\ Before(cache_list_less_k, n, x) => Before(recency, kept, lost)
      /\ Before(cache_list_greater_k, n, x) => Before(recency, kept, lost)
  BY <1>4 DEF Inv, RecencyInv, InRecency
<1>8. Before(recency, kept, lost) => UsedBefore(lost, kept)
  BY DEF Before, UsedBefore
<1>9. K \in Nat
  BY KAssumption
<1>10. /\ cache_list_less_k # <<>> =>
            /\ item[x].access_count < K
            /\ item[n].access_count < K => Before(cache_list_less_k, n, x)
       /\ cache_list_less_k = <<>> =>
            /\ ~(item[x].access_count < K) /\ ~(item[n].access_count < K)
            /\ Before(cache_list_greater_k, n, x)
  BY <1>2, <1>4, <1>5, VictimIs
<1>11. CASE cache_list_less_k # <<>>
  <2>1. CASE item[n].access_count < K
    BY <1>6, <1>7, <1>8, <1>10, <1>11, <2>1
  <2>2. CASE ~(item[n].access_count < K)
    BY <1>6, <1>9, <1>10, <1>11, <2>2
  <2>3. QED
    BY <2>1, <2>2
<1>12. CASE cache_list_less_k = <<>>
  BY <1>6, <1>7, <1>8, <1>10, <1>12
<1>13. QED
  BY <1>11, <1>12

LEMMA StepEvicts ==
    ASSUME Inv, [Next]_vars,
           NEW lost \in DOMAIN cache_map \ DOMAIN cache_map',
           NEW kept \in DOMAIN cache_map \ {lost}
    PROVE  \/ uses[lost] < K /\ uses[kept] >= K
           \/ (uses[lost] < K <=> uses[kept] < K) /\ UsedBefore(lost, kept)
<1>1. ASSUME NEW key \in CacheKeys, Get(key) \/ \E block \in Blocks : Refresh(key, block)
      PROVE  FALSE
  <2>1. PICK x, new, used :
          /\ Replaced(x, new, used) /\ Noted(used)
          /\ KeptKeys(x) \cup {used.key} = DOMAIN cache_map
    BY <1>1, UseStep
  <2>2. DOMAIN cache_map' = DOMAIN cache_map
    BY <2>1, ReplacedKeys DEF Inv
  <2>3. QED
    BY <2>2
<1>2. CASE UNCHANGED vars
  BY <1>2 DEF vars, cacheVars
<1>3. QED
  BY <1>1, <1>2, PutEvicts DEF Next

\* No iterator dangles: the lists and the map of the cache only lead to list nodes
\* that are in use (block_cache.cpp get, put, update_access_count).
THEOREM CacheTypes == Spec => []TypeOK
BY InvHolds, InvTypes, PTL

\* The cache never holds more than capacity_ items, and the map and the two lists
\* always agree: what put and update_access_count erase, move or copy is erased,
\* moved or copied in all of them.
THEOREM MapAndListsAgree == Spec => []Bookkeeping
BY InvHolds, InvBookkeeping, PTL

\* A hit returns the block that was last put under the key.
THEOREM HitsAreFresh == Spec => []Fresh
BY InvHolds, InvFresh, PTL

\* What put evicts is what LRU-K calls for, judged by the calls alone: the least
\* recently used of the keys used fewer than K times, and of all if there is none.
THEOREM EvictionIsLruK == Spec => EvictsLruK
<1>1. Inv /\ [Next]_vars =>
        [\A lost \in DOMAIN cache_map \ DOMAIN cache_map' :
           \A kept \in DOMAIN cache_map \ {lost} :
              \/ uses[lost] < K /\ uses[kept] >= K
              \/ (uses[lost] < K <=> uses[kept] < K) /\ UsedBefore(lost, kept)]_vars
  BY StepEvicts
<1>2. QED
  BY <1>1, InvHolds, PTL DEF Spec, EvictsLruK
=============================================================================
