-------------------------- MODULE SkipLinksProofs ---------------------------
(***************************************************************************)
(* Theorems about SkipLinks.tla: for every set of keys, values and ids and *)
(* every number of levels and nodes, the links are what they should be     *)
(* after any sequence of calls, so that each search, range and flush is    *)
(* exact and the list implements the table of SkipTable.                   *)
(***************************************************************************)
EXTENDS SkipLinks, FiniteSetTheorems, TLAPS

Common == INSTANCE CommonProofs

-----------------------------------------------------------------------------
(* The order of the nodes *)

Places == {head} \cup Address

LEMMA PlaceIs ==
    ASSUME NEW a \in Places
    PROVE  a = <<a[1], a[2]>> /\ a[1] \in Nat /\ a[2] \in Nat
<1>1. CASE a = head
  BY <1>1 DEF head
<1>2. CASE a \in Address
  <2>1. PICK k \in Keys, t \in Ids : a = <<k, t>>
    BY <1>2 DEF Address
  <2>2. k \in Nat /\ t \in Nat
    BY IdsAssumption, NoEmptyKey
  <2>3. QED
    BY <2>1, <2>2
<1>3. QED
  BY <1>1, <1>2 DEF Places

\* Before is a strict total order, with the head first.
LEMMA BeforeOrder ==
    /\ \A a \in Places : ~Before(a, a)
    /\ \A a, b \in Places : Before(a, b) => ~Before(b, a)
    /\ \A a, b, c \in Places : Before(a, b) /\ Before(b, c) => Before(a, c)
    /\ \A a, b \in Places : a = b \/ Before(a, b) \/ Before(b, a)
<1>1. \A a \in Places : a = <<a[1], a[2]>> /\ a[1] \in Nat /\ a[2] \in Nat
  BY PlaceIs
<1>2. \A a, b \in Places : a[1] = b[1] /\ a[2] = b[2] => a = b
  BY <1>1
<1>3. QED
  BY <1>1, <1>2 DEF Before, Key

LEMMA HeadFirst ==
    /\ head \in Places /\ head \notin Address
    /\ \A a \in Address : a \in Places /\ Before(head, a) /\ a # head
<1>1. ASSUME NEW a \in Address PROVE a[1] \in Nat /\ a[1] > 0
  <2>1. PICK k \in Keys, t \in Ids : a = <<k, t>>
    BY DEF Address
  <2>2. k \in Nat /\ k # 0
    BY NoEmptyKey
  <2>3. QED
    BY <2>1, <2>2
<1>2. head[1] = 0
  BY DEF head
<1>3. QED
  BY <1>1, <1>2 DEF Places, Before, Key

IsFirst(S, a) == a \in S /\ \A b \in S : a = b \/ Before(a, b)
IsFinal(S, a) == a \in S /\ \A b \in S : a = b \/ Before(b, a)

\* Of finitely many nodes one is the first and one the last.
LEMMA EndsExist ==
    ASSUME NEW S \in SUBSET Places, S # {}, IsFiniteSet(S)
    PROVE  (\E a \in S : IsFirst(S, a)) /\ (\E a \in S : IsFinal(S, a))
<1> DEFINE Ends(T) == (\E a \in T : IsFirst(T, a)) /\ (\E a \in T : IsFinal(T, a))
           Good == {n \in Nat : \A T \in SUBSET Places :
                                   IsFiniteSet(T) /\ Cardinality(T) = n /\ T # {} => Ends(T)}
<1>1. 0 \in Good
  <2> HIDE DEF Ends
  <2>1. QED
    BY FS_EmptySet
<1>2. ASSUME NEW n \in Nat, n \in Good PROVE n + 1 \in Good
  <2>1. SUFFICES ASSUME NEW T \in SUBSET Places, IsFiniteSet(T), Cardinality(T) = n + 1, T # {}
                 PROVE  Ends(T)
    <3> HIDE DEF Ends
    <3>1. QED
      OBVIOUS
  <2>2. PICK x \in T : TRUE
    BY <2>1
  <2> DEFINE U == T \ {x}
  <2>3. IsFiniteSet(U) /\ Cardinality(U) = n
    <3>1. IsFiniteSet(U) /\ Cardinality(U) = Cardinality(T) - 1
      BY <2>1, <2>2, FS_RemoveElement
    <3>2. QED
      BY <2>1, <3>1
  <2>4. CASE U = {}
    BY <2>2, <2>4 DEF IsFirst, IsFinal
  <2>5. CASE U # {}
    <3>1. Ends(U)
      <4> HIDE DEF Ends
      <4>1. QED
        BY <1>2, <2>1, <2>3, <2>5
    <3>2. PICK a \in U, b \in U : IsFirst(U, a) /\ IsFinal(U, b)
      BY <3>1
    <3>3. IsFirst(T, a) \/ IsFirst(T, x)
      BY <2>1, <2>2, <3>2, BeforeOrder DEF IsFirst
    <3>4. IsFinal(T, b) \/ IsFinal(T, x)
      BY <2>1, <2>2, <3>2, BeforeOrder DEF IsFinal
    <3>5. QED
      BY <2>2, <3>2, <3>3, <3>4
  <2>6. QED
    BY <2>4, <2>5
<1>3. Nat \subseteq Good
  <2> HIDE DEF Good
  <2>1. QED
    BY <1>1, <1>2, Common!InductionSet
<1>4. Ends(S)
  <2>1. Cardinality(S) \in Good
    BY <1>3, FS_CardinalityType
  <2> HIDE DEF Ends
  <2>2. QED
    BY <2>1
<1>5. QED
  BY <1>4

\* There is one of each, and it is the one that First and Final name.
LEMMA FirstIs ==
    ASSUME NEW S \in SUBSET Places, NEW a, IsFirst(S, a)
    PROVE  First(S) = a
<1>1. \A b : IsFirst(S, b) => b = a
  BY BeforeOrder DEF IsFirst
<1>2. First(S) \in S /\ \A b \in S : First(S) = b \/ Before(First(S), b)
  BY DEF IsFirst, First
<1>3. QED
  BY <1>1, <1>2 DEF IsFirst

LEMMA FinalIs ==
    ASSUME NEW S \in SUBSET Places, NEW a, IsFinal(S, a)
    PROVE  Final(S) = a
<1>1. \A b : IsFinal(S, b) => b = a
  BY BeforeOrder DEF IsFinal
<1>2. Final(S) \in S /\ \A b \in S : Final(S) = b \/ Before(b, Final(S))
  BY DEF IsFinal, Final
<1>3. QED
  BY <1>1, <1>2 DEF IsFinal

-----------------------------------------------------------------------------
(* The links *)

Link == {Null} \cup Places

\* A node of n levels.
NodeOK(d, n) ==
    /\ d = [value |-> d.value, forward |-> d.forward, backward |-> d.backward]
    /\ d.value \in Payload /\ n \in 1..MaxLevel
    /\ d.forward \in [1..n -> {Null} \cup Address] /\ d.backward \in [1..n -> Link]

Level(N, a) == Len(N[a].forward)

\* The nodes N with top levels in use.
Shape(N, top) ==
    /\ IsFiniteSet(DOMAIN N) /\ head \in DOMAIN N /\ DOMAIN N \subseteq Places
    /\ \A a \in DOMAIN N : NodeOK(N[a], Level(N, a)) /\ (a # head => Level(N, a) <= top)
    /\ Level(N, head) = MaxLevel /\ top \in 1..MaxLevel

On(N, i) == {a \in DOMAIN N : Level(N, a) >= i}

\* On the nodes S, b is next to a; Null is behind the last one.
Follows(S, a, b) ==
    IF b = Null THEN \A x \in S : ~Before(a, x)
    ELSE b \in S /\ Before(a, b) /\ \A x \in S : Before(a, x) => x = b \/ Before(b, x)

\* Each level is chained in order, both ways.
Chained(N) ==
    \A i \in 1..MaxLevel :
        /\ N[head].backward[i] = Null
        /\ \A a \in On(N, i) :
              LET b == N[a].forward[i]
              IN  Follows(On(N, i), a, b) /\ (b # Null => N[b].backward[i] = a)

\* The inductive invariant of the links.
ListInv == Shape(nodes, current_level) /\ Chained(nodes)

LEMMA NullIsNoPlace == Null \notin Places
BY NullAssumption DEF Places

LEMMA LinksSeq ==
    ASSUME NEW n \in Nat, NEW S, NEW f \in [1..n -> S]
    PROVE  f \in Seq(S) /\ Len(f) = n /\ DOMAIN f = 1..n
OBVIOUS

\* A node with other links of as many levels.
LEMMA Relinked ==
    ASSUME NEW d, NEW n, NodeOK(d, n), NEW f, NEW b,
           f \in [1..n -> {Null} \cup Address], b \in [1..n -> Link]
    PROVE  LET e == [value |-> d.value, forward |-> f, backward |-> b]
           IN  NodeOK(e, n) /\ Len(e.forward) = n
<1>1. Len(f) = n
  BY LinksSeq DEF NodeOK
<1>2. QED
  BY <1>1 DEF NodeOK

LEMMA LevelsOf ==
    ASSUME NEW N, NEW top, Shape(N, top)
    PROVE  /\ \A i \in 1..MaxLevel : On(N, i) \subseteq Places /\ head \in On(N, i)
           /\ \A i \in 1..MaxLevel : IsFiniteSet(On(N, i))
           /\ \A i \in 1..MaxLevel : i > top => On(N, i) = {head}
           /\ \A i \in 1..MaxLevel : \A a \in On(N, i) :
                 /\ i \in DOMAIN N[a].forward /\ i \in DOMAIN N[a].backward
                 /\ i \in 1..Level(N, a) /\ Level(N, a) \in 1..MaxLevel
                 /\ N[a].forward[i] \in {Null} \cup Address /\ N[a].backward[i] \in Link
           /\ \A a \in DOMAIN N : Level(N, a) \in 1..MaxLevel /\ a \in On(N, 1)
           /\ On(N, 1) = DOMAIN N
<1>1. \A a \in DOMAIN N : Level(N, a) \in 1..MaxLevel
  BY DEF Shape, NodeOK
<1>2. \A i \in 1..MaxLevel : On(N, i) \subseteq DOMAIN N /\ head \in On(N, i)
  BY LevelAssumption DEF Shape, On
<1>3. \A i \in 1..MaxLevel : IsFiniteSet(On(N, i))
  BY <1>2, FS_Subset DEF Shape
<1>4. \A i \in 1..MaxLevel : i > top => On(N, i) = {head}
  BY <1>1, <1>2 DEF Shape, On
<1>5. ASSUME NEW i \in 1..MaxLevel, NEW a \in On(N, i)
      PROVE  /\ i \in DOMAIN N[a].forward /\ i \in DOMAIN N[a].backward
             /\ i \in 1..Level(N, a) /\ Level(N, a) \in 1..MaxLevel
             /\ N[a].forward[i] \in {Null} \cup Address /\ N[a].backward[i] \in Link
  <2>1. a \in DOMAIN N /\ Level(N, a) \in 1..MaxLevel /\ i <= Level(N, a)
    BY <1>1 DEF On
  <2>2. i \in 1..Level(N, a)
    BY <2>1
  <2>3. NodeOK(N[a], Level(N, a))
    BY <2>1 DEF Shape
  <2>4. QED
    BY <2>1, <2>2, <2>3 DEF NodeOK
<1>6. On(N, 1) = DOMAIN N
  BY <1>1 DEF On
<1>7. QED
  BY <1>1, <1>2, <1>3, <1>4, <1>5, <1>6 DEF Shape

-----------------------------------------------------------------------------
(* The first state, and that after clear *)

HeadOnly == [a \in {head} |-> NewNode(Empty, MaxLevel)]

LEMMA HeadOnlyLinked ==
    ASSUME NEW top \in 1..MaxLevel
    PROVE  Shape(HeadOnly, top) /\ Chained(HeadOnly)
<1>1. NewNode(Empty, MaxLevel).forward = Unlinked(MaxLevel)
  BY DEF NewNode
<1>2. Unlinked(MaxLevel) \in [1..MaxLevel -> {Null}]
  BY DEF Unlinked
<1>3. Len(Unlinked(MaxLevel)) = MaxLevel
  BY <1>2, LinksSeq, LevelAssumption
<1>4. Empty \in Payload /\ MaxLevel \in 1..MaxLevel
  BY LevelAssumption DEF Payload
<1>5. NodeOK(NewNode(Empty, MaxLevel), MaxLevel)
  BY <1>2, <1>4 DEF NodeOK, NewNode, Link
<1>6. DOMAIN HeadOnly = {head} /\ HeadOnly[head] = NewNode(Empty, MaxLevel)
  BY DEF HeadOnly
<1>7. Level(HeadOnly, head) = MaxLevel
  BY <1>1, <1>3, <1>6 DEF Level
<1>8. Shape(HeadOnly, top)
  BY <1>5, <1>6, <1>7, FS_Singleton DEF Shape, Places
<1>9. \A i \in 1..MaxLevel : On(HeadOnly, i) = {head}
  BY <1>6, <1>7, LevelAssumption DEF On
<1>10. \A i \in 1..MaxLevel : HeadOnly[head].forward[i] = Null /\ HeadOnly[head].backward[i] = Null
  BY <1>6 DEF NewNode, Unlinked
<1>11. ~Before(head, head)
  BY BeforeOrder, HeadFirst
<1>12. QED
  BY <1>8, <1>9, <1>10, <1>11 DEF Chained, Follows

-----------------------------------------------------------------------------
(* One level: a node put in and a node taken out *)

\* f leads to the next node of S and b back.
Chain(S, f, b) ==
    \A a \in S : /\ f[a] \in {Null} \cup Places /\ Follows(S, a, f[a])
                 /\ f[a] # Null => b[f[a]] = a

\* Of the nodes before x, a is the last.
LastBefore(S, x, a) ==
    a \in S /\ Before(a, x) /\ \A y \in S : Before(y, x) => y = a \/ Before(y, a)

LEMMA SpliceIn ==
    ASSUME NEW S \in SUBSET Places, NEW x \in Places \ S, NEW p, LastBefore(S, x, p),
           NEW f, NEW b, NEW g, NEW c, Chain(S, f, b),
           \A a \in S : g[a] = IF a = p THEN x ELSE f[a],
           \A a \in S : c[a] = IF a = f[p] THEN x ELSE b[a],
           g[x] = f[p], c[x] = p
    PROVE  Chain(S \cup {x}, g, c)
<1> DEFINE T == S \cup {x}
<1>1. p \in S /\ Before(p, x) /\ x # p /\ x \in Places /\ x # Null /\ p # Null
  BY NullIsNoPlace DEF LastBefore
<1>2. \A a \in S : a # p /\ Before(a, x) => Before(a, p)
  BY DEF LastBefore
<1>3. \A a \in S : a \in Places /\ a # Null
  BY NullIsNoPlace
<1>4. Follows(T, x, g[x])
  <2>1. CASE f[p] = Null
    <3>1. \A y \in S : ~Before(p, y)
      BY <1>1, <2>1 DEF Chain, Follows
    <3>2. \A y \in S : ~Before(x, y)
      BY <1>1, <1>3, <3>1, BeforeOrder
    <3>3. QED
      BY <1>1, <2>1, <3>2, BeforeOrder DEF Follows
  <2>2. CASE f[p] # Null
    <3>1. f[p] \in S /\ Before(p, f[p]) /\ \A y \in S : Before(p, y) => y = f[p] \/ Before(f[p], y)
      BY <1>1, <2>2 DEF Chain, Follows
    <3>2. f[p] # x /\ f[p] # p /\ f[p] \in Places
      BY <1>1, <1>3, <3>1, BeforeOrder
    <3>3. ~Before(f[p], x)
      BY <1>1, <1>2, <1>3, <3>1, <3>2, BeforeOrder
    <3>4. Before(x, f[p])
      BY <1>1, <3>2, <3>3, BeforeOrder
    <3>5. \A y \in S : Before(x, y) => y = f[p] \/ Before(f[p], y)
      BY <1>1, <1>3, <3>1, BeforeOrder
    <3>6. QED
      BY <1>1, <2>2, <3>1, <3>4, <3>5, BeforeOrder DEF Follows
  <2>3. QED
    BY <2>1, <2>2
<1>5. Follows(T, p, g[p])
  <2>1. g[p] = x
    BY <1>1
  <2>2. \A y \in S : Before(p, y) => Before(x, y)
    BY <1>1, <1>2, <1>3, BeforeOrder
  <2>3. QED
    BY <1>1, <2>1, <2>2 DEF Follows
<1>6. ASSUME NEW a \in S, a # p PROVE Follows(T, a, g[a])
  <2>1. g[a] = f[a] /\ Follows(S, a, f[a])
    BY <1>6 DEF Chain
  <2>2. CASE Before(a, x)
    <3>1. Before(a, p)
      BY <1>2, <1>6, <2>2
    <3>2. f[a] # Null /\ f[a] \in S /\ Before(a, f[a]) /\ (p = f[a] \/ Before(f[a], p))
      BY <1>1, <2>1, <3>1 DEF Follows
    <3>3. Before(f[a], x)
      BY <1>1, <1>3, <3>2, BeforeOrder
    <3>4. QED
      BY <2>1, <3>2, <3>3 DEF Follows
  <2>3. CASE ~Before(a, x)
    BY <2>1, <2>3 DEF Follows
  <2>4. QED
    BY <2>2, <2>3
<1>7. g[x] # Null => c[g[x]] = x
  BY <1>1 DEF Chain, Follows
<1>8. c[g[p]] = p
  BY <1>1
<1>9. ASSUME NEW a \in S, a # p, g[a] # Null PROVE c[g[a]] = a
  <2>1. g[a] = f[a] /\ f[a] \in S /\ b[f[a]] = a
    BY <1>9 DEF Chain, Follows
  <2>2. f[a] # f[p]
    BY <1>1, <1>9, <2>1 DEF Chain
  <2>3. QED
    BY <2>1, <2>2
<1>10. \A a \in T : g[a] \in {Null} \cup Places
  BY <1>1 DEF Chain
<1>11. QED
  BY <1>1, <1>4, <1>5, <1>6, <1>7, <1>8, <1>9, <1>10 DEF Chain

LEMMA SpliceOut ==
    ASSUME NEW S \in SUBSET Places, NEW x \in S, NEW p \in S, Before(p, x),
           NEW f, NEW b, NEW g, NEW c, Chain(S, f, b), f[p] = x,
           \A a \in S \ {x} : g[a] = IF a = p THEN f[x] ELSE f[a],
           \A a \in S \ {x} : c[a] = IF a = f[x] THEN p ELSE b[a]
    PROVE  Chain(S \ {x}, g, c)
<1> DEFINE T == S \ {x}
<1>1. x # p /\ x # Null /\ p # Null /\ x \in Places /\ p \in Places
  BY BeforeOrder, NullIsNoPlace
<1>2. \A y \in S : Before(p, y) => y = x \/ Before(x, y)
  BY <1>1 DEF Chain, Follows
<1>3. f[x] # x
  BY <1>1, BeforeOrder DEF Chain, Follows
<1>4. Follows(T, p, g[p])
  <2>1. g[p] = f[x] /\ Follows(S, x, f[x])
    BY <1>1 DEF Chain
  <2>2. CASE f[x] = Null
    BY <1>2, <2>1, <2>2 DEF Follows
  <2>3. CASE f[x] # Null
    <3>1. f[x] \in T /\ f[x] \in Places /\ Before(x, f[x])
      BY <1>3, <2>1, <2>3 DEF Follows
    <3>2. Before(p, f[x])
      BY <1>1, <3>1, BeforeOrder
    <3>3. \A y \in T : Before(p, y) => y = f[x] \/ Before(f[x], y)
      BY <1>2, <2>1, <2>3 DEF Follows
    <3>4. QED
      BY <2>1, <2>3, <3>1, <3>2, <3>3 DEF Follows
  <2>4. QED
    BY <2>2, <2>3
<1>5. ASSUME NEW a \in T, a # p PROVE Follows(T, a, g[a]) /\ f[a] # x
  <2>1. g[a] = f[a] /\ Follows(S, a, f[a]) /\ a \in S
    BY <1>5 DEF Chain
  <2>2. f[a] # x
    BY <1>1, <1>5, <2>1 DEF Chain
  <2>3. QED
    BY <2>1, <2>2 DEF Follows
<1>6. g[p] # Null => c[g[p]] = p
  <2>1. g[p] = f[x]
    BY <1>1
  <2>2. f[x] # Null => f[x] \in T
    BY <1>3 DEF Chain, Follows
  <2>3. QED
    BY <2>1, <2>2
<1>7. ASSUME NEW a \in T, a # p, g[a] # Null PROVE c[g[a]] = a
  <2>1. g[a] = f[a] /\ f[a] \in S /\ b[f[a]] = a /\ f[a] # x
    BY <1>5, <1>7 DEF Chain, Follows
  <2>2. f[a] # f[x]
    BY <1>7, <2>1 DEF Chain
  <2>3. QED
    BY <2>1, <2>2
<1>8. \A a \in T : g[a] \in {Null} \cup Places
  BY <1>1 DEF Chain
<1>9. QED
  BY <1>4, <1>5, <1>6, <1>7, <1>8 DEF Chain

-----------------------------------------------------------------------------
(* All levels: put and remove *)

Fwd(N, i) == [a \in DOMAIN N |-> N[a].forward[i]]
Bwd(N, i) == [a \in DOMAIN N |-> N[a].backward[i]]

LEMMA ChainOfLevel ==
    ASSUME NEW N, NEW top, Shape(N, top), Chained(N), NEW i \in 1..MaxLevel
    PROVE  Chain(On(N, i), Fwd(N, i), Bwd(N, i))
<1> DEFINE S == On(N, i)
<1>1. \A a \in S : a \in DOMAIN N
  BY DEF On
<1>2. \A a \in S : N[a].forward[i] \in {Null} \cup Places
  BY LevelsOf DEF Places
<1>3. ASSUME NEW a \in S
      PROVE  /\ Follows(S, a, N[a].forward[i])
             /\ N[a].forward[i] # Null => N[N[a].forward[i]].backward[i] = a
  BY DEF Chained
<1>4. \A a \in S : N[a].forward[i] # Null => N[a].forward[i] \in S
  BY <1>3 DEF Follows
<1>5. QED
  BY <1>1, <1>2, <1>3, <1>4 DEF Chain, Fwd, Bwd

LEMMA LevelsChained ==
    ASSUME NEW N, \A i \in 1..MaxLevel : Chain(On(N, i), Fwd(N, i), Bwd(N, i)),
           \A i \in 1..MaxLevel : N[head].backward[i] = Null
    PROVE  Chained(N)
<1> SUFFICES ASSUME NEW i \in 1..MaxLevel, NEW a \in On(N, i)
             PROVE  /\ Follows(On(N, i), a, N[a].forward[i])
                    /\ N[a].forward[i] # Null => N[N[a].forward[i]].backward[i] = a
  BY DEF Chained
<1>1. \A x \in On(N, i) : x \in DOMAIN N
  BY DEF On
<1>2. Fwd(N, i)[a] = N[a].forward[i]
  BY <1>1 DEF Fwd
<1>3. N[a].forward[i] # Null => N[a].forward[i] \in DOMAIN N
  BY <1>1, <1>2 DEF Chain, Follows
<1>4. QED
  BY <1>2, <1>3 DEF Chain, Bwd

\* M is N with the node x of some levels, on each level behind the node L gives.
Inserted(N, M, x, value, level, L) ==
    /\ DOMAIN M = DOMAIN N \cup {x}
    /\ M[x] = [value |-> value, forward |-> [i \in 1..level |-> N[L[i]].forward[i]],
               backward |-> [i \in 1..level |-> L[i]]]
    /\ \A a \in DOMAIN N :
          M[a] = [value |-> N[a].value,
                  forward |-> [i \in 1..Level(N, a) |->
                                  IF i <= level /\ L[i] = a THEN x ELSE N[a].forward[i]],
                  backward |-> [i \in 1..Level(N, a) |->
                                  IF i <= level /\ N[L[i]].forward[i] = a THEN x
                                  ELSE N[a].backward[i]]]

LEMMA InsertedLinks ==
    ASSUME NEW N, NEW M, NEW x, NEW value, NEW level, NEW L,
           Inserted(N, M, x, value, level, L), NEW a \in DOMAIN N, NEW i \in 1..Level(N, a)
    PROVE  /\ M[a].forward[i] = IF i <= level /\ L[i] = a THEN x ELSE N[a].forward[i]
           /\ M[a].backward[i] = IF i <= level /\ N[L[i]].forward[i] = a THEN x
                                 ELSE N[a].backward[i]
<1> DEFINE f == [j \in 1..Level(N, a) |-> IF j <= level /\ L[j] = a THEN x ELSE N[a].forward[j]]
           b == [j \in 1..Level(N, a) |-> IF j <= level /\ N[L[j]].forward[j] = a THEN x
                                          ELSE N[a].backward[j]]
<1>1. M[a] = [value |-> N[a].value, forward |-> f, backward |-> b]
  BY DEF Inserted
<1>2. M[a].forward = f /\ M[a].backward = b
  <2> HIDE DEF f, b
  <2>1. QED
    BY <1>1
<1>3. QED
  BY <1>2

LEMMA InsertedShape ==
    ASSUME NEW N, NEW top, Shape(N, top), Chained(N), NEW M, NEW x \in Address \ DOMAIN N,
           NEW value \in Payload, NEW level \in 1..MaxLevel, NEW L,
           \A i \in 1..MaxLevel : LastBefore(On(N, i), x, L[i]),
           Inserted(N, M, x, value, level, L)
    PROVE  /\ Shape(M, IF level > top THEN level ELSE top)
           /\ \A a \in DOMAIN N : Level(M, a) = Level(N, a)
           /\ Level(M, x) = level
<1> DEFINE new == IF level > top THEN level ELSE top
<1>1. x \in Places /\ x # head /\ x \in {Null} \cup Address /\ x \in Link
  BY HeadFirst DEF Link
<1>2. level \in Nat /\ MaxLevel \in Nat /\ level \in 1..MaxLevel
  BY LevelAssumption
<1>3. ASSUME NEW i \in 1..level
      PROVE  N[L[i]].forward[i] \in {Null} \cup Address /\ L[i] \in Link
  <2>1. i \in 1..MaxLevel
    BY <1>2
  <2>2. L[i] \in On(N, i)
    BY <2>1 DEF LastBefore
  <2>3. QED
    BY <2>1, <2>2, LevelsOf DEF Link
<1>4. NodeOK(M[x], level) /\ Level(M, x) = level
  <2> DEFINE f == [i \in 1..level |-> N[L[i]].forward[i]]
             b == [i \in 1..level |-> L[i]]
  <2>1. f \in [1..level -> {Null} \cup Address] /\ b \in [1..level -> Link]
    BY <1>3
  <2>2. M[x] = [value |-> value, forward |-> f, backward |-> b]
    BY DEF Inserted
  <2> HIDE DEF f, b
  <2>3. Len(f) = level
    BY <1>2, <2>1, LinksSeq
  <2>4. QED
    BY <1>2, <2>1, <2>2, <2>3 DEF NodeOK, Level
<1>5. ASSUME NEW a \in DOMAIN N PROVE NodeOK(M[a], Level(N, a)) /\ Level(M, a) = Level(N, a)
  <2> DEFINE n == Level(N, a)
             f == [i \in 1..n |-> IF i <= level /\ L[i] = a THEN x ELSE N[a].forward[i]]
             b == [i \in 1..n |-> IF i <= level /\ N[L[i]].forward[i] = a THEN x
                                  ELSE N[a].backward[i]]
  <2>1. NodeOK(N[a], n)
    BY DEF Shape
  <2>2. f \in [1..n -> {Null} \cup Address] /\ b \in [1..n -> Link]
    BY <1>1, <2>1 DEF NodeOK
  <2>3. M[a] = [value |-> N[a].value, forward |-> f, backward |-> b]
    BY DEF Inserted
  <2> HIDE DEF f, b, n
  <2>4. NodeOK(M[a], n) /\ Len(M[a].forward) = n
    BY <2>1, <2>2, <2>3, Relinked
  <2>5. QED
    BY <2>4 DEF n, Level
<1>6. IsFiniteSet(DOMAIN M) /\ head \in DOMAIN M /\ DOMAIN M \subseteq Places
  BY <1>1, FS_AddElement DEF Shape, Inserted
<1>7. \A a \in DOMAIN N : a # head => Level(N, a) <= top /\ Level(N, a) \in Nat
  BY <1>2, LevelsOf DEF Shape
<1>8. new \in 1..MaxLevel /\ level <= new /\ top <= new /\ top \in Nat
  BY <1>2 DEF Shape
<1>9. \A a \in DOMAIN M : NodeOK(M[a], Level(M, a)) /\ (a # head => Level(M, a) <= new)
  <2> HIDE DEF new
  <2>1. \A a \in DOMAIN N : a # head => Level(M, a) <= new
    BY <1>2, <1>5, <1>7, <1>8
  <2>2. QED
    BY <1>4, <1>5, <1>8, <2>1 DEF Inserted
<1>10. Level(M, head) = MaxLevel
  BY <1>5 DEF Shape
<1>11. QED
  BY <1>4, <1>5, <1>6, <1>8, <1>9, <1>10 DEF Shape

LEMMA InsertedChained ==
    ASSUME NEW N, NEW top, Shape(N, top), Chained(N), NEW M, NEW x \in Address \ DOMAIN N,
           NEW value \in Payload, NEW level \in 1..MaxLevel, NEW L,
           \A i \in 1..MaxLevel : LastBefore(On(N, i), x, L[i]),
           Inserted(N, M, x, value, level, L)
    PROVE  Chained(M)
<1>1. /\ \A a \in DOMAIN N : Level(M, a) = Level(N, a)
      /\ Level(M, x) = level /\ DOMAIN M = DOMAIN N \cup {x}
  <2>1. DOMAIN M = DOMAIN N \cup {x}
    BY DEF Inserted
  <2>2. QED
    BY <2>1, InsertedShape
<1>2. ASSUME NEW i \in 1..MaxLevel PROVE Chain(On(M, i), Fwd(M, i), Bwd(M, i))
  <2> DEFINE S == On(N, i)
             p == L[i]
  <2>1. Chain(S, Fwd(N, i), Bwd(N, i)) /\ LastBefore(S, x, p)
    BY ChainOfLevel
  <2>2. S \in SUBSET Places /\ x \in Places \ S /\ p \in S /\ S \subseteq DOMAIN N
    BY <2>1, LevelsOf, HeadFirst DEF On, LastBefore
  <2>3. \A a \in S : i \in 1..Level(N, a)
    BY LevelsOf
  <2>4. \A a \in S : /\ Fwd(N, i)[a] = N[a].forward[i] /\ Bwd(N, i)[a] = N[a].backward[i]
                     /\ Fwd(M, i)[a] = M[a].forward[i] /\ Bwd(M, i)[a] = M[a].backward[i]
    BY <1>1, <2>2 DEF Fwd, Bwd
  <2>5. \A a \in S :
           /\ M[a].forward[i] = IF i <= level /\ p = a THEN x ELSE N[a].forward[i]
           /\ M[a].backward[i] = IF i <= level /\ N[p].forward[i] = a THEN x ELSE N[a].backward[i]
    BY <2>2, <2>3, InsertedLinks
  <2>6. CASE i <= level
    <3>1. On(M, i) = S \cup {x}
      BY <1>1, <2>6 DEF On
    <3>2. Fwd(M, i)[x] = Fwd(N, i)[p] /\ Bwd(M, i)[x] = p
      <4>1. i \in 1..level
        BY <2>6
      <4>2. M[x].forward[i] = N[p].forward[i] /\ M[x].backward[i] = p
        BY <4>1 DEF Inserted
      <4>3. QED
        BY <1>1, <2>2, <2>4, <4>2 DEF Fwd, Bwd
    <3>3. \A a \in S : /\ Fwd(M, i)[a] = IF a = p THEN x ELSE Fwd(N, i)[a]
                       /\ Bwd(M, i)[a] = IF a = Fwd(N, i)[p] THEN x ELSE Bwd(N, i)[a]
      BY <2>2, <2>4, <2>5, <2>6
    <3> HIDE DEF S, p
    <3>4. Chain(S \cup {x}, Fwd(M, i), Bwd(M, i))
      BY <2>1, <2>2, <3>2, <3>3, SpliceIn
    <3>5. QED
      BY <3>1, <3>4
  <2>7. CASE ~(i <= level)
    <3>1. On(M, i) = S
      <4>1. level \in Nat /\ i \in Nat
        OBVIOUS
      <4>2. QED
        BY <1>1, <2>7, <4>1 DEF On
    <3>2. \A a \in S : Fwd(M, i)[a] = Fwd(N, i)[a] /\ Bwd(M, i)[a] = Bwd(N, i)[a]
      BY <2>4, <2>5, <2>7
    <3> HIDE DEF S
    <3>3. \A a \in S : Fwd(N, i)[a] # Null => Fwd(N, i)[a] \in S
      BY <2>1 DEF Chain, Follows
    <3>4. QED
      BY <2>1, <3>1, <3>2, <3>3 DEF Chain
  <2>8. QED
    BY <2>6, <2>7
<1>3. ASSUME NEW i \in 1..MaxLevel PROVE M[head].backward[i] = Null
  <2>1. head \in On(N, i) /\ head \in DOMAIN N /\ i \in 1..Level(N, head)
    BY LevelsOf DEF Shape
  <2>2. N[head].backward[i] = Null
    BY DEF Chained
  <2>3. L[i] \in On(N, i) /\ N[L[i]].forward[i] # head
    <3>1. L[i] \in On(N, i)
      BY DEF LastBefore
    <3>2. N[L[i]].forward[i] \in {Null} \cup Address
      BY <3>1, LevelsOf
    <3>3. QED
      BY <3>1, <3>2, HeadFirst, NullIsNoPlace
  <2>4. M[head].backward[i] = IF i <= level /\ N[L[i]].forward[i] = head THEN x
                              ELSE N[head].backward[i]
    BY <2>1, InsertedLinks
  <2>5. QED
    BY <2>2, <2>3, <2>4
<1>4. QED
  BY <1>2, <1>3, LevelsChained

\* A node but the head has one before it on each of its levels, linked with it both ways.
LEMMA PrevExists ==
    ASSUME NEW S \in SUBSET Places, IsFiniteSet(S), head \in S, NEW f, NEW b, Chain(S, f, b),
           NEW a \in S, a # head
    PROVE  \E p \in S : LastBefore(S, a, p) /\ f[p] = a /\ b[a] = p
<1> DEFINE T == {y \in S : Before(y, a)}
<1>1. a \in Address /\ Before(head, a)
  BY HeadFirst DEF Places
<1>2. T \in SUBSET Places /\ T # {} /\ IsFiniteSet(T)
  BY <1>1, FS_Subset
<1>3. PICK p \in T : IsFinal(T, p)
  <2> HIDE DEF T
  <2>1. QED
    BY <1>2, EndsExist
<1>4. LastBefore(S, a, p)
  BY <1>3 DEF LastBefore, IsFinal
<1>5. f[p] # Null /\ f[p] \in S /\ Before(p, f[p]) /\ (a = f[p] \/ Before(f[p], a)) /\ b[f[p]] = p
  BY <1>4 DEF LastBefore, Chain, Follows
<1>6. f[p] = a
  BY <1>4, <1>5, BeforeOrder DEF LastBefore
<1>7. QED
  BY <1>4, <1>5, <1>6

\* M is N without x: what led to x leads to where x led.
TakenOut(N, M, x) ==
    /\ DOMAIN M = DOMAIN N \ {x}
    /\ \A a \in DOMAIN M :
          M[a] = [value |-> N[a].value,
                  forward |-> [i \in 1..Level(N, a) |->
                                  IF N[a].forward[i] = x THEN N[x].forward[i]
                                  ELSE N[a].forward[i]],
                  backward |-> [i \in 1..Level(N, a) |->
                                  IF N[a].backward[i] = x THEN N[x].backward[i]
                                  ELSE N[a].backward[i]]]

LEMMA TakenOutLinks ==
    ASSUME NEW N, NEW M, NEW x, TakenOut(N, M, x), NEW a \in DOMAIN M, NEW i \in 1..Level(N, a)
    PROVE  /\ M[a].forward[i] = IF N[a].forward[i] = x THEN N[x].forward[i] ELSE N[a].forward[i]
           /\ M[a].backward[i] = IF N[a].backward[i] = x THEN N[x].backward[i]
                                 ELSE N[a].backward[i]
<1> DEFINE f == [j \in 1..Level(N, a) |-> IF N[a].forward[j] = x THEN N[x].forward[j]
                                         ELSE N[a].forward[j]]
           b == [j \in 1..Level(N, a) |-> IF N[a].backward[j] = x THEN N[x].backward[j]
                                         ELSE N[a].backward[j]]
<1>1. M[a] = [value |-> N[a].value, forward |-> f, backward |-> b]
  BY DEF TakenOut
<1>2. M[a].forward = f /\ M[a].backward = b
  <2> HIDE DEF f, b
  <2>1. QED
    BY <1>1
<1>3. QED
  BY <1>2

\* On each level, in N: the one before a node leads to it, and what leads back to x is next to x.
LEMMA BackLinks ==
    ASSUME NEW N, NEW top, Shape(N, top), Chained(N), NEW i \in 1..MaxLevel,
           NEW a \in On(N, i), a # head
    PROVE  /\ N[a].backward[i] \in On(N, i) /\ N[a].backward[i] # Null
           /\ LastBefore(On(N, i), a, N[a].backward[i])
           /\ N[N[a].backward[i]].forward[i] = a
<1> DEFINE S == On(N, i)
<1>1. /\ Chain(S, Fwd(N, i), Bwd(N, i)) /\ S \in SUBSET Places /\ IsFiniteSet(S)
      /\ head \in S
  BY ChainOfLevel, LevelsOf
<1>2. PICK p \in S : LastBefore(S, a, p) /\ Fwd(N, i)[p] = a /\ Bwd(N, i)[a] = p
  <2> HIDE DEF S
  <2>1. a \in S
    BY DEF S
  <2>2. QED
    BY <1>1, <2>1, PrevExists
<1>3. Fwd(N, i)[p] = N[p].forward[i] /\ Bwd(N, i)[a] = N[a].backward[i]
  BY DEF Fwd, Bwd, On
<1>4. p # Null
  BY <1>1, NullIsNoPlace
<1>5. QED
  BY <1>2, <1>3, <1>4

LEMMA TakenOutShape ==
    ASSUME NEW N, NEW top, Shape(N, top), Chained(N), NEW M, NEW x \in DOMAIN N \ {head},
           TakenOut(N, M, x)
    PROVE  Shape(M, top) /\ \A a \in DOMAIN M : Level(M, a) = Level(N, a)
<1>1. ASSUME NEW a \in DOMAIN M PROVE NodeOK(M[a], Level(N, a)) /\ Level(M, a) = Level(N, a)
  <2> DEFINE n == Level(N, a)
             f == [i \in 1..n |-> IF N[a].forward[i] = x THEN N[x].forward[i]
                                  ELSE N[a].forward[i]]
             b == [i \in 1..n |-> IF N[a].backward[i] = x THEN N[x].backward[i]
                                  ELSE N[a].backward[i]]
  <2>1. NodeOK(N[a], n) /\ a \in DOMAIN N /\ a # x
    BY DEF Shape, TakenOut
  <2>2. ASSUME NEW i \in 1..n, N[a].forward[i] = x \/ N[a].backward[i] = x
        PROVE  N[x].forward[i] \in {Null} \cup Address /\ N[x].backward[i] \in Link
    <3>1. i \in 1..MaxLevel /\ n \in 1..MaxLevel
      BY <2>1, LevelAssumption DEF NodeOK
    <3>2. a \in On(N, i)
      BY <2>1, <3>1 DEF On
    <3>3. x # Null
      BY NullIsNoPlace DEF Shape
    <3>4. x \in On(N, i)
      <4>1. CASE N[a].forward[i] = x
        BY <3>1, <3>2, <3>3, <4>1 DEF Chained, Follows
      <4>2. CASE N[a].backward[i] = x
        <5>1. a # head
          BY <3>1, <3>3, <4>2 DEF Chained
        <5>2. QED
          BY <3>1, <3>2, <4>2, <5>1, BackLinks
      <4>3. QED
        BY <2>2, <4>1, <4>2
    <3>5. QED
      BY <3>1, <3>4, LevelsOf
  <2>3. f \in [1..n -> {Null} \cup Address] /\ b \in [1..n -> Link]
    BY <2>1, <2>2 DEF NodeOK
  <2>4. M[a] = [value |-> N[a].value, forward |-> f, backward |-> b]
    BY DEF TakenOut
  <2> HIDE DEF f, b, n
  <2>5. NodeOK(M[a], n) /\ Len(M[a].forward) = n
    BY <2>1, <2>3, <2>4, Relinked
  <2>6. QED
    BY <2>5 DEF n, Level
<1>2. IsFiniteSet(DOMAIN M) /\ head \in DOMAIN M /\ DOMAIN M \subseteq DOMAIN N
  BY FS_RemoveElement DEF Shape, TakenOut
<1>3. QED
  BY <1>1, <1>2 DEF Shape

LEMMA TakenOutChained ==
    ASSUME NEW N, NEW top, Shape(N, top), Chained(N), NEW M, NEW x \in DOMAIN N \ {head},
           TakenOut(N, M, x)
    PROVE  Chained(M)
<1>1. /\ \A a \in DOMAIN M : Level(M, a) = Level(N, a)
      /\ DOMAIN M = DOMAIN N \ {x} /\ x # head /\ x # Null /\ head \in DOMAIN M
  <2>1. DOMAIN M = DOMAIN N \ {x}
    BY DEF TakenOut
  <2>2. x # Null
    BY NullIsNoPlace DEF Shape
  <2>3. QED
    BY <2>1, <2>2, TakenOutShape DEF Shape
<1>2. ASSUME NEW i \in 1..MaxLevel PROVE Chain(On(M, i), Fwd(M, i), Bwd(M, i))
  <2> DEFINE S == On(N, i)
             T == S \ {x}
  <2>1. /\ Chain(S, Fwd(N, i), Bwd(N, i)) /\ S \in SUBSET Places /\ S \subseteq DOMAIN N
        /\ \A a \in S : i \in 1..Level(N, a)
    BY ChainOfLevel, LevelsOf DEF On
  <2>2. On(M, i) = T
    BY <1>1 DEF On
  <2>3. \A a \in S : Fwd(N, i)[a] = N[a].forward[i] /\ Bwd(N, i)[a] = N[a].backward[i]
    BY <2>1 DEF Fwd, Bwd
  <2>4. \A a \in T : Fwd(M, i)[a] = M[a].forward[i] /\ Bwd(M, i)[a] = M[a].backward[i]
    BY <1>1, <2>1 DEF Fwd, Bwd
  <2>5. \A a \in T :
           /\ M[a].forward[i] = IF N[a].forward[i] = x THEN N[x].forward[i] ELSE N[a].forward[i]
           /\ M[a].backward[i] = IF N[a].backward[i] = x THEN N[x].backward[i]
                                 ELSE N[a].backward[i]
    BY <1>1, <2>1, TakenOutLinks
  <2>6. \A a \in S : a # head => N[a].backward[i] \in S
                                 /\ N[N[a].backward[i]].forward[i] = a
    BY BackLinks
  <2>7. N[head].backward[i] = Null
    BY DEF Chained
  <2>8. CASE x \in S
    <3> DEFINE p == N[x].backward[i]
    <3>1. p \in S /\ LastBefore(S, x, p) /\ N[p].forward[i] = x
      BY <1>1, <2>8, BackLinks
    <3>2. \A a \in S : N[a].forward[i] = x => a = p
      BY <1>1, <2>1, <2>3, <3>1 DEF Chain
    <3>3. \A a \in S : N[a].backward[i] = x <=> (a = N[x].forward[i] /\ a # Null)
      <4>1. \A a \in S : N[a].backward[i] = x => a = N[x].forward[i]
        BY <1>1, <2>6, <2>7
      <4>2. N[x].forward[i] # Null => N[N[x].forward[i]].backward[i] = x
        BY <2>8 DEF Chained
      <4>3. \A a \in S : a # Null
        BY <2>1, NullIsNoPlace
      <4>4. QED
        BY <4>1, <4>2, <4>3
    <3>4. \A a \in S : a # Null
      BY <2>1, NullIsNoPlace
    <3>5. \A a \in T : /\ Fwd(M, i)[a] = IF a = p THEN Fwd(N, i)[x] ELSE Fwd(N, i)[a]
                       /\ Bwd(M, i)[a] = IF a = Fwd(N, i)[x] THEN p ELSE Bwd(N, i)[a]
      BY <2>3, <2>4, <2>5, <2>8, <3>1, <3>2, <3>3, <3>4
    <3>6. Before(p, x) /\ Fwd(N, i)[p] = x
      BY <2>3, <3>1 DEF LastBefore
    <3> HIDE DEF S, p
    <3>7. Chain(S \ {x}, Fwd(M, i), Bwd(M, i))
      BY <2>1, <2>8, <3>1, <3>5, <3>6, SpliceOut
    <3>8. QED
      BY <2>2, <3>7
  <2>9. CASE x \notin S
    <3>1. T = S
      BY <2>9
    <3>2. \A a \in S : N[a].forward[i] # x
      BY <1>1, <2>1, <2>3, <2>9 DEF Chain, Follows
    <3>3. \A a \in S : N[a].backward[i] # x
      BY <1>1, <2>6, <2>7, <2>9
    <3>4. \A a \in S : Fwd(M, i)[a] = Fwd(N, i)[a] /\ Bwd(M, i)[a] = Bwd(N, i)[a]
      BY <2>3, <2>4, <2>5, <3>1, <3>2, <3>3
    <3> HIDE DEF S
    <3>5. \A a \in S : Fwd(N, i)[a] # Null => Fwd(N, i)[a] \in S
      BY <2>1 DEF Chain, Follows
    <3>6. QED
      BY <2>1, <2>2, <3>1, <3>4, <3>5 DEF Chain
  <2>10. QED
    BY <2>8, <2>9
<1>3. ASSUME NEW i \in 1..MaxLevel PROVE M[head].backward[i] = Null
  <2>1. i \in 1..Level(N, head)
    BY DEF Shape
  <2>2. N[head].backward[i] = Null
    BY DEF Chained
  <2>3. QED
    BY <1>1, <2>1, <2>2, TakenOutLinks
<1>4. QED
  BY <1>2, <1>3, LevelsChained

-----------------------------------------------------------------------------
(* Walks on one level *)

\* g is the walk by f while it leads into S.
IsWalk(g, D, f, S) == g = [a \in D |-> IF f[a] \in S THEN g[f[a]] ELSE a]

\* A walk that leaves every set of nodes at some node of it is given by its equation.
LEMMA WalkUnique ==
    ASSUME NEW D, NEW f, NEW S, \A a \in D : f[a] \in S => f[a] \in D,
           \A C \in SUBSET D : C # {} => \E c \in C : f[c] \notin C,
           NEW g, NEW h, IsWalk(g, D, f, S), IsWalk(h, D, f, S)
    PROVE  g = h
<1> DEFINE C == {a \in D : g[a] # h[a]}
<1>1. \A a \in D : /\ g[a] = IF f[a] \in S THEN g[f[a]] ELSE a
                   /\ h[a] = IF f[a] \in S THEN h[f[a]] ELSE a
  BY DEF IsWalk
<1>2. C = {}
  <2>1. SUFFICES ASSUME C # {} PROVE FALSE
    OBVIOUS
  <2>2. PICK c \in C : f[c] \notin C
    BY <2>1
  <2>3. QED
    BY <1>1, <2>2
<1>3. \A a \in D : g[a] = h[a]
  BY <1>2
<1>4. g = [a \in D |-> g[a]] /\ h = [a \in D |-> h[a]]
  BY DEF IsWalk
<1>5. QED
  BY <1>3, <1>4

\* From a the walk forward ends at z: the nodes up to it are in S, the next is not.
EndsAt(D, f, S, a, z) ==
    /\ z \in D /\ (z = a \/ (Before(a, z) /\ z \in S)) /\ f[z] \notin S
    /\ \A y \in D : Before(a, y) /\ (y = z \/ Before(y, z)) => y \in S

\* The same backward.
EndsBackAt(D, b, S, a, z) ==
    /\ z \in D /\ (z = a \/ (Before(z, a) /\ z \in S)) /\ b[z] \notin S
    /\ \A y \in D : Before(y, a) /\ (y = z \/ Before(z, y)) => y \in S

LEMMA WalkEnds ==
    ASSUME NEW D \in SUBSET Places, IsFiniteSet(D), head \in D, NEW f, NEW b, Chain(D, f, b),
           NEW S, Null \notin S
    PROVE  /\ \E g : IsWalk(g, D, f, S)
           /\ \A g : IsWalk(g, D, f, S) => \A a \in D : EndsAt(D, f, S, a, g[a])
<1> DEFINE Stops(a) == {y \in D : (y = a \/ Before(a, y)) /\ f[y] \notin S}
           E == [a \in D |-> First(Stops(a))]
<1>1. \A a \in D : f[a] \in S => f[a] \in D /\ Before(a, f[a])
  BY DEF Chain, Follows
<1>2. \A C \in SUBSET D : C # {} => \E c \in C : f[c] \notin C
  <2> SUFFICES ASSUME NEW C \in SUBSET D, C # {} PROVE \E c \in C : f[c] \notin C
    OBVIOUS
  <2>1. IsFiniteSet(C) /\ C \in SUBSET Places
    BY FS_Subset
  <2>2. PICK c \in C : IsFinal(C, c)
    BY <2>1, EndsExist
  <2>3. f[c] = Null \/ Before(c, f[c])
    BY DEF Chain, Follows
  <2>4. QED
    BY <2>1, <2>2, <2>3, BeforeOrder, NullIsNoPlace DEF IsFinal
<1>3. ASSUME NEW a \in D PROVE IsFirst(Stops(a), E[a])
  <2>1. PICK l \in D : IsFinal(D, l)
    BY EndsExist
  <2>2. f[l] = Null
    BY <2>1, BeforeOrder DEF Chain, Follows, IsFinal
  <2>3. l \in Stops(a)
    BY <2>1, <2>2, BeforeOrder DEF IsFinal
  <2>4. Stops(a) \in SUBSET Places /\ Stops(a) # {} /\ IsFiniteSet(Stops(a))
    BY <2>3, FS_Subset
  <2>5. E[a] = First(Stops(a))
    OBVIOUS
  <2> HIDE DEF Stops, E
  <2>6. QED
    BY <2>4, <2>5, EndsExist, FirstIs
<1>4. ASSUME NEW a \in D PROVE E[a] = IF f[a] \in S THEN E[f[a]] ELSE a
  <2>1. CASE f[a] \in S
    <3>1. f[a] \in D /\ Before(a, f[a]) /\ f[a] # Null
      BY <1>1, <2>1
    <3>2. \A y \in D : Before(a, y) <=> (y = f[a] \/ Before(f[a], y))
      BY <3>1, BeforeOrder DEF Chain, Follows
    <3>3. Stops(a) = Stops(f[a])
      BY <2>1, <3>2
    <3>4. E[a] = First(Stops(a)) /\ E[f[a]] = First(Stops(f[a]))
      BY <3>1
    <3> HIDE DEF E, Stops
    <3>5. QED
      BY <2>1, <3>3, <3>4
  <2>2. CASE f[a] \notin S
    <3>1. IsFirst(Stops(a), a)
      BY <2>2 DEF IsFirst
    <3>2. Stops(a) \in SUBSET Places /\ E[a] = First(Stops(a))
      OBVIOUS
    <3> HIDE DEF E, Stops
    <3>3. QED
      BY <2>2, <3>1, <3>2, FirstIs
  <2>3. QED
    BY <2>1, <2>2
<1>5. IsWalk(E, D, f, S)
  <2>1. E = [a \in D |-> E[a]]
    OBVIOUS
  <2> HIDE DEF E
  <2>2. QED
    BY <1>4, <2>1 DEF IsWalk
<1>6. ASSUME NEW a \in D PROVE EndsAt(D, f, S, a, E[a])
  <2> DEFINE z == E[a]
  <2>1. z \in D /\ (z = a \/ Before(a, z)) /\ f[z] \notin S
    BY <1>3 DEF IsFirst
  <2>2. \A y \in D : (y = a \/ Before(a, y)) /\ Before(y, z) => f[y] \in S
    BY <1>3, <2>1, BeforeOrder DEF IsFirst
  <2> HIDE DEF E, z
  <2>3. ASSUME NEW y \in D, Before(a, y), y = z \/ Before(y, z) PROVE y \in S
    <3>1. y # head
      BY <2>3, HeadFirst, BeforeOrder DEF Places
    <3>2. PICK p \in D : LastBefore(D, y, p) /\ f[p] = y
      BY <3>1, PrevExists
    <3>3. (p = a \/ Before(a, p)) /\ Before(p, z)
      BY <2>1, <2>3, <3>2, BeforeOrder DEF LastBefore
    <3>4. QED
      BY <2>2, <3>2, <3>3
  <2>4. QED
    BY <2>1, <2>3 DEF EndsAt, z
<1> HIDE DEF E, Stops
<1>7. \A g : IsWalk(g, D, f, S) => g = E
  BY <1>1, <1>2, <1>5, WalkUnique
<1>8. QED
  BY <1>5, <1>6, <1>7

LEMMA WalkBackEnds ==
    ASSUME NEW D \in SUBSET Places, IsFiniteSet(D), head \in D, NEW b,
           NEW S, Null \notin S, b[head] = Null,
           \A a \in D : a # head => LastBefore(D, a, b[a])
    PROVE  /\ \E g : IsWalk(g, D, b, S)
           /\ \A g : IsWalk(g, D, b, S) => \A a \in D : EndsBackAt(D, b, S, a, g[a])
<1> DEFINE Stops(a) == {y \in D : (y = a \/ Before(y, a)) /\ b[y] \notin S}
           E == [a \in D |-> Final(Stops(a))]
<1>1. \A a \in D : b[a] \in S => a # head /\ b[a] \in D /\ Before(b[a], a)
  BY DEF LastBefore
<1>2. \A C \in SUBSET D : C # {} => \E c \in C : b[c] \notin C
  <2> SUFFICES ASSUME NEW C \in SUBSET D, C # {} PROVE \E c \in C : b[c] \notin C
    OBVIOUS
  <2>1. IsFiniteSet(C) /\ C \in SUBSET Places
    BY FS_Subset
  <2>2. PICK c \in C : IsFirst(C, c)
    BY <2>1, EndsExist
  <2>3. b[c] = Null \/ Before(b[c], c)
    BY DEF LastBefore
  <2>4. QED
    BY <2>1, <2>2, <2>3, BeforeOrder, NullIsNoPlace DEF IsFirst
<1>3. ASSUME NEW a \in D PROVE IsFinal(Stops(a), E[a])
  <2>1. head = a \/ Before(head, a)
    BY HeadFirst DEF Places
  <2>2. head \in Stops(a)
    BY <2>1
  <2>3. Stops(a) \in SUBSET Places /\ Stops(a) # {} /\ IsFiniteSet(Stops(a))
    BY <2>2, FS_Subset
  <2>4. E[a] = Final(Stops(a))
    OBVIOUS
  <2> HIDE DEF Stops, E
  <2>5. QED
    BY <2>3, <2>4, EndsExist, FinalIs
<1>4. ASSUME NEW a \in D PROVE E[a] = IF b[a] \in S THEN E[b[a]] ELSE a
  <2>1. CASE b[a] \in S
    <3>1. LastBefore(D, a, b[a])
      BY <1>1, <2>1
    <3>2. \A y \in D : Before(y, a) <=> (y = b[a] \/ Before(y, b[a]))
      BY <3>1, BeforeOrder DEF LastBefore
    <3>3. Stops(a) = Stops(b[a])
      BY <2>1, <3>2
    <3>4. E[a] = Final(Stops(a)) /\ E[b[a]] = Final(Stops(b[a]))
      BY <3>1 DEF LastBefore
    <3> HIDE DEF E, Stops
    <3>5. QED
      BY <2>1, <3>3, <3>4
  <2>2. CASE b[a] \notin S
    <3>1. IsFinal(Stops(a), a)
      BY <2>2 DEF IsFinal
    <3>2. Stops(a) \in SUBSET Places /\ E[a] = Final(Stops(a))
      OBVIOUS
    <3> HIDE DEF E, Stops
    <3>3. QED
      BY <2>2, <3>1, <3>2, FinalIs
  <2>3. QED
    BY <2>1, <2>2
<1>5. IsWalk(E, D, b, S)
  <2>1. E = [a \in D |-> E[a]]
    OBVIOUS
  <2> HIDE DEF E
  <2>2. QED
    BY <1>4, <2>1 DEF IsWalk
<1>6. ASSUME NEW a \in D PROVE EndsBackAt(D, b, S, a, E[a])
  <2> DEFINE z == E[a]
  <2>1. z \in D /\ (z = a \/ Before(z, a)) /\ b[z] \notin S
    BY <1>3 DEF IsFinal
  <2>2. \A y \in D : (y = a \/ Before(y, a)) /\ Before(z, y) => b[y] \in S
    BY <1>3, <2>1, BeforeOrder DEF IsFinal
  <2> HIDE DEF E, z
  <2>3. ASSUME NEW y \in D, Before(y, a), y = z \/ Before(z, y) PROVE y \in S
    \* the node next to y is not behind a, and the step back from it is a step to y
    <3> DEFINE T == {x \in D : Before(y, x)}
    <3>1. T \in SUBSET Places /\ T # {} /\ IsFiniteSet(T)
      BY <2>3, FS_Subset
    <3>2. PICK x \in T : IsFirst(T, x)
      <4> HIDE DEF T
      <4>1. QED
        BY <3>1, EndsExist
    <3>3. x \in D /\ Before(y, x) /\ x # head
      BY <2>3, HeadFirst, BeforeOrder DEF Places
    <3>4. LastBefore(D, x, b[x])
      BY <3>3
    <3>5. b[x] = y
      BY <3>2, <3>3, <3>4, BeforeOrder DEF LastBefore, IsFirst
    <3>6. (x = a \/ Before(x, a)) /\ Before(z, x)
      BY <2>1, <2>3, <3>2, <3>3, BeforeOrder DEF IsFirst
    <3>7. QED
      BY <2>2, <3>3, <3>5, <3>6
  <2>4. QED
    BY <2>1, <2>3 DEF EndsBackAt, z
<1> HIDE DEF E, Stops
<1>7. \A g : IsWalk(g, D, b, S) => g = E
  BY <1>1, <1>2, <1>5, WalkUnique
<1>8. QED
  BY <1>5, <1>6, <1>7

-----------------------------------------------------------------------------
(* The walks of the list *)

LEMMA Reaches ==
    /\ \A i : Reaching(i) = On(nodes, i)
    /\ \A a : LevelOf(a) = Level(nodes, a)
BY DEF Reaching, On, LevelOf, Level

\* What ListInv says of a level.
LEMMA LevelFacts ==
    ASSUME ListInv, NEW i \in 1..MaxLevel
    PROVE  LET D == Reaching(i)
               f == [a \in D |-> Forward(a, i)]
               b == [a \in D |-> Backward(a, i)]
           IN  /\ D \in SUBSET Places /\ IsFiniteSet(D) /\ head \in D /\ Chain(D, f, b)
               /\ b[head] = Null
               /\ \A a \in D : a # head => LastBefore(D, a, b[a])
<1> DEFINE D == Reaching(i)
           f == [a \in D |-> Forward(a, i)]
           b == [a \in D |-> Backward(a, i)]
<1>1. /\ D \in SUBSET Places /\ IsFiniteSet(D) /\ head \in D
      /\ Chain(D, Fwd(nodes, i), Bwd(nodes, i))
  BY Reaches, LevelsOf, ChainOfLevel DEF ListInv
<1>2. \A a \in D : a \in DOMAIN nodes
  BY DEF Reaching
<1>3. \A a \in D : f[a] = Fwd(nodes, i)[a]
  BY <1>2 DEF Fwd, Forward
<1>4. Null \notin DOMAIN nodes
  BY NullIsNoPlace DEF ListInv, Shape
<1>5. b[head] = Null
  BY <1>1, <1>4 DEF Backward, ListInv, Chained
<1>6. ASSUME NEW a \in D, a # head
      PROVE  b[a] = nodes[a].backward[i] /\ LastBefore(D, a, b[a])
  <2>1. nodes[a].backward[i] \in D /\ LastBefore(D, a, nodes[a].backward[i])
    BY <1>6, Reaches, BackLinks DEF ListInv
  <2>2. QED
    BY <1>2, <2>1 DEF Backward
<1>7. \A a \in D : f[a] # Null => f[a] \in D /\ f[a] # head
  BY <1>1, <1>3, HeadFirst, BeforeOrder DEF Chain, Follows, Places
<1>8. Chain(D, f, b)
  <2>1. \A a \in D : b[a] = Bwd(nodes, i)[a] \/ a = head
    BY <1>2, <1>6 DEF Bwd
  <2> HIDE DEF D, f, b
  <2>2. QED
    BY <1>1, <1>3, <1>7, <2>1 DEF Chain
<1>9. QED
  BY <1>1, <1>5, <1>6, <1>8

LEMMA AlongEnds ==
    ASSUME ListInv, NEW i \in 1..MaxLevel, NEW S, Null \notin S, NEW a \in Reaching(i)
    PROVE  EndsAt(Reaching(i), [x \in Reaching(i) |-> Forward(x, i)], S, a, Along(i, S)[a])
<1> DEFINE D == Reaching(i)
           f == [x \in D |-> Forward(x, i)]
           b == [x \in D |-> Backward(x, i)]
<1>1. D \in SUBSET Places /\ IsFiniteSet(D) /\ head \in D /\ Chain(D, f, b)
  BY LevelFacts
<1>2. \A g : IsWalk(g, D, f, S) <=>
                g = [x \in D |-> IF Forward(x, i) \in S THEN g[Forward(x, i)] ELSE x]
  BY DEF IsWalk
<1>3. Along(i, S) = CHOOSE g : g = [x \in D |-> IF Forward(x, i) \in S THEN g[Forward(x, i)] ELSE x]
  BY DEF Along
<1> HIDE DEF D, f, b
<1>4. (\E g : IsWalk(g, D, f, S)) /\ \A g : IsWalk(g, D, f, S) => EndsAt(D, f, S, a, g[a])
  <2>1. a \in D
    BY DEF D
  <2>2. QED
    BY <1>1, <2>1, WalkEnds
<1>5. IsWalk(Along(i, S), D, f, S)
  BY <1>2, <1>3, <1>4
<1>6. EndsAt(D, f, S, a, Along(i, S)[a])
  BY <1>4, <1>5
<1>7. QED
  BY <1>6 DEF D, f

LEMMA BackEnds ==
    ASSUME ListInv, NEW i \in 1..MaxLevel, NEW S, Null \notin S, NEW a \in Reaching(i)
    PROVE  EndsBackAt(Reaching(i), [x \in Reaching(i) |-> Backward(x, i)], S, a, Back(i, S)[a])
<1> DEFINE D == Reaching(i)
           b == [x \in D |-> Backward(x, i)]
<1>1. /\ D \in SUBSET Places /\ IsFiniteSet(D) /\ head \in D /\ b[head] = Null
      /\ \A x \in D : x # head => LastBefore(D, x, b[x])
  BY LevelFacts
<1>2. \A g : IsWalk(g, D, b, S) <=>
                g = [x \in D |-> IF Backward(x, i) \in S THEN g[Backward(x, i)] ELSE x]
  BY DEF IsWalk
<1>3. Back(i, S) = CHOOSE g : g = [x \in D |-> IF Backward(x, i) \in S THEN g[Backward(x, i)] ELSE x]
  BY DEF Back
<1> HIDE DEF D, b
<1>4. (\E g : IsWalk(g, D, b, S)) /\ \A g : IsWalk(g, D, b, S) => EndsBackAt(D, b, S, a, g[a])
  <2>1. a \in D
    BY DEF D
  <2>2. QED
    BY <1>1, <2>1, WalkBackEnds
<1>5. IsWalk(Back(i, S), D, b, S)
  BY <1>2, <1>3, <1>4
<1>6. EndsBackAt(D, b, S, a, Back(i, S)[a])
  BY <1>4, <1>5
<1>7. QED
  BY <1>6 DEF D, b

-----------------------------------------------------------------------------
(* Searches: walks from level to level *)

\* g is where the walks w end, each beginning where the one above ended.
IsSearch(g, w, a, top) == g = [i \in 1..top |-> w[i][IF i = top THEN a ELSE g[i + 1]]]

LEMMA SearchUnique ==
    ASSUME NEW top \in Nat, NEW w, NEW a, NEW g, NEW h,
           IsSearch(g, w, a, top), IsSearch(h, w, a, top)
    PROVE  g = h
<1> DEFINE C == {i \in 1..top : g[i] # h[i]}
<1>1. \A i \in 1..top : /\ g[i] = w[i][IF i = top THEN a ELSE g[i + 1]]
                        /\ h[i] = w[i][IF i = top THEN a ELSE h[i + 1]]
  BY DEF IsSearch
<1>2. C = {}
  <2>1. SUFFICES ASSUME C # {} PROVE FALSE
    OBVIOUS
  <2>2. C \in SUBSET Nat /\ \A i \in C : i <= top
    OBVIOUS
  <2>3. PICK c \in C : \A i \in C : i <= c
    <3> HIDE DEF C
    <3>1. QED
      BY <2>1, <2>2, Common!GreatestNat
  <2>4. c # top
    BY <1>1
  <2>5. c + 1 \in 1..top /\ c + 1 \notin C
    BY <2>3, <2>4
  <2>6. g[c + 1] = h[c + 1]
    BY <2>5
  <2>7. QED
    BY <1>1, <2>6
<1>3. \A i \in 1..top : g[i] = h[i]
  BY <1>2
<1>4. g = [i \in 1..top |-> g[i]] /\ h = [i \in 1..top |-> h[i]]
  BY DEF IsSearch
<1>5. QED
  BY <1>3, <1>4

\* On level i: a and the nodes of S behind it; those before it.
From(i, a, S) == {y \in Reaching(i) : y = a \/ (Before(a, y) /\ y \in S)}
Until(i, a, S) == {y \in Reaching(i) : y = a \/ (Before(y, a) /\ y \in S)}

\* S has no gap between a and its nodes behind a, or before it.
NoGap(a, S) == \A x, y \in DOMAIN nodes : Before(a, x) /\ Before(x, y) /\ y \in S => x \in S
NoGapBack(a, S) == \A x, y \in DOMAIN nodes : Before(x, a) /\ Before(y, x) /\ y \in S => x \in S

LEMMA LevelsNest ==
    ASSUME NEW i \in Nat, NEW j \in Nat, i <= j, ListInv
    PROVE  Reaching(j) \subseteq Reaching(i)
<1>1. \A a \in DOMAIN nodes : LevelOf(a) \in Nat
  BY Reaches, LevelsOf, LevelAssumption DEF ListInv
<1>2. QED
  BY <1>1 DEF Reaching

\* A search ends, on each level, at the last node that is in S ...
LEMMA DescentEnds ==
    ASSUME ListInv, NEW top \in 1..MaxLevel, NEW a \in Reaching(top), NEW S, Null \notin S,
           NoGap(a, S), NEW i \in 1..top
    PROVE  IsFinal(From(i, a, S), Descent(a, top, S)[i])
<1> DEFINE w == [j \in 1..top |-> Along(j, S)]
           E == [j \in 1..top |-> Final(From(j, a, S))]
<1>0. top \in Nat /\ 1..top \subseteq 1..MaxLevel /\ MaxLevel \in Nat
  BY LevelAssumption
<1>1. ASSUME NEW j \in 1..top
      PROVE  /\ a \in Reaching(j) /\ From(j, a, S) \in SUBSET Places
             /\ IsFinal(From(j, a, S), E[j])
  <2>1. j \in 1..MaxLevel /\ j \in Nat /\ j <= top
    BY <1>0
  <2>2. a \in Reaching(j)
    BY <1>0, <2>1, LevelsNest
  <2>3. From(j, a, S) \in SUBSET Reaching(j) /\ a \in From(j, a, S)
    BY <2>2 DEF From
  <2>4. Reaching(j) \in SUBSET Places /\ IsFiniteSet(Reaching(j))
    BY <2>1, LevelFacts
  <2>5. From(j, a, S) \in SUBSET Places /\ From(j, a, S) # {} /\ IsFiniteSet(From(j, a, S))
    BY <2>3, <2>4, FS_Subset
  <2>6. E[j] = Final(From(j, a, S))
    OBVIOUS
  <2> HIDE DEF E
  <2>7. QED
    BY <2>2, <2>5, <2>6, EndsExist, FinalIs
<1>2. ASSUME NEW j \in 1..top, NEW s \in From(j, a, S)
      PROVE  Along(j, S)[s] = E[j]
  <2> DEFINE D == Reaching(j)
             f == [x \in D |-> Forward(x, j)]
             b == [x \in D |-> Backward(x, j)]
             z == Along(j, S)[s]
  <2>1. j \in 1..MaxLevel
    BY <1>0
  <2>2. D \in SUBSET Places /\ Chain(D, f, b) /\ D \subseteq DOMAIN nodes
    BY <2>1, LevelFacts DEF Reaching
  <2>3. s \in D /\ a \in D /\ (s = a \/ (Before(a, s) /\ s \in S))
    BY <1>1 DEF From
  <2>4. EndsAt(D, f, S, s, z)
    BY <2>1, <2>3, AlongEnds
  <2>5. z \in From(j, a, S)
    BY <2>2, <2>3, <2>4, BeforeOrder DEF EndsAt, From
  <2>6. ASSUME NEW y \in From(j, a, S), y # z PROVE Before(y, z)
    <3>1. SUFFICES ASSUME Before(z, y) PROVE FALSE
      BY <2>2, <2>4, <2>6, BeforeOrder DEF From, EndsAt
    <3> HIDE DEF z
    <3>2. y \in D /\ z \in D /\ (z = a \/ Before(a, z))
      BY <2>2, <2>3, <2>4, BeforeOrder DEF From, EndsAt
    <3>3. Before(a, y) /\ y \in S
      BY <2>2, <2>3, <2>6, <3>1, <3>2, BeforeOrder DEF From
    <3>4. f[z] \in D /\ Before(z, f[z]) /\ (y = f[z] \/ Before(f[z], y))
      BY <2>2, <3>1, <3>2 DEF Chain, Follows
    <3>5. Before(a, f[z])
      BY <2>2, <2>3, <3>2, <3>4, BeforeOrder
    <3>6. f[z] \in S
      BY <2>2, <3>2, <3>3, <3>4, <3>5 DEF NoGap
    <3>7. QED
      BY <2>4, <3>6 DEF EndsAt
  <2>7. IsFinal(From(j, a, S), z)
    BY <2>5, <2>6 DEF IsFinal
  <2>8. From(j, a, S) \in SUBSET Places /\ E[j] = Final(From(j, a, S))
    BY <1>1
  <2> HIDE DEF E, z
  <2>9. E[j] = z
    BY <2>7, <2>8, FinalIs
  <2>10. QED
    BY <2>9 DEF z
<1>3. ASSUME NEW j \in 1..top PROVE E[j] = w[j][IF j = top THEN a ELSE E[j + 1]]
  <2>1. CASE j = top
    <3>1. a \in From(j, a, S)
      BY <1>1 DEF From
    <3> HIDE DEF E
    <3>2. QED
      BY <1>2, <2>1, <3>1
  <2>2. CASE j # top
    <3>1. j + 1 \in 1..top /\ j \in Nat /\ j + 1 \in Nat /\ j <= j + 1
      BY <2>2
    <3> HIDE DEF E
    <3>2. E[j + 1] \in From(j + 1, a, S)
      BY <1>1, <3>1 DEF IsFinal
    <3>3. E[j + 1] \in From(j, a, S)
      BY <3>1, <3>2, LevelsNest DEF From
    <3>4. QED
      BY <1>2, <2>2, <3>3
  <2>3. QED
    BY <2>1, <2>2
<1>4. IsSearch(E, w, a, top)
  <2>1. E = [j \in 1..top |-> E[j]]
    OBVIOUS
  <2> HIDE DEF E, w
  <2>2. QED
    BY <1>3, <2>1 DEF IsSearch
<1>5. \A g : IsSearch(g, w, a, top) <=>
                g = [j \in 1..top |-> Along(j, S)[IF j = top THEN a ELSE g[j + 1]]]
  BY DEF IsSearch
<1>6. Descent(a, top, S) = CHOOSE g : g = [j \in 1..top |-> Along(j, S)[IF j = top THEN a ELSE g[j + 1]]]
  BY DEF Descent
<1> HIDE DEF E, w
<1>7. IsSearch(Descent(a, top, S), w, a, top)
  BY <1>4, <1>5, <1>6
<1>8. Descent(a, top, S) = E
  BY <1>0, <1>4, <1>7, SearchUnique
<1>9. QED
  BY <1>1, <1>8

\* ... and backward at the first one.
LEMMA DescentBackEnds ==
    ASSUME ListInv, NEW top \in 1..MaxLevel, NEW a \in Reaching(top), NEW S, Null \notin S,
           NoGapBack(a, S), NEW i \in 1..top
    PROVE  IsFirst(Until(i, a, S), DescentBack(a, top, S)[i])
<1> DEFINE w == [j \in 1..top |-> Back(j, S)]
           E == [j \in 1..top |-> First(Until(j, a, S))]
<1>0. top \in Nat /\ 1..top \subseteq 1..MaxLevel /\ MaxLevel \in Nat
  BY LevelAssumption
<1>1. ASSUME NEW j \in 1..top
      PROVE  /\ a \in Reaching(j) /\ Until(j, a, S) \in SUBSET Places
             /\ IsFirst(Until(j, a, S), E[j])
  <2>1. j \in 1..MaxLevel /\ j \in Nat /\ j <= top
    BY <1>0
  <2>2. a \in Reaching(j)
    BY <1>0, <2>1, LevelsNest
  <2>3. Until(j, a, S) \in SUBSET Reaching(j) /\ a \in Until(j, a, S)
    BY <2>2 DEF Until
  <2>4. Reaching(j) \in SUBSET Places /\ IsFiniteSet(Reaching(j))
    BY <2>1, LevelFacts
  <2>5. Until(j, a, S) \in SUBSET Places /\ Until(j, a, S) # {} /\ IsFiniteSet(Until(j, a, S))
    BY <2>3, <2>4, FS_Subset
  <2>6. E[j] = First(Until(j, a, S))
    OBVIOUS
  <2> HIDE DEF E
  <2>7. QED
    BY <2>2, <2>5, <2>6, EndsExist, FirstIs
<1>2. ASSUME NEW j \in 1..top, NEW s \in Until(j, a, S)
      PROVE  Back(j, S)[s] = E[j]
  <2> DEFINE D == Reaching(j)
             b == [x \in D |-> Backward(x, j)]
             z == Back(j, S)[s]
  <2>1. j \in 1..MaxLevel
    BY <1>0
  <2>2. D \in SUBSET Places /\ D \subseteq DOMAIN nodes
        /\ b[head] = Null /\ \A x \in D : x # head => LastBefore(D, x, b[x])
    BY <2>1, LevelFacts DEF Reaching
  <2>3. s \in D /\ a \in D /\ (s = a \/ (Before(s, a) /\ s \in S))
    BY <1>1 DEF Until
  <2>4. EndsBackAt(D, b, S, s, z)
    BY <2>1, <2>3, BackEnds
  <2>5. z \in Until(j, a, S)
    BY <2>2, <2>3, <2>4, BeforeOrder DEF EndsBackAt, Until
  <2>6. ASSUME NEW y \in Until(j, a, S), y # z PROVE Before(z, y)
    <3>1. SUFFICES ASSUME Before(y, z) PROVE FALSE
      BY <2>2, <2>4, <2>6, BeforeOrder DEF Until, EndsBackAt
    <3> HIDE DEF z
    <3>2. y \in D /\ z \in D /\ (z = a \/ Before(z, a))
      BY <2>2, <2>3, <2>4, BeforeOrder DEF Until, EndsBackAt
    <3>3. Before(y, a) /\ y \in S
      BY <2>2, <2>3, <2>6, <3>1, <3>2, BeforeOrder DEF Until
    <3>4. b[z] \in D /\ Before(b[z], z) /\ (y = b[z] \/ Before(y, b[z]))
      <4>1. z # head
        BY <2>2, <3>1, <3>2, HeadFirst, BeforeOrder DEF Places
      <4>2. QED
        BY <2>2, <3>1, <3>2, <4>1 DEF LastBefore
    <3>5. Before(b[z], a)
      BY <2>2, <2>3, <3>2, <3>4, BeforeOrder
    <3>6. b[z] \in S
      BY <2>2, <3>2, <3>3, <3>4, <3>5 DEF NoGapBack
    <3>7. QED
      BY <2>4, <3>6 DEF EndsBackAt
  <2>7. IsFirst(Until(j, a, S), z)
    BY <2>5, <2>6 DEF IsFirst
  <2>8. Until(j, a, S) \in SUBSET Places /\ E[j] = First(Until(j, a, S))
    BY <1>1
  <2> HIDE DEF E, z
  <2>9. E[j] = z
    BY <2>7, <2>8, FirstIs
  <2>10. QED
    BY <2>9 DEF z
<1>3. ASSUME NEW j \in 1..top PROVE E[j] = w[j][IF j = top THEN a ELSE E[j + 1]]
  <2>1. CASE j = top
    <3>1. a \in Until(j, a, S)
      BY <1>1 DEF Until
    <3> HIDE DEF E
    <3>2. QED
      BY <1>2, <2>1, <3>1
  <2>2. CASE j # top
    <3>1. j + 1 \in 1..top /\ j \in Nat /\ j + 1 \in Nat /\ j <= j + 1
      BY <2>2
    <3> HIDE DEF E
    <3>2. E[j + 1] \in Until(j + 1, a, S)
      BY <1>1, <3>1 DEF IsFirst
    <3>3. E[j + 1] \in Until(j, a, S)
      BY <3>1, <3>2, LevelsNest DEF Until
    <3>4. QED
      BY <1>2, <2>2, <3>3
  <2>3. QED
    BY <2>1, <2>2
<1>4. IsSearch(E, w, a, top)
  <2>1. E = [j \in 1..top |-> E[j]]
    OBVIOUS
  <2> HIDE DEF E, w
  <2>2. QED
    BY <1>3, <2>1 DEF IsSearch
<1>5. \A g : IsSearch(g, w, a, top) <=>
                g = [j \in 1..top |-> Back(j, S)[IF j = top THEN a ELSE g[j + 1]]]
  BY DEF IsSearch
<1>6. DescentBack(a, top, S) = CHOOSE g : g = [j \in 1..top |-> Back(j, S)[IF j = top THEN a ELSE g[j + 1]]]
  BY DEF DescentBack
<1> HIDE DEF E, w
<1>7. IsSearch(DescentBack(a, top, S), w, a, top)
  BY <1>4, <1>5, <1>6
<1>8. DescentBack(a, top, S) = E
  BY <1>0, <1>4, <1>7, SearchUnique
<1>9. QED
  BY <1>1, <1>8

-----------------------------------------------------------------------------
(* What put and remove do *)

LEMMA PrevEnds ==
    ASSUME ListInv, NEW before \in SUBSET Inner, NoGap(head, before), NEW i \in 1..current_level
    PROVE  IsFinal({y \in Reaching(i) : y = head \/ y \in before}, Prev(before)[i])
<1>1. current_level \in 1..MaxLevel /\ i \in 1..MaxLevel /\ head \in Reaching(current_level)
  <2>1. current_level \in 1..MaxLevel
    BY DEF ListInv, Shape
  <2>2. i \in 1..MaxLevel
    BY <2>1, LevelAssumption
  <2>3. QED
    BY <2>1, <2>2, LevelFacts
<1>2. Null \notin before
  BY NullIsNoPlace DEF ListInv, Shape, Inner
<1>3. IsFinal(From(i, head, before), Prev(before)[i])
  BY <1>1, <1>2, DescentEnds DEF Prev
<1>4. \A y \in before : Before(head, y)
  BY HeadFirst DEF ListInv, Shape, Inner, Places
<1>5. From(i, head, before) = {y \in Reaching(i) : y = head \/ y \in before}
  BY <1>4 DEF From
<1>6. QED
  BY <1>3, <1>5

LEMMA PutPrev ==
    ASSUME ListInv, NEW new \in Address, NEW i \in 1..current_level
    PROVE  LastBefore(On(nodes, i), new, Prev({a \in Inner : Before(a, new)})[i])
<1> DEFINE before == {a \in Inner : Before(a, new)}
<1>1. \A x \in DOMAIN nodes : x \in Places /\ (x = head \/ x \in Inner)
  BY DEF ListInv, Shape, Inner
<1>2. new \in Places /\ Before(head, new)
  BY HeadFirst
<1>3. NoGap(head, before)
  BY <1>1, <1>2, BeforeOrder, HeadFirst DEF NoGap
<1>4. before \in SUBSET Inner
  OBVIOUS
<1>5. IsFinal({y \in Reaching(i) : y = head \/ y \in before}, Prev(before)[i])
  <2> HIDE DEF before
  <2>1. QED
    BY <1>3, <1>4, PrevEnds
<1>6. \A y \in Reaching(i) : (y = head \/ y \in before) <=> Before(y, new)
  BY <1>1, <1>2 DEF Reaching
<1>7. {y \in Reaching(i) : y = head \/ y \in before} = {y \in Reaching(i) : Before(y, new)}
  BY <1>6
<1>8. Reaching(i) = On(nodes, i)
  BY Reaches
<1>9. QED
  BY <1>5, <1>7, <1>8 DEF IsFinal, LastBefore

\* The search of put has found the node just when there is one.
LEMMA PutFinds ==
    ASSUME ListInv, NEW new \in Address
    PROVE  Forward(Prev({a \in Inner : Before(a, new)})[1], 1) = new <=> new \in Inner
<1> DEFINE p == Prev({a \in Inner : Before(a, new)})[1]
           S == On(nodes, 1)
<1>1. 1 \in 1..MaxLevel /\ 1 \in 1..current_level
  BY LevelAssumption DEF ListInv, Shape
<1>2. LastBefore(S, new, p)
  BY <1>1, PutPrev
<1>3. S = DOMAIN nodes /\ S \subseteq Places
  BY <1>1, LevelsOf DEF ListInv
<1>4. Follows(S, p, Forward(p, 1))
  BY <1>1, <1>2 DEF ListInv, Chained, Forward, LastBefore
<1>5. new \in Places /\ new # Null /\ new # head
  BY HeadFirst, NullIsNoPlace
<1> HIDE DEF p, S
<1>6. ASSUME Forward(p, 1) = new PROVE new \in S
  BY <1>4, <1>5, <1>6 DEF Follows
<1>7. ASSUME new \in S PROVE Forward(p, 1) = new
  <2>1. Forward(p, 1) \in S /\ Before(p, Forward(p, 1))
        /\ (new = Forward(p, 1) \/ Before(Forward(p, 1), new))
    BY <1>2, <1>4, <1>7 DEF Follows, LastBefore
  <2>2. QED
    BY <1>2, <1>3, <1>5, <2>1, BeforeOrder DEF LastBefore
<1>8. QED
  BY <1>3, <1>5, <1>6, <1>7 DEF p, Inner

\* The links that put makes.
LEMMA LinkedIs ==
    ASSUME ListInv, NEW new \in Address \ DOMAIN nodes, NEW value \in Payload,
           NEW level \in 1..MaxLevel,
           NEW prev, \A i \in 1..current_level : LastBefore(On(nodes, i), new, prev[i])
    PROVE  \E L : /\ \A i \in 1..MaxLevel : LastBefore(On(nodes, i), new, L[i])
                  /\ Inserted(nodes, Linked(new, value, level, prev), new, value, level, L)
<1> DEFINE L == [i \in 1..MaxLevel |-> IF i <= current_level THEN prev[i] ELSE head]
           next(i) == IF i <= current_level THEN Forward(prev[i], i) ELSE Null
           left(i) == IF i <= current_level THEN prev[i] ELSE head
           M == Linked(new, value, level, prev)
<1>1. /\ Shape(nodes, current_level) /\ Chained(nodes) /\ current_level \in 1..MaxLevel
      /\ MaxLevel \in Nat
  BY LevelAssumption DEF ListInv, Shape
<1>2. ASSUME NEW i \in 1..MaxLevel
      PROVE  LastBefore(On(nodes, i), new, L[i]) /\ left(i) = L[i] /\ next(i) = nodes[L[i]].forward[i]
  <2>1. CASE i <= current_level
    <3>1. i \in 1..current_level
      BY <1>1, <2>1
    <3>2. QED
      BY <2>1, <3>1 DEF Forward
  <2>2. CASE ~(i <= current_level)
    <3>1. On(nodes, i) = {head}
      BY <1>1, <2>2, LevelsOf
    <3>2. nodes[head].forward[i] = Null
      BY <1>1, <3>1, BeforeOrder, HeadFirst DEF Chained, Follows
    <3>3. QED
      BY <2>2, <3>1, <3>2, HeadFirst DEF LastBefore
  <2>3. QED
    BY <2>1, <2>2
<1>3. 1..level \subseteq 1..MaxLevel
  BY <1>1
<1>4. DOMAIN M = DOMAIN nodes \cup {new}
  BY DEF Linked
<1>5. M[new] = [value |-> value, forward |-> [i \in 1..level |-> nodes[L[i]].forward[i]],
                backward |-> [i \in 1..level |-> L[i]]]
  <2>1. M[new] = [value |-> value, forward |-> [i \in 1..level |-> next(i)],
                  backward |-> [i \in 1..level |-> left(i)]]
    BY DEF Linked
  <2>2. [i \in 1..level |-> next(i)] = [i \in 1..level |-> nodes[L[i]].forward[i]]
    <3> HIDE DEF next, L
    <3>1. QED
      BY <1>2, <1>3
  <2>3. [i \in 1..level |-> left(i)] = [i \in 1..level |-> L[i]]
    <3> HIDE DEF left, L
    <3>1. QED
      BY <1>2, <1>3
  <2>4. QED
    BY <2>1, <2>2, <2>3
<1>6. ASSUME NEW a \in DOMAIN nodes
      PROVE  M[a] = [value |-> nodes[a].value,
                  forward |-> [i \in 1..Level(nodes, a) |->
                                  IF i <= level /\ L[i] = a THEN new ELSE nodes[a].forward[i]],
                  backward |-> [i \in 1..Level(nodes, a) |->
                                  IF i <= level /\ nodes[L[i]].forward[i] = a THEN new
                                  ELSE nodes[a].backward[i]]]
  <2> DEFINE n == Level(nodes, a)
             f1 == [i \in DOMAIN nodes[a].forward |->
                       IF i <= level /\ left(i) = a THEN new ELSE nodes[a].forward[i]]
             b1 == [i \in DOMAIN nodes[a].backward |->
                       IF i <= level /\ next(i) = a THEN new ELSE nodes[a].backward[i]]
             f2 == [i \in 1..n |-> IF i <= level /\ L[i] = a THEN new ELSE nodes[a].forward[i]]
             b2 == [i \in 1..n |-> IF i <= level /\ nodes[L[i]].forward[i] = a THEN new
                                   ELSE nodes[a].backward[i]]
  <2>1. a # new /\ NodeOK(nodes[a], n) /\ n \in 1..MaxLevel
    BY <1>1, LevelsOf DEF Shape
  <2>2. DOMAIN nodes[a].forward = 1..n /\ DOMAIN nodes[a].backward = 1..n /\ 1..n \subseteq 1..MaxLevel
    BY <1>1, <2>1 DEF NodeOK
  <2>3. M[a] = [nodes[a] EXCEPT !.forward = f1, !.backward = b1]
    BY <2>1 DEF Linked
  <2>4. f1 = f2
    <3> HIDE DEF left, L, n
    <3>1. QED
      BY <1>2, <2>2
  <2>5. b1 = b2
    <3> HIDE DEF next, L, n
    <3>1. QED
      BY <1>2, <2>2
  <2>6. nodes[a] = [value |-> nodes[a].value, forward |-> nodes[a].forward,
                    backward |-> nodes[a].backward]
    BY <2>1 DEF NodeOK
  <2> HIDE DEF f1, b1, f2, b2, M
  <2>7. M[a] = [value |-> nodes[a].value, forward |-> f1, backward |-> b1]
    BY <2>3, <2>6
  <2>8. QED
    BY <2>4, <2>5, <2>7 DEF f2, b2
<1>7. Inserted(nodes, M, new, value, level, L)
  <2> HIDE DEF M, L
  <2>1. QED
    BY <1>4, <1>5, <1>6 DEF Inserted
<1>8. QED
  <2> HIDE DEF M, L
  <2>1. QED
    BY <1>2, <1>7 DEF M

\* The search of remove and of the reads: FirstFrom is the first node of a key k or above.
BehindKey(k) == {a \in Inner : Key(a) >= k}

LEMMA KeyPrev ==
    ASSUME ListInv, NEW k \in {0} \cup Keys, NEW i \in 1..current_level
    PROVE  LET p == Prev(BeforeKey(k))[i]
           IN  /\ p \in Reaching(i) /\ (p = head \/ p \in BeforeKey(k))
               /\ \A y \in Reaching(i) : y = head \/ y \in BeforeKey(k) => y = p \/ Before(y, p)
<1>1. BeforeKey(k) \in SUBSET Inner
  BY DEF BeforeKey
<1>2. \A x \in DOMAIN nodes : x \in Places /\ x[1] \in Nat
  BY PlaceIs DEF ListInv, Shape
<1>3. k \in Nat
  BY NoEmptyKey
<1>4. NoGap(head, BeforeKey(k))
  <2> SUFFICES ASSUME NEW x \in DOMAIN nodes, NEW y \in DOMAIN nodes,
                      Before(head, x), Before(x, y), y \in BeforeKey(k)
               PROVE  x \in BeforeKey(k)
    BY DEF NoGap
  <2>1. x[1] <= y[1] /\ y[1] < k
    BY <1>2 DEF Before, Key, BeforeKey
  <2>2. x # head
    BY HeadFirst, BeforeOrder
  <2>3. QED
    BY <1>2, <1>3, <2>1, <2>2 DEF BeforeKey, Inner, Key
<1>5. QED
  BY <1>1, <1>4, PrevEnds DEF IsFinal

LEMMA FirstFromIs ==
    ASSUME ListInv, NEW k \in {0} \cup Keys
    PROVE  /\ FirstFrom(k) = Null => BehindKey(k) = {}
           /\ FirstFrom(k) # Null => IsFirst(BehindKey(k), FirstFrom(k))
<1> DEFINE p == Prev(BeforeKey(k))[1]
           n == Forward(p, 1)
<1>1. 1 \in 1..MaxLevel /\ 1 \in 1..current_level
  BY LevelAssumption DEF ListInv, Shape
<1>2. /\ p \in Reaching(1) /\ (p = head \/ p \in BeforeKey(k))
      /\ \A y \in Reaching(1) : y = head \/ y \in BeforeKey(k) => y = p \/ Before(y, p)
  BY <1>1, KeyPrev
<1>3. Reaching(1) = DOMAIN nodes /\ On(nodes, 1) = DOMAIN nodes /\ DOMAIN nodes \subseteq Places
  BY <1>1, Reaches, LevelsOf DEF ListInv
<1>4. Follows(DOMAIN nodes, p, n)
  BY <1>1, <1>2, <1>3 DEF ListInv, Chained, Forward
<1>5. k \in Nat /\ \A x \in DOMAIN nodes : x[1] \in Nat
  <2>1. k \in Nat
    BY NoEmptyKey
  <2>2. QED
    BY <1>3, <2>1, PlaceIs
<1>6. \A y \in DOMAIN nodes : y \in BehindKey(k) <=> ~(y = head \/ y \in BeforeKey(k))
  BY <1>5 DEF BehindKey, BeforeKey, Inner, Key
<1>7. head \in DOMAIN nodes /\ \A y \in Inner : y \in DOMAIN nodes
  BY DEF ListInv, Shape, Inner
<1>8. \A y \in BehindKey(k) : y \in DOMAIN nodes /\ Before(p, y)
  <2> SUFFICES ASSUME NEW y \in BehindKey(k) PROVE y \in DOMAIN nodes /\ Before(p, y)
    OBVIOUS
  <2>1. y \in DOMAIN nodes /\ y # head /\ Key(y) >= k
    BY <1>7 DEF BehindKey, Inner
  <2>2. p = head \/ Key(p) < k
    BY <1>2 DEF BeforeKey
  <2>3. CASE p = head
    BY <1>3, <2>1, <2>3, HeadFirst DEF Places
  <2>4. CASE Key(p) < k
    BY <1>2, <1>3, <1>5, <2>1, <2>4 DEF Before, Key
  <2>5. QED
    BY <2>1, <2>2, <2>3, <2>4
<1>9. \A y \in DOMAIN nodes : Before(p, y) => y \in BehindKey(k)
  BY <1>2, <1>3, <1>6, BeforeOrder
<1>10. FirstFrom(k) = n
  BY DEF FirstFrom
<1> HIDE DEF n, p
<1>11. QED
  BY <1>4, <1>8, <1>9, <1>10 DEF Follows, IsFirst

LEMMA RemovePrev ==
    ASSUME ListInv, NEW k \in Keys, FirstFrom(k) # Null, Key(FirstFrom(k)) = k,
           NEW i \in 1..current_level
    PROVE  LastBefore(On(nodes, i), FirstFrom(k), Prev(BeforeKey(k))[i])
<1> DEFINE c == FirstFrom(k)
           p == Prev(BeforeKey(k))[i]
<1>1. /\ p \in Reaching(i) /\ (p = head \/ p \in BeforeKey(k))
      /\ \A y \in Reaching(i) : y = head \/ y \in BeforeKey(k) => y = p \/ Before(y, p)
  BY KeyPrev
<1>2. IsFirst(BehindKey(k), c)
  BY FirstFromIs
<1>3. c \in Inner /\ Key(c) = k /\ \A y \in Inner : Key(y) >= k => y = c \/ Before(c, y)
  BY <1>2 DEF IsFirst, BehindKey
<1>4. \A x \in DOMAIN nodes : x \in Places /\ x[1] \in Nat /\ (x = head \/ x \in Inner)
  BY PlaceIs DEF ListInv, Shape, Inner
<1>5. k \in Nat /\ k # 0 /\ head[1] = 0
  BY NoEmptyKey DEF head
<1>6. c \in Places /\ c[1] = k
  BY <1>3, <1>4 DEF Inner, Key
<1>7. \A y \in BeforeKey(k) : Before(y, c)
  BY <1>3, <1>4, <1>5 DEF BeforeKey, Before, Key, Inner
<1>8. Before(head, c)
  BY <1>5, <1>6 DEF Before, Key
<1>9. ASSUME NEW y \in DOMAIN nodes, Before(y, c) PROVE y = head \/ y \in BeforeKey(k)
  <2>1. SUFFICES ASSUME y \in Inner PROVE Key(y) < k
    BY <1>4 DEF BeforeKey
  <2>2. ~(Key(y) >= k)
    BY <1>3, <1>4, <1>6, <1>9, <2>1, BeforeOrder
  <2>3. QED
    BY <1>4, <1>5, <2>2 DEF Key
<1>10. Reaching(i) = On(nodes, i) /\ Reaching(i) \subseteq DOMAIN nodes
  BY Reaches DEF Reaching
<1> HIDE DEF p, c
<1>11. LastBefore(On(nodes, i), c, p)
  BY <1>1, <1>7, <1>8, <1>9, <1>10 DEF LastBefore
<1>12. QED
  BY <1>11 DEF p, c

\* The links that remove makes: as the next node's levels, or the removed one's, decide what is
\* done to a link, the outcome is always that the node is passed over.
LEMMA RemovedIs ==
    ASSUME ListInv, NEW curr \in Inner, NEW prev,
           \A i \in 1..current_level : LastBefore(On(nodes, i), curr, prev[i])
    PROVE  TakenOut(nodes, Removed(curr, prev), curr)
<1> DEFINE nxt == Forward(curr, 1)
           top == IF nxt = Null THEN 0 ELSE LevelOf(nxt)
           skips(i) == i > top /\ i <= LevelOf(curr)
           M == Removed(curr, prev)
<1>1. /\ Shape(nodes, current_level) /\ Chained(nodes) /\ current_level \in 1..MaxLevel
      /\ MaxLevel \in Nat /\ 1 \in 1..MaxLevel
  BY LevelAssumption DEF ListInv, Shape
<1>2. /\ curr \in DOMAIN nodes /\ curr # head /\ curr # Null
      /\ \A x \in DOMAIN nodes : x \in Places /\ x # Null /\ Level(nodes, x) \in 1..MaxLevel
      /\ On(nodes, 1) = DOMAIN nodes
  BY <1>1, LevelsOf, NullIsNoPlace DEF Inner, Shape
<1>3. Follows(DOMAIN nodes, curr, nxt) /\ nxt \in {Null} \cup Address
  BY <1>1, <1>2, LevelsOf DEF Chained, Forward
<1>4. \A x \in DOMAIN nodes : LevelOf(x) = Level(nodes, x)
  BY Reaches
<1>5. LevelOf(curr) \in Nat /\ LevelOf(curr) <= current_level
  BY <1>1, <1>2, <1>4 DEF Shape
<1>6. nxt # Null => nxt \in DOMAIN nodes /\ nxt # head /\ Before(curr, nxt)
  BY <1>2, <1>3, HeadFirst, BeforeOrder DEF Follows, Places
<1>7. top \in Nat /\ top <= current_level
  BY <1>1, <1>2, <1>4, <1>6 DEF Shape
<1>8. ASSUME NEW a \in DOMAIN nodes \ {curr}, NEW i \in 1..Level(nodes, a)
      PROVE  /\ (IF i <= current_level /\ prev[i] = a /\ (i <= top \/ skips(i))
                 THEN IF nxt = Null \/ i <= top THEN nxt ELSE Forward(curr, i)
                 ELSE nodes[a].forward[i])
                = IF nodes[a].forward[i] = curr THEN nodes[curr].forward[i] ELSE nodes[a].forward[i]
             /\ (IF nxt # Null /\ (a = nxt \/ (skips(i) /\ Forward(curr, i) = a))
                 THEN prev[i] ELSE nodes[a].backward[i])
                = IF nodes[a].backward[i] = curr THEN nodes[curr].backward[i]
                  ELSE nodes[a].backward[i]
  <2> DEFINE S == On(nodes, i)
  <2>1. i \in 1..MaxLevel /\ i \in Nat /\ i <= Level(nodes, a) /\ a \in S
    BY <1>1, <1>2 DEF On
  <2>2. \A x \in S : x \in DOMAIN nodes /\ x \in Places /\ x # Null
    BY <1>2 DEF On
  <2>3. \A x \in S : Follows(S, x, nodes[x].forward[i])
    BY <1>1, <2>1 DEF Chained
  <2>4. \A x \in S : nodes[x].forward[i] # Null => nodes[nodes[x].forward[i]].backward[i] = x
                                                  /\ nodes[x].forward[i] \in S
    BY <1>1, <2>1 DEF Chained, Follows
  <2>5. \A x \in S : x # head => /\ nodes[x].backward[i] \in S
                                 /\ LastBefore(S, x, nodes[x].backward[i])
                                 /\ nodes[nodes[x].backward[i]].forward[i] = x
    BY <1>1, <2>1, BackLinks
  <2>6. nodes[head].backward[i] = Null
    BY <1>1, <2>1 DEF Chained
  <2>7. Forward(curr, i) = nodes[curr].forward[i]
    BY DEF Forward
  <2>8. curr \in S <=> i <= LevelOf(curr)
    BY <1>2, <1>4, <1>5, <2>1 DEF On
  <2>9. nxt # Null => (nxt \in S <=> i <= top)
    BY <1>4, <1>6, <2>1 DEF On
  <2> HIDE DEF S
  <2>10. CASE i > current_level
    <3>1. S = {head}
      BY <1>1, <2>1, <2>10, LevelsOf DEF S
    <3>2. a = head /\ nodes[a].forward[i] = Null
      BY <2>1, <2>4, <3>1, BeforeOrder, HeadFirst, <2>3 DEF Follows
    <3>3. ~(i <= current_level) /\ ~(i <= top) /\ ~skips(i)
      BY <1>1, <1>5, <1>7, <2>1, <2>10
    <3>4. nxt # Null => a # nxt
      BY <1>6, <3>2
    <3> HIDE DEF nxt, top, skips
    <3>5. QED
      BY <1>2, <2>6, <3>2, <3>3, <3>4
  <2>11. CASE i <= current_level
    <3> DEFINE p == prev[i]
    <3>1. LastBefore(S, curr, p)
      <4>1. i \in 1..current_level
        BY <1>1, <2>1, <2>11
      <4>2. QED
        BY <4>1 DEF S
    <3>2. CASE curr \in S
      <4>1. nodes[curr].backward[i] = p /\ nodes[p].forward[i] = curr
        BY <1>2, <2>2, <2>5, <3>1, <3>2, BeforeOrder DEF LastBefore
      <4>2. nodes[a].forward[i] = curr <=> a = p
        BY <1>2, <2>1, <2>4, <4>1
      <4>3. nodes[a].backward[i] = curr <=> a = nodes[curr].forward[i]
        BY <1>2, <2>1, <2>2, <2>4, <2>5, <2>6, <3>2
      <4>4. nxt = Null => nodes[curr].forward[i] = Null
        BY <1>3, <2>2, <2>3, <2>4, <3>2 DEF Follows
      <4>5. nxt # Null /\ i <= top => nodes[curr].forward[i] = nxt
        <5>1. SUFFICES ASSUME nxt # Null, i <= top PROVE nodes[curr].forward[i] = nxt
          OBVIOUS
        <5>2. nxt \in S /\ Before(curr, nxt)
          BY <1>6, <2>9, <5>1
        <5>3. \A y \in S : Before(curr, y) => y = nxt \/ Before(nxt, y)
          BY <1>3, <2>2, <5>1 DEF Follows
        <5> HIDE DEF nxt, top
        <5>4. QED
          BY <2>2, <2>3, <3>2, <5>2, <5>3, BeforeOrder DEF Follows
      <4>6. nxt # Null /\ ~(i <= top) => a # nxt
        BY <2>1, <2>9
      <4>7. i <= LevelOf(curr) /\ (skips(i) <=> ~(i <= top))
        BY <1>5, <1>7, <2>1, <2>8, <3>2
      <4>8. a # Null
        BY <2>1, <2>2
      <4> HIDE DEF nxt, top, skips
      <4>9. QED
        BY <2>7, <2>11, <4>1, <4>2, <4>3, <4>4, <4>5, <4>6, <4>7, <4>8
    <3>3. CASE curr \notin S
      <4>1. nodes[a].forward[i] # curr /\ nodes[a].backward[i] # curr
        BY <1>2, <2>1, <2>4, <2>5, <2>6, <3>3
      <4>2. ~skips(i)
        BY <1>5, <2>8, <3>3
      <4>3. ASSUME i <= top PROVE nodes[p].forward[i] = nxt /\ nodes[nxt].backward[i] = p /\ nxt # Null
        <5>1. nxt # Null
          BY <2>1, <4>3
        <5>2. nxt \in S /\ Before(curr, nxt) /\ p \in S /\ Before(p, curr)
          BY <1>6, <2>9, <3>1, <4>3, <5>1 DEF LastBefore
        <5>3. \A y \in S : Before(curr, y) => y = nxt \/ Before(nxt, y)
          BY <1>3, <2>2, <5>1 DEF Follows
        <5>4. \A y \in S : Before(p, y) => Before(curr, y)
          BY <1>2, <2>2, <3>1, <3>3, BeforeOrder DEF LastBefore
        <5>5. Before(p, nxt)
          BY <1>2, <2>2, <5>2, BeforeOrder
        <5> HIDE DEF nxt, top, p
        <5>6. nodes[p].forward[i] = nxt
          BY <2>2, <2>3, <5>2, <5>3, <5>4, <5>5, BeforeOrder DEF Follows
        <5>7. QED
          BY <2>4, <5>1, <5>2, <5>6
      <4>4. nxt # Null /\ a = nxt => i <= top
        BY <2>1, <2>9
      <4> HIDE DEF nxt, top, skips
      <4>5. QED
        BY <4>1, <4>2, <4>3, <4>4
    <3>4. QED
      BY <3>2, <3>3
  <2>12. QED
    BY <1>1, <2>1, <2>10, <2>11
<1>9. DOMAIN M = DOMAIN nodes \ {curr}
  BY DEF Removed
<1>10. ASSUME NEW a \in DOMAIN M
       PROVE  M[a] = [value |-> nodes[a].value,
                  forward |-> [i \in 1..Level(nodes, a) |->
                                  IF nodes[a].forward[i] = curr THEN nodes[curr].forward[i]
                                  ELSE nodes[a].forward[i]],
                  backward |-> [i \in 1..Level(nodes, a) |->
                                  IF nodes[a].backward[i] = curr THEN nodes[curr].backward[i]
                                  ELSE nodes[a].backward[i]]]
  <2> DEFINE n == Level(nodes, a)
             f1 == [i \in DOMAIN nodes[a].forward |->
                       IF i <= current_level /\ prev[i] = a /\ (i <= top \/ skips(i))
                       THEN IF nxt = Null \/ i <= top THEN nxt ELSE Forward(curr, i)
                       ELSE nodes[a].forward[i]]
             b1 == [i \in DOMAIN nodes[a].backward |->
                       IF nxt # Null /\ (a = nxt \/ (skips(i) /\ Forward(curr, i) = a))
                       THEN prev[i] ELSE nodes[a].backward[i]]
             f2 == [i \in 1..n |-> IF nodes[a].forward[i] = curr THEN nodes[curr].forward[i]
                                   ELSE nodes[a].forward[i]]
             b2 == [i \in 1..n |-> IF nodes[a].backward[i] = curr THEN nodes[curr].backward[i]
                                   ELSE nodes[a].backward[i]]
  <2>1. a \in DOMAIN nodes \ {curr} /\ NodeOK(nodes[a], n)
    BY <1>1, <1>9 DEF Shape
  <2>2. DOMAIN nodes[a].forward = 1..n /\ DOMAIN nodes[a].backward = 1..n
    BY <2>1 DEF NodeOK
  <2>3. M[a] = [nodes[a] EXCEPT !.forward = f1, !.backward = b1]
    BY <2>1 DEF Removed
  <2> HIDE DEF M
  <2>4. f1 = f2 /\ b1 = b2
    <3> HIDE DEF nxt, top, skips, n
    <3>1. QED
      BY <1>8, <2>1, <2>2 DEF n
  <2>5. nodes[a] = [value |-> nodes[a].value, forward |-> nodes[a].forward,
                    backward |-> nodes[a].backward]
    BY <2>1 DEF NodeOK
  <2> HIDE DEF f1, b1, f2, b2
  <2>6. M[a] = [value |-> nodes[a].value, forward |-> f1, backward |-> b1]
    BY <2>3, <2>5
  <2>7. QED
    BY <2>4, <2>6 DEF f2, b2
<1>11. QED
  <2> HIDE DEF M
  <2>1. TakenOut(nodes, M, curr)
    BY <1>9, <1>10 DEF TakenOut
  <2>2. QED
    BY <2>1 DEF M

\* A new value leaves the links.
LEMMA ValueOnly ==
    ASSUME NEW N, NEW top, Shape(N, top), Chained(N), NEW x \in DOMAIN N, NEW v \in Payload,
           NEW M, M = [N EXCEPT ![x].value = v]
    PROVE  /\ Shape(M, top) /\ Chained(M) /\ DOMAIN M = DOMAIN N
           /\ \A a \in DOMAIN N : M[a].value = IF a = x THEN v ELSE N[a].value
<1>1. DOMAIN M = DOMAIN N /\ \A a \in DOMAIN N : a # x => M[a] = N[a]
  OBVIOUS
<1>2. M[x] = [N[x] EXCEPT !.value = v]
  OBVIOUS
<1>3. NodeOK(N[x], Level(N, x))
  BY DEF Shape
<1>4. M[x] = [value |-> v, forward |-> N[x].forward, backward |-> N[x].backward]
  BY <1>2, <1>3 DEF NodeOK
<1>5. \A a \in DOMAIN N : /\ M[a].forward = N[a].forward /\ M[a].backward = N[a].backward
                          /\ M[a].value = IF a = x THEN v ELSE N[a].value
  BY <1>1, <1>4
<1>6. \A a \in DOMAIN N : Level(M, a) = Level(N, a)
  BY <1>5 DEF Level
<1>7. NodeOK(M[x], Level(M, x))
  BY <1>3, <1>4, <1>6 DEF NodeOK
<1>8. Shape(M, top)
  BY <1>1, <1>6, <1>7 DEF Shape
<1>9. \A i \in 1..MaxLevel : On(M, i) = On(N, i) /\ On(N, i) \subseteq DOMAIN N
  BY <1>1, <1>6 DEF On
<1>10. \A i \in 1..MaxLevel : \A a \in On(N, i) :
          N[a].forward[i] # Null => N[a].forward[i] \in On(N, i)
  BY DEF Chained, Follows
<1>11. head \in DOMAIN N
  BY DEF Shape
<1>12. Chained(M)
  <2> SUFFICES ASSUME NEW i \in 1..MaxLevel
               PROVE  /\ M[head].backward[i] = Null
                      /\ \A a \in On(M, i) :
                            /\ Follows(On(M, i), a, M[a].forward[i])
                            /\ M[a].forward[i] # Null => M[M[a].forward[i]].backward[i] = a
    BY DEF Chained
  <2>1. M[head].backward[i] = Null
    BY <1>5, <1>11 DEF Chained
  <2>2. \A a \in On(N, i) : /\ Follows(On(N, i), a, N[a].forward[i])
                            /\ N[a].forward[i] # Null => N[N[a].forward[i]].backward[i] = a
    BY DEF Chained
  <2>3. \A a \in On(N, i) : M[a].forward[i] = N[a].forward[i] /\ M[a].backward[i] = N[a].backward[i]
    BY <1>5, <1>9
  <2>4. ASSUME NEW a \in On(M, i)
        PROVE  /\ Follows(On(M, i), a, M[a].forward[i])
               /\ M[a].forward[i] # Null => M[M[a].forward[i]].backward[i] = a
    <3>1. a \in On(N, i) /\ On(M, i) = On(N, i) /\ M[a].forward[i] = N[a].forward[i]
      BY <1>9, <2>3
    <3>2. Follows(On(N, i), a, N[a].forward[i])
      BY <2>2, <3>1
    <3>3. N[a].forward[i] # Null => M[N[a].forward[i]].backward[i] = N[N[a].forward[i]].backward[i]
      BY <1>10, <2>3, <3>1
    <3>4. QED
      BY <2>2, <3>1, <3>2, <3>3
  <2>5. QED
    BY <2>1, <2>4
<1>13. QED
  BY <1>1, <1>5, <1>8, <1>12

-----------------------------------------------------------------------------
(* The invariant *)

\* The three ways in which a call changes the nodes, with what they do to the values.
PutOld(k, value, t) ==
    /\ <<k, t>> \in Inner /\ nodes' = [nodes EXCEPT ![<<k, t>>].value = value]
    /\ size_bytes' = size_bytes - (nodes[<<k, t>>].value - value)
    /\ current_level' = current_level

PutNew(k, value, t, level) ==
    /\ <<k, t>> \notin DOMAIN nodes
    /\ current_level' = IF level > current_level THEN level ELSE current_level
    /\ size_bytes' = size_bytes + Overhead + value
    /\ \E L : /\ \A i \in 1..MaxLevel : LastBefore(On(nodes, i), <<k, t>>, L[i])
              /\ Inserted(nodes, nodes', <<k, t>>, value, level, L)

RemoveFirst(k) ==
    \E c \in Inner :
        /\ Key(c) = k /\ IsFirst(BehindKey(k), c) /\ TakenOut(nodes, nodes', c)
        /\ size_bytes' = size_bytes - (Overhead + nodes[c].value)
        /\ current_level' = current_level

LEMMA PutSteps ==
    ASSUME ListInv, NEW k \in Keys, NEW v \in Payload, NEW t \in Ids, NEW level \in 1..MaxLevel,
           Put(k, v, t, level)
    PROVE  PutOld(k, v, t) \/ PutNew(k, v, t, level)
<1> DEFINE new == <<k, t>>
           prev == Prev({a \in Inner : Before(a, new)})
<1>1. new \in Address
  BY DEF Address
<1>2. Forward(prev[1], 1) = new <=> new \in Inner
  BY <1>1, PutFinds
<1>3. new # head
  BY <1>1, HeadFirst
<1>4. CASE new \in Inner
  <2>1. nodes' = [nodes EXCEPT ![new].value = v]
        /\ size_bytes' = size_bytes - (nodes[new].value - v) /\ current_level' = current_level
    BY <1>2, <1>4 DEF Put
  <2>2. QED
    BY <1>4, <2>1 DEF PutOld
<1>5. CASE new \notin Inner
  <2>1. new \in Address \ DOMAIN nodes
    BY <1>1, <1>3, <1>5 DEF Inner
  <2>2. /\ nodes' = Linked(new, v, level, prev)
        /\ current_level' = IF level > current_level THEN level ELSE current_level
        /\ size_bytes' = size_bytes + Overhead + v
    BY <1>2, <1>5 DEF Put
  <2>3. \A i \in 1..current_level : LastBefore(On(nodes, i), new, prev[i])
    BY <1>1, PutPrev
  <2> HIDE DEF new, prev
  <2>4. \E L : /\ \A i \in 1..MaxLevel : LastBefore(On(nodes, i), new, L[i])
               /\ Inserted(nodes, Linked(new, v, level, prev), new, v, level, L)
    BY <2>1, <2>3, LinkedIs
  <2>5. QED
    BY <2>1, <2>2, <2>4 DEF PutNew, new
<1>6. QED
  BY <1>4, <1>5

LEMMA RemoveSteps ==
    ASSUME ListInv, NEW k \in Keys, Remove(k)
    PROVE  RemoveFirst(k)
<1> DEFINE c == FirstFrom(k)
           prev == Prev(BeforeKey(k))
<1>1. c # Null /\ Key(c) = k /\ nodes' = Removed(c, prev)
      /\ size_bytes' = size_bytes - (Overhead + nodes[c].value) /\ current_level' = current_level
  BY DEF Remove
<1>2. IsFirst(BehindKey(k), c)
  BY <1>1, FirstFromIs
<1>3. c \in Inner
  BY <1>2 DEF IsFirst, BehindKey
<1>4. \A i \in 1..current_level : LastBefore(On(nodes, i), c, prev[i])
  BY <1>1, RemovePrev
<1> HIDE DEF c, prev
<1>5. TakenOut(nodes, Removed(c, prev), c)
  BY <1>3, <1>4, RemovedIs
<1>6. QED
  BY <1>1, <1>2, <1>3, <1>5 DEF RemoveFirst

LEMMA ListSteps ==
    ASSUME ListInv, [Next]_vars
    PROVE  ListInv'
<1>1. Shape(nodes, current_level) /\ Chained(nodes) /\ current_level \in 1..MaxLevel
  BY DEF ListInv, Shape
<1>2. ASSUME NEW k \in Keys, NEW v \in Payload, NEW t \in Ids, NEW level \in 1..MaxLevel,
             Put(k, v, t, level)
      PROVE  Shape(nodes', current_level') /\ Chained(nodes')
  <2>1. CASE PutOld(k, v, t)
    <3>1. <<k, t>> \in DOMAIN nodes /\ nodes' = [nodes EXCEPT ![<<k, t>>].value = v]
          /\ current_level' = current_level
      BY <2>1 DEF PutOld, Inner
    <3>2. QED
      BY <1>1, <3>1, ValueOnly
  <2>2. CASE PutNew(k, v, t, level)
    <3>1. <<k, t>> \in Address \ DOMAIN nodes
      BY <2>2 DEF PutNew, Address
    <3>2. PICK L : /\ \A i \in 1..MaxLevel : LastBefore(On(nodes, i), <<k, t>>, L[i])
                   /\ Inserted(nodes, nodes', <<k, t>>, v, level, L)
      BY <2>2 DEF PutNew
    <3>3. Chained(nodes')
      BY <1>1, <3>1, <3>2, InsertedChained
    <3>4. Shape(nodes', IF level > current_level THEN level ELSE current_level)
      BY <1>1, <3>1, <3>2, InsertedShape
    <3>5. QED
      BY <2>2, <3>3, <3>4 DEF PutNew
  <2>3. QED
    BY <1>2, <2>1, <2>2, PutSteps
<1>3. ASSUME NEW k \in Keys, Remove(k)
      PROVE  Shape(nodes', current_level') /\ Chained(nodes')
  <2>1. PICK c \in Inner : TakenOut(nodes, nodes', c) /\ current_level' = current_level
    BY <1>3, RemoveSteps DEF RemoveFirst
  <2>2. c \in DOMAIN nodes \ {head}
    BY DEF Inner
  <2>3. QED
    BY <1>1, <2>1, <2>2, TakenOutShape, TakenOutChained
<1>4. ASSUME Clear PROVE Shape(nodes', current_level') /\ Chained(nodes')
  BY <1>1, <1>4, HeadOnlyLinked DEF Clear, HeadOnly
<1>5. ASSUME UNCHANGED vars PROVE Shape(nodes', current_level') /\ Chained(nodes')
  <2>1. nodes' = nodes /\ current_level' = current_level
    BY <1>5 DEF vars
  <2>2. QED
    BY <1>1, <2>1
<1>6. Shape(nodes', current_level') /\ Chained(nodes')
  BY <1>2, <1>3, <1>4, <1>5 DEF Next
<1>7. QED
  BY <1>6 DEF ListInv, Shape, Chained, NodeOK, Level, On, Follows

LEMMA ListInit == Init => ListInv
<1> SUFFICES ASSUME Init PROVE ListInv
  OBVIOUS
<1>1. nodes = HeadOnly /\ current_level = 1 /\ 1 \in 1..MaxLevel
  BY LevelAssumption DEF Init, HeadOnly
<1>2. QED
  BY <1>1, HeadOnlyLinked DEF ListInv

LEMMA ListAlways == Spec => []ListInv
<1>1. ListInv /\ [Next]_vars => ListInv'
  BY ListSteps
<1>2. QED
  BY ListInit, <1>1, PTL DEF Spec

-----------------------------------------------------------------------------
(* The levels *)

LEMMA LevelsListedHolds == ListInv => LevelsListed
<1> SUFFICES ASSUME ListInv, NEW i \in 1..MaxLevel, NEW a \in Reaching(i)
             PROVE  LET after == {b \in Reaching(i) : Before(a, b)}
                    IN  IF after = {} THEN Forward(a, i) = Null
                        ELSE Forward(a, i) = First(after) /\ Backward(First(after), i) = a
  BY DEF LevelsListed
<1> DEFINE D == Reaching(i)
           f == [x \in D |-> Forward(x, i)]
           b == [x \in D |-> Backward(x, i)]
           after == {y \in D : Before(a, y)}
<1>1. D \in SUBSET Places /\ Chain(D, f, b)
  BY LevelFacts
<1>2. Follows(D, a, f[a]) /\ (f[a] # Null => b[f[a]] = a) /\ f[a] = Forward(a, i)
  BY <1>1 DEF Chain
<1>3. CASE f[a] = Null
  BY <1>2, <1>3 DEF Follows
<1>4. CASE f[a] # Null
  <2>1. f[a] \in D /\ IsFirst(after, f[a])
    BY <1>2, <1>4 DEF Follows, IsFirst
  <2>2. after \in SUBSET Places
    BY <1>1
  <2>3. after # {}
    BY <2>1 DEF IsFirst
  <2>4. b[f[a]] = Backward(f[a], i)
    BY <2>1
  <2> HIDE DEF D, f, b, after
  <2>5. First(after) = f[a]
    BY <2>1, <2>2, FirstIs
  <2>6. QED
    BY <1>2, <1>4, <2>3, <2>4, <2>5 DEF after, D
<1>5. QED
  BY <1>3, <1>4

-----------------------------------------------------------------------------
(* Reads by key *)

\* On the lowest level the walk from a leads to the first node from a on that is not in S.
LEMMA BehindIs ==
    ASSUME ListInv, NEW S, Null \notin S, NEW a \in Inner
    PROVE  LET R == {y \in Inner : (y = a \/ Before(a, y)) /\ y \notin S}
           IN  /\ Behind(a, S) = Null => R = {}
               /\ Behind(a, S) # Null => IsFirst(R, Behind(a, S))
<1> DEFINE R == {y \in Inner : (y = a \/ Before(a, y)) /\ y \notin S}
           D == Reaching(1)
           f == [x \in D |-> Forward(x, 1)]
           z == Along(1, S)[a]
<1>1. 1 \in 1..MaxLevel
  BY LevelAssumption
<1>2. D = DOMAIN nodes
  BY <1>1, Reaches, LevelsOf DEF ListInv
<1>3. /\ D \in SUBSET Places /\ a \in D /\ a # head
      /\ \A y \in D : y = head \/ y \in Inner
      /\ \A y \in Inner : y \in D /\ y # head
  BY <1>2 DEF ListInv, Shape, Inner
<1>4. \A x \in D : Follows(D, x, f[x])
  BY <1>1, LevelFacts DEF Chain
<1>5. \A y \in D : Before(a, y) => y # head
  BY <1>3, HeadFirst, BeforeOrder DEF Places
<1>6. CASE a \in S
  <2>1. EndsAt(D, f, S, a, z)
    BY <1>1, <1>3, AlongEnds
  <2>2. z \in D /\ (z = a \/ Before(a, z)) /\ f[z] \notin S
        /\ \A y \in D : Before(a, y) /\ (y = z \/ Before(y, z)) => y \in S
    BY <2>1 DEF EndsAt
  <2>3. Behind(a, S) = f[z]
    BY <1>6, <2>2 DEF Behind
  <2> HIDE DEF D, f, z
  <2>4. \A y \in R : y \in D /\ Before(z, y)
    BY <1>3, <1>6, <2>2, BeforeOrder
  <2>5. CASE f[z] = Null
    BY <1>4, <2>2, <2>3, <2>4, <2>5 DEF Follows
  <2>6. CASE f[z] # Null
    <3>1. f[z] \in D /\ Before(z, f[z]) /\ \A y \in D : Before(z, y) => y = f[z] \/ Before(f[z], y)
      BY <1>4, <2>2, <2>6 DEF Follows
    <3>2. Before(a, f[z])
      BY <1>3, <2>2, <3>1, BeforeOrder
    <3>3. f[z] \in R
      BY <1>3, <1>5, <2>2, <3>1, <3>2
    <3>4. IsFirst(R, f[z])
      <4> HIDE DEF R
      <4>1. QED
        BY <2>4, <3>1, <3>3 DEF IsFirst
    <3>5. QED
      BY <2>3, <2>6, <3>4
  <2>7. QED
    BY <2>5, <2>6
<1>7. CASE a \notin S
  <2>1. Behind(a, S) = a
    BY <1>7 DEF Behind
  <2>2. IsFirst(R, a)
    BY <1>7 DEF IsFirst
  <2>3. a # Null
    BY <1>3, NullIsNoPlace
  <2>4. QED
    BY <2>1, <2>2, <2>3
<1>8. QED
  BY <1>6, <1>7

\* The nodes of key k that the reader t may see.
Seen(k, t) == {a \in Inner : Key(a) = k /\ (t = 0 \/ a[2] <= t)}

LEMMA InnerIs ==
    ASSUME ListInv
    PROVE  /\ Inner \in SUBSET Address /\ Inner \in SUBSET Places
           /\ \A a \in Inner : /\ a = <<a[1], a[2]>> /\ a[1] \in Keys /\ a[2] \in Nat
                               /\ a[1] \in Nat /\ a # Null
<1>1. Inner \in SUBSET Address /\ Inner \in SUBSET Places
  BY DEF ListInv, Shape, Inner, Places
<1>2. ASSUME NEW a \in Inner PROVE a[1] \in Keys
  <2>1. PICK k \in Keys, t \in Ids : a = <<k, t>>
    BY <1>1 DEF Address
  <2>2. QED
    BY <2>1
<1>3. QED
  BY <1>1, <1>2, PlaceIs, NullIsNoPlace

LEMMA GetIs ==
    ASSUME ListInv, NEW k \in Keys, NEW t \in Nat
    PROVE  /\ Get(k, t) = Null => Seen(k, t) = {}
           /\ Get(k, t) # Null => IsFirst(Seen(k, t), Get(k, t))
<1> DEFINE hidden == {a \in Inner : Key(a) = k /\ t # 0 /\ a[2] > t}
           c == FirstFrom(k)
           R == {y \in Inner : (y = c \/ Before(c, y)) /\ y \notin hidden}
           hit == Behind(c, hidden)
<1>0. /\ \A a \in Inner : a \in Places /\ a[1] \in Nat /\ a[2] \in Nat /\ a # Null
      /\ k \in Nat
  BY InnerIs, NoEmptyKey
<1>1. \A a \in Seen(k, t) : a \in Inner /\ a \notin hidden /\ a \in BehindKey(k)
  BY <1>0 DEF Seen, BehindKey, Key
<1>2. Get(k, t) = IF hit # Null /\ Key(hit) = k THEN hit ELSE Null
  BY DEF Get
<1>3. CASE c = Null
  <2>1. Seen(k, t) = {}
    BY <1>1, <1>3, FirstFromIs
  <2>2. hit = Null
    BY <1>0, <1>3 DEF Behind
  <2>3. QED
    BY <1>2, <2>1, <2>2
<1>4. CASE c # Null
  <2>1. IsFirst(BehindKey(k), c)
    BY <1>4, FirstFromIs
  <2>2. c \in Inner /\ \A y \in BehindKey(k) : y = c \/ Before(c, y)
    BY <2>1 DEF IsFirst, BehindKey
  <2>3. Null \notin hidden
    BY <1>0
  <2>4. (hit = Null => R = {}) /\ (hit # Null => IsFirst(R, hit))
    <3> HIDE DEF c, hidden
    <3>1. QED
      BY <2>2, <2>3, BehindIs
  <2>5. \A a \in Seen(k, t) : a \in R
    BY <1>1, <2>2
  <2>6. CASE hit = Null
    BY <1>2, <2>4, <2>5, <2>6
  <2>7. CASE hit # Null
    <3>1. hit \in R /\ \A y \in R : hit = y \/ Before(hit, y)
      BY <2>4, <2>7 DEF IsFirst
    <3>2. CASE Key(hit) = k
      <4>1. hit \in Seen(k, t)
        BY <1>0, <3>1, <3>2 DEF Seen
      <4> HIDE DEF hit, R
      <4>2. QED
        BY <1>2, <2>5, <2>7, <3>1, <3>2, <4>1 DEF IsFirst
    <3>3. CASE Key(hit) # k
      <4>1. hit \in Inner /\ Key(hit) >= k
        <5>1. c \in Inner /\ Key(c) >= k /\ hit \in Inner /\ (hit = c \/ Before(c, hit))
          BY <2>1, <3>1 DEF IsFirst, BehindKey
        <5> HIDE DEF hit, c
        <5>2. QED
          BY <1>0, <5>1 DEF Before, Key
      <4>2. Key(hit) > k
        BY <1>0, <3>3, <4>1 DEF Key
      <4>3. ASSUME NEW a \in Seen(k, t) PROVE FALSE
        <5>1. a \in Inner /\ Key(a) = k /\ (hit = a \/ Before(hit, a))
          BY <2>5, <3>1 DEF Seen
        <5> HIDE DEF hit
        <5>2. QED
          BY <1>0, <4>1, <4>2, <5>1 DEF Before, Key
      <4>4. QED
        BY <1>2, <3>3, <4>3
    <3>4. QED
      BY <3>2, <3>3
  <2>8. QED
    BY <2>6, <2>7
<1>5. QED
  BY <1>3, <1>4

\* The version of a node.
VersionOf(N, a) == [key |-> a[1], value |-> N[a].value, tranc_id |-> a[2]]
ContentsOf(N) == {VersionOf(N, a) : a \in DOMAIN N \ {head}}

LEMMA ContentsAre ==
    /\ Contents = ContentsOf(nodes)
    /\ \A a : Content(a) = VersionOf(nodes, a)
BY DEF Contents, ContentsOf, Content, VersionOf, Node, Key, Inner

\* Of nodes of one key the first has the greatest tranc_id: its version is the newest.
LEMMA FirstIsNewest ==
    ASSUME ListInv, NEW S \in SUBSET Inner, NEW k, \A a \in S : Key(a) = k,
           NEW c, IsFirst(S, c)
    PROVE  Newest({VersionOf(nodes, a) : a \in S}) = VersionOf(nodes, c)
<1> DEFINE T == {VersionOf(nodes, a) : a \in S}
           n == VersionOf(nodes, c)
           IsNewest(m) == m \in T /\ \A x \in T : x.tranc_id <= m.tranc_id
<1>1. \A a \in S : /\ a = <<a[1], a[2]>> /\ a[2] \in Nat /\ a[1] = k /\ k \in Nat
  BY InnerIs DEF Key
<1>2. c \in S /\ \A a \in S : a = c \/ c[2] > a[2]
  BY <1>1 DEF IsFirst, Before, Key
<1>3. \A a \in S : VersionOf(nodes, a).tranc_id = a[2]
  BY DEF VersionOf
<1>4. \A a \in S : a[2] <= c[2]
  BY <1>1, <1>2
<1>5. IsNewest(n)
  BY <1>2, <1>3, <1>4
<1>6. ASSUME NEW m, IsNewest(m) PROVE m = n
  <2>1. PICK a \in S : m = VersionOf(nodes, a)
    BY <1>6
  <2>2. n \in T
    BY <1>2
  <2>3. c[2] <= a[2]
    BY <1>2, <1>3, <1>6, <2>1, <2>2
  <2>4. a = c
    BY <1>1, <1>2, <2>3
  <2>5. QED
    BY <2>1, <2>4
<1>7. Newest(T) = CHOOSE m : IsNewest(m)
  BY DEF Newest
<1> HIDE DEF IsNewest
<1>8. QED
  BY <1>5, <1>6, <1>7

LEMMA VisibleIs ==
    ASSUME ListInv, NEW k \in Keys, NEW t \in Nat
    PROVE  Visible(Contents, k, t) = {VersionOf(nodes, a) : a \in Seen(k, t)}
<1>1. \A a : VersionOf(nodes, a).key = a[1] /\ VersionOf(nodes, a).tranc_id = a[2]
  BY DEF VersionOf
<1>2. QED
  BY <1>1, ContentsAre DEF Visible, ContentsOf, Seen, Key, Inner

LEMMA GetHolds == ListInv => GetExact
<1> SUFFICES ASSUME ListInv, NEW k \in Keys, NEW t \in {0} \cup Ids
             PROVE  TableGet(Contents, k, t) =
                       IF Get(k, t) = Null THEN NoNode ELSE Content(Get(k, t))
  BY DEF GetExact
<1>1. t \in Nat
  BY IdsAssumption
<1>2. Visible(Contents, k, t) = {VersionOf(nodes, a) : a \in Seen(k, t)}
  BY <1>1, VisibleIs
<1>3. CASE Get(k, t) = Null
  <2>1. Seen(k, t) = {}
    BY <1>1, <1>3, GetIs
  <2>2. QED
    BY <1>2, <1>3, <2>1 DEF TableGet
<1>4. CASE Get(k, t) # Null
  <2>1. IsFirst(Seen(k, t), Get(k, t))
    BY <1>1, <1>4, GetIs
  <2>2. Seen(k, t) \in SUBSET Inner /\ \A a \in Seen(k, t) : Key(a) = k
    BY DEF Seen
  <2>3. Newest({VersionOf(nodes, a) : a \in Seen(k, t)}) = VersionOf(nodes, Get(k, t))
    BY <2>1, <2>2, FirstIsNewest
  <2>4. Visible(Contents, k, t) # {}
    BY <1>2, <2>1 DEF IsFirst
  <2>5. QED
    BY <1>2, <1>4, <2>3, <2>4, ContentsAre DEF TableGet
<1>5. QED
  BY <1>3, <1>4

\* A search by key down the levels is a search of the set of versions: for every reader, the
\* newest version of the key visible to it.
THEOREM SearchesExact == Spec => []GetExact
BY ListAlways, GetHolds, PTL

-----------------------------------------------------------------------------
(* The list implements the table *)

LEMMA PutOldTable ==
    ASSUME ListInv, NEW k \in Keys, NEW v \in Payload, NEW t \in Ids, PutOld(k, v, t)
    PROVE  ContentsOf(nodes') = TablePut(ContentsOf(nodes), k, v, t)
<1> DEFINE x == <<k, t>>
           M == nodes'
<1>1. x \in Inner /\ x \in DOMAIN nodes /\ x # head /\ M = [nodes EXCEPT ![x].value = v]
      /\ DOMAIN M = DOMAIN nodes /\ \A a \in DOMAIN nodes : a # x => M[a] = nodes[a]
  BY DEF PutOld, Inner
<1>2. M[x].value = v
  BY <1>1, ValueOnly DEF ListInv
<1>3. \A a \in Inner : a = <<a[1], a[2]>>
  BY InnerIs
<1>4. \A a \in Inner : a # x => VersionOf(M, a) = VersionOf(nodes, a)
  BY <1>1 DEF VersionOf, Inner
<1>5. VersionOf(M, x) = Node(k, v, t)
  BY <1>2 DEF VersionOf, Node
<1>6. \A a \in Inner : (VersionOf(nodes, a).key = k /\ VersionOf(nodes, a).tranc_id = t) <=> a = x
  BY <1>3 DEF VersionOf
<1>7. ContentsOf(M) = {VersionOf(M, a) : a \in Inner} /\ ContentsOf(nodes) = {VersionOf(nodes, a) : a \in Inner}
  BY <1>1 DEF ContentsOf, Inner
<1> HIDE DEF x, M
<1>8. {VersionOf(M, a) : a \in Inner} = {VersionOf(M, a) : a \in Inner \ {x}} \cup {Node(k, v, t)}
  BY <1>1, <1>5
<1>9. {VersionOf(M, a) : a \in Inner \ {x}} = {VersionOf(nodes, a) : a \in Inner \ {x}}
  BY <1>4
<1>10. {VersionOf(nodes, a) : a \in Inner \ {x}} =
          {n \in {VersionOf(nodes, a) : a \in Inner} : ~(n.key = k /\ n.tranc_id = t)}
  BY <1>6
<1>11. ContentsOf(M) = TablePut(ContentsOf(nodes), k, v, t)
  BY <1>7, <1>8, <1>9, <1>10 DEF TablePut
<1>12. QED
  BY <1>11 DEF M

LEMMA PutNewTable ==
    ASSUME ListInv, NEW k \in Keys, NEW v \in Payload, NEW t \in Ids, NEW level,
           PutNew(k, v, t, level)
    PROVE  ContentsOf(nodes') = TablePut(ContentsOf(nodes), k, v, t)
<1> DEFINE x == <<k, t>>
           M == nodes'
<1>1. PICK L : Inserted(nodes, M, x, v, level, L)
  BY DEF PutNew
<1>2. x \notin DOMAIN nodes /\ x # head /\ DOMAIN M = DOMAIN nodes \cup {x}
  <2>1. x \in Address
    BY DEF Address
  <2>2. QED
    BY <1>1, <2>1, HeadFirst DEF PutNew, Inserted
<1>3. \A a \in Inner : a = <<a[1], a[2]>>
  BY InnerIs
<1>4. M[x].value = v
  BY <1>1 DEF Inserted
<1>5. ASSUME NEW a \in Inner PROVE M[a].value = nodes[a].value
  <2>1. a \in DOMAIN nodes
    BY DEF Inner
  <2>2. QED
    BY <1>1, <2>1 DEF Inserted
<1>6. \A a \in Inner : VersionOf(M, a) = VersionOf(nodes, a)
  BY <1>5 DEF VersionOf
<1>7. VersionOf(M, x) = Node(k, v, t)
  BY <1>4 DEF VersionOf, Node
<1>8. \A a \in Inner : ~(VersionOf(nodes, a).key = k /\ VersionOf(nodes, a).tranc_id = t)
  BY <1>2, <1>3 DEF VersionOf, Inner
<1>9. ContentsOf(M) = {VersionOf(M, a) : a \in Inner \cup {x}} /\ ContentsOf(nodes) = {VersionOf(nodes, a) : a \in Inner}
  BY <1>2 DEF ContentsOf, Inner
<1> HIDE DEF x, M
<1>10. {VersionOf(M, a) : a \in Inner \cup {x}} = {VersionOf(M, a) : a \in Inner} \cup {Node(k, v, t)}
  BY <1>7
<1>11. {VersionOf(M, a) : a \in Inner} = {VersionOf(nodes, a) : a \in Inner}
  BY <1>6
<1>12. {VersionOf(nodes, a) : a \in Inner} =
          {n \in {VersionOf(nodes, a) : a \in Inner} : ~(n.key = k /\ n.tranc_id = t)}
  BY <1>8
<1>13. ContentsOf(M) = TablePut(ContentsOf(nodes), k, v, t)
  BY <1>9, <1>10, <1>11, <1>12 DEF TablePut
<1>14. QED
  BY <1>13 DEF M

LEMMA RemoveTable ==
    ASSUME ListInv, NEW k \in Keys, RemoveFirst(k)
    PROVE  /\ Visible(ContentsOf(nodes), k, 0) # {}
           /\ ContentsOf(nodes') = ContentsOf(nodes) \ {Newest(Visible(ContentsOf(nodes), k, 0))}
<1> DEFINE M == nodes'
<1>1. PICK c \in Inner : Key(c) = k /\ IsFirst(BehindKey(k), c) /\ TakenOut(nodes, M, c)
  BY DEF RemoveFirst
<1>2. \A a \in Inner : a = <<a[1], a[2]>> /\ a[1] \in Nat
  BY InnerIs
<1>3. \A a \in Seen(k, 0) : a \in BehindKey(k) /\ a \in Inner /\ Key(a) = k
  BY <1>2 DEF Seen, BehindKey, Key
<1>4. c \in Seen(k, 0)
  BY <1>1 DEF Seen
<1>5. IsFirst(Seen(k, 0), c)
  BY <1>1, <1>3, <1>4 DEF IsFirst
<1>6. Visible(ContentsOf(nodes), k, 0) = {VersionOf(nodes, a) : a \in Seen(k, 0)}
  BY VisibleIs, ContentsAre
<1>7. Newest(Visible(ContentsOf(nodes), k, 0)) = VersionOf(nodes, c)
  <2>1. Seen(k, 0) \in SUBSET Inner /\ \A a \in Seen(k, 0) : Key(a) = k
    BY <1>3
  <2>2. Newest({VersionOf(nodes, a) : a \in Seen(k, 0)}) = VersionOf(nodes, c)
    BY <1>5, <2>1, FirstIsNewest
  <2>3. QED
    BY <1>6, <2>2
<1>8. ASSUME NEW a \in Inner \ {c} PROVE VersionOf(M, a) = VersionOf(nodes, a)
  <2>1. a \in DOMAIN M
    BY <1>1 DEF Inner, TakenOut
  <2>2. M[a].value = nodes[a].value
    BY <1>1, <2>1 DEF TakenOut
  <2>3. QED
    BY <2>2 DEF VersionOf
<1>9. \A a \in Inner : VersionOf(nodes, a) = VersionOf(nodes, c) => a = c
  <2>1. \A a : VersionOf(nodes, a).key = a[1] /\ VersionOf(nodes, a).tranc_id = a[2]
    BY DEF VersionOf
  <2>2. QED
    BY <1>1, <1>2, <2>1
<1>10. ContentsOf(M) = {VersionOf(M, a) : a \in Inner \ {c}}
       /\ ContentsOf(nodes) = {VersionOf(nodes, a) : a \in Inner}
  BY <1>1 DEF ContentsOf, Inner, TakenOut
<1> HIDE DEF M
<1>11. {VersionOf(M, a) : a \in Inner \ {c}} = {VersionOf(nodes, a) : a \in Inner \ {c}}
  BY <1>8
<1>12. {VersionOf(nodes, a) : a \in Inner \ {c}} =
          {VersionOf(nodes, a) : a \in Inner} \ {VersionOf(nodes, c)}
  BY <1>9
<1>13. ContentsOf(M) = ContentsOf(nodes) \ {VersionOf(nodes, c)}
  BY <1>10, <1>11, <1>12
<1>14. QED
  BY <1>4, <1>6, <1>7, <1>13 DEF M

\* Every step of the list is a step of the table, or leaves it.
LEMMA TableSteps ==
    ASSUME ListInv, [Next]_vars
    PROVE  [Abstract!Next]_Contents
<1>1. Contents = ContentsOf(nodes) /\ Contents' = ContentsOf(nodes')
  <2>1. Contents' = {VersionOf(nodes', a) : a \in DOMAIN nodes' \ {head}}
    BY DEF Contents, Content, VersionOf, Node, Key, Inner
  <2>2. QED
    BY <2>1, ContentsAre DEF ContentsOf
<1>2. ASSUME NEW k \in Keys, NEW v \in Payload, NEW t \in Ids,
             ContentsOf(nodes') = TablePut(ContentsOf(nodes), k, v, t)
      PROVE  Abstract!Next
  <2> DEFINE n == Node(k, v, t)
  <2>1. n \in Contents'
    BY <1>1, <1>2 DEF TablePut
  <2>2. n \in Version
    BY IdsAssumption DEF Node, Version
  <2>3. n.key = k /\ n.value = v /\ n.tranc_id = t
    BY DEF Node
  <2>4. Contents' = TablePut(Contents, k, v, t)
    BY <1>1, <1>2
  <2>5. Abstract!Put(n.key, n.value, n.tranc_id)
    <3> HIDE DEF n
    <3>1. QED
      BY <2>3, <2>4 DEF Abstract!Put, Abstract!TablePut, TablePut, Abstract!Node, Node
  <2> HIDE DEF n
  <2>6. QED
    BY <2>1, <2>2, <2>5 DEF Abstract!Next, Abstract!Version, Version, Abstract!Payload, Payload
<1>3. ASSUME NEW k \in Keys, RemoveFirst(k) PROVE Abstract!Next
  <2>1. Visible(Contents, k, 0) # {} /\ Contents' = Contents \ {Newest(Visible(Contents, k, 0))}
    BY <1>1, <1>3, RemoveTable
  <2>2. Abstract!Remove(k)
    BY <2>1 DEF Abstract!Remove, Abstract!Visible, Visible, Abstract!Newest, Newest
  <2>3. QED
    BY <2>2 DEF Abstract!Next
<1>4. ASSUME Clear PROVE Abstract!Next
  <2>1. DOMAIN nodes' = {head}
    BY <1>4 DEF Clear
  <2>2. ContentsOf(nodes') = {}
    BY <2>1 DEF ContentsOf
  <2>3. QED
    BY <1>1, <2>2 DEF Abstract!Next, Abstract!Clear
<1>5. ASSUME NEW k \in Keys, NEW v \in Payload, NEW t \in Ids, NEW level \in 1..MaxLevel,
             Put(k, v, t, level)
      PROVE  Abstract!Next
  BY <1>2, <1>5, PutSteps, PutOldTable, PutNewTable
<1>6. ASSUME UNCHANGED vars PROVE Contents' = Contents
  BY <1>1, <1>6 DEF vars
<1>7. ASSUME Next PROVE Abstract!Next
  BY <1>3, <1>4, <1>5, <1>7, RemoveSteps DEF Next
<1>8. QED
  BY <1>6, <1>7

\* The list with its levels and links implements the set of versions by which every other module
\* knows it: each put, remove and clear does to the versions what SkipTable says.
THEOREM ListImplementsTable == Spec => ImplementsTable
<1>1. Init => Abstract!Init
  <2> SUFFICES ASSUME Init PROVE Contents = {}
    BY DEF Abstract!Init
  <2>1. DOMAIN nodes = {head}
    BY DEF Init
  <2>2. QED
    BY <2>1 DEF Contents, Inner
<1>2. ListInv /\ [Next]_vars => [Abstract!Next]_Contents
  BY TableSteps
<1>3. QED
  BY <1>1, <1>2, ListAlways, PTL DEF Spec, ImplementsTable, Abstract!Spec

-----------------------------------------------------------------------------
(* The size *)

\* The function by which SizeExact sums up the nodes I of N.
SumsUp(g, N, I) ==
    g = [S \in SUBSET I |->
            IF S = {} THEN 0
            ELSE LET a == CHOOSE x \in S : TRUE
                 IN  Overhead + N[a].value + g[S \ {a}]]

Weighed(N, I) == IsFiniteSet(I) /\ \A a \in I : N[a].value \in Nat

LEMMA ChosenOne ==
    ASSUME NEW I, IsFiniteSet(I), NEW n \in Nat, NEW S \in SUBSET I, S # {}, Cardinality(S) <= n + 1
    PROVE  /\ (CHOOSE x \in S : TRUE) \in S
           /\ \A x \in S : S \ {x} \in SUBSET I /\ Cardinality(S \ {x}) <= n
<1>1. IsFiniteSet(S)
  BY FS_Subset
<1>2. \A x \in S : Cardinality(S \ {x}) = Cardinality(S) - 1
  BY <1>1, FS_RemoveElement
<1>3. Cardinality(S) \in Nat
  BY <1>1, FS_CardinalityType
<1>4. QED
  BY <1>2, <1>3

\* It exists ...
LEMMA SumThere ==
    ASSUME NEW N, NEW I, Weighed(N, I)
    PROVE  \E g \in [SUBSET I -> Nat] : SumsUp(g, N, I)
<1> DEFINE D(n) == {S \in SUBSET I : Cardinality(S) <= n}
           Body(g, S) == IF S = {} THEN 0
                         ELSE Overhead + N[CHOOSE x \in S : TRUE].value
                                       + g[S \ {CHOOSE x \in S : TRUE}]
           Good == {n \in Nat : \E g \in [D(n) -> Nat] : \A S \in D(n) : g[S] = Body(g, S)}
<1>1. 0 \in Good
  <2>1. \A S \in D(0) : S = {}
    <3>1. \A S \in D(0) : IsFiniteSet(S) /\ Cardinality(S) \in Nat /\ Cardinality(S) <= 0
      BY FS_Subset, FS_CardinalityType DEF Weighed
    <3>2. QED
      BY <3>1, FS_EmptySet
  <2>2. [S \in D(0) |-> 0] \in [D(0) -> Nat]
    OBVIOUS
  <2>3. QED
    BY <2>1, <2>2
<1>2. ASSUME NEW n \in Nat, n \in Good PROVE n + 1 \in Good
  <2>1. PICK g \in [D(n) -> Nat] : \A S \in D(n) : g[S] = Body(g, S)
    BY <1>2
  <2> DEFINE h == [S \in D(n + 1) |-> Body(g, S)]
  <2>2. ASSUME NEW S \in D(n + 1), S # {}
        PROVE  /\ (CHOOSE x \in S : TRUE) \in I
               /\ S \ {CHOOSE x \in S : TRUE} \in D(n)
    BY <2>2, ChosenOne DEF Weighed
  <2>3. ASSUME NEW S \in D(n + 1) PROVE Body(g, S) \in Nat
    <3>1. CASE S = {}
      BY <3>1
    <3>2. CASE S # {}
      <4>1. N[CHOOSE x \in S : TRUE].value \in Nat
        BY <2>2, <3>2 DEF Weighed
      <4>2. g[S \ {CHOOSE x \in S : TRUE}] \in Nat
        BY <2>2, <3>2
      <4>3. QED
        BY <3>2, <4>1, <4>2, OverheadAssumption
    <3>3. QED
      BY <3>1, <3>2
  <2>4. \A S \in D(n) : S \in D(n + 1) /\ h[S] = g[S]
    <3>1. \A S \in D(n) : Cardinality(S) \in Nat
      BY FS_Subset, FS_CardinalityType DEF Weighed
    <3>2. \A S \in D(n) : S \in D(n + 1)
      BY <3>1
    <3>3. QED
      BY <2>1, <3>2
  <2>5. ASSUME NEW S \in D(n + 1) PROVE h[S] = Body(h, S)
    <3>1. h[S] = Body(g, S)
      OBVIOUS
    <3>2. CASE S = {}
      BY <3>1, <3>2
    <3>3. CASE S # {}
      <4>1. h[S \ {CHOOSE x \in S : TRUE}] = g[S \ {CHOOSE x \in S : TRUE}]
        BY <2>2, <2>4, <3>3
      <4> HIDE DEF h
      <4>2. QED
        BY <3>1, <4>1
    <3>4. QED
      BY <3>2, <3>3
  <2>6. h \in [D(n + 1) -> Nat]
    BY <2>3
  <2> HIDE DEF h, Body, D
  <2>7. \E f \in [D(n + 1) -> Nat] : \A S \in D(n + 1) : f[S] = Body(f, S)
    BY <2>5, <2>6
  <2>8. QED
    BY <2>7
<1>3. Nat \subseteq Good
  <2> HIDE DEF Good
  <2>1. QED
    BY <1>1, <1>2, Common!InductionSet
<1>4. Cardinality(I) \in Good
  BY <1>3, FS_CardinalityType DEF Weighed
<1>5. D(Cardinality(I)) = SUBSET I
  BY FS_Subset DEF Weighed
<1>6. PICK g \in [SUBSET I -> Nat] : \A S \in SUBSET I : g[S] = Body(g, S)
  BY <1>4, <1>5
<1>7. g = [S \in SUBSET I |-> Body(g, S)]
  <2> HIDE DEF Body
  <2>1. QED
    BY <1>6
<1>8. QED
  BY <1>7 DEF SumsUp

\* ... and adds up the nodes one by one, whichever is taken first.
LEMMA SumAdds ==
    ASSUME NEW N, NEW I, Weighed(N, I), NEW g, SumsUp(g, N, I)
    PROVE  \A S \in SUBSET I : /\ S = {} => g[S] = 0
                               /\ g[S] \in Nat
                               /\ \A x \in S : g[S] = Overhead + N[x].value + g[S \ {x}]
<1> DEFINE Adds(S) == /\ S = {} => g[S] = 0
                      /\ g[S] \in Nat
                      /\ \A x \in S : g[S] = Overhead + N[x].value + g[S \ {x}]
           D(n) == {S \in SUBSET I : Cardinality(S) <= n}
           Good == {n \in Nat : \A S \in D(n) : Adds(S)}
           ch(S) == CHOOSE x \in S : TRUE
<1>1. \A S \in SUBSET I : IsFiniteSet(S) /\ Cardinality(S) \in Nat
  BY FS_Subset, FS_CardinalityType DEF Weighed
<1>2. g[{}] = 0
  BY DEF SumsUp
<1>3. \A S \in SUBSET I : S # {} => g[S] = Overhead + N[ch(S)].value + g[S \ {ch(S)}]
  BY DEF SumsUp
<1>4. \A a \in I : N[a].value \in Nat
  BY DEF Weighed
<1>5. 0 \in Good
  <2>1. \A S \in D(0) : S = {}
    BY <1>1, FS_EmptySet
  <2>2. Adds({})
    BY <1>2
  <2> HIDE DEF Adds
  <2>3. QED
    BY <2>1, <2>2
<1>6. ASSUME NEW n \in Nat, n \in Good PROVE n + 1 \in Good
  <2>1. SUFFICES ASSUME NEW S \in D(n + 1) PROVE Adds(S)
    OBVIOUS
  <2>2. CASE S = {}
    BY <1>2, <2>2
  <2>3. CASE S # {}
    <3> DEFINE y == ch(S)
    <3>1. y \in S /\ \A x \in S : S \ {x} \in D(n)
      BY <2>3, ChosenOne DEF Weighed
    <3>2. \A x \in S : Adds(S \ {x})
      BY <1>6, <3>1
    <3>3. g[S] = Overhead + N[y].value + g[S \ {y}]
      BY <1>3, <2>3
    <3> HIDE DEF y
    <3>4. g[S] \in Nat
      <4>1. g[S \ {y}] \in Nat /\ N[y].value \in Nat
        BY <1>4, <3>1, <3>2
      <4>2. QED
        BY <3>3, <4>1, OverheadAssumption
    <3>5. ASSUME NEW x \in S PROVE g[S] = Overhead + N[x].value + g[S \ {x}]
      <4>1. CASE x = y
        BY <3>3, <4>1
      <4>2. CASE x # y
        <5>1. g[S \ {y}] = Overhead + N[x].value + g[(S \ {y}) \ {x}]
          BY <3>1, <3>2, <4>2
        <5>2. g[S \ {x}] = Overhead + N[y].value + g[(S \ {x}) \ {y}]
          BY <3>1, <3>2, <4>2
        <5>3. (S \ {y}) \ {x} = (S \ {x}) \ {y}
          OBVIOUS
        <5>4. N[x].value \in Nat /\ N[y].value \in Nat /\ g[S \ {y}] \in Nat /\ g[S \ {x}] \in Nat
          BY <1>4, <3>1, <3>2
        <5>5. ((S \ {y}) \ {x}) \in SUBSET I /\ Adds(S \ {y})
          BY <3>1, <3>2
        <5>6. g[(S \ {y}) \ {x}] \in Nat
          <6>1. (S \ {y}) \ {x} \in D(n)
            <7>1. Cardinality(S \ {y}) <= n /\ x \in S \ {y} /\ S \ {y} \in SUBSET I
              BY <3>1, <4>2
            <7>2. IsFiniteSet(S \ {y}) /\ Cardinality(S \ {y}) \in Nat
              BY <1>1, <7>1
            <7>3. Cardinality((S \ {y}) \ {x}) = Cardinality(S \ {y}) - 1
              BY <7>1, <7>2, FS_RemoveElement
            <7>4. QED
              BY <5>5, <7>1, <7>2, <7>3
          <6>2. QED
            BY <1>6, <6>1
        <5>7. QED
          BY <3>3, <5>1, <5>2, <5>3, <5>4, <5>6, OverheadAssumption
      <4>3. QED
        BY <4>1, <4>2
    <3>6. QED
      BY <2>3, <3>4, <3>5
  <2>4. QED
    BY <2>2, <2>3
<1>7. Nat \subseteq Good
  <2> HIDE DEF Good
  <2>1. QED
    BY <1>5, <1>6, Common!InductionSet
<1>8. \A S \in SUBSET I : S \in D(Cardinality(S)) /\ Cardinality(S) \in Good
  BY <1>1, <1>7
<1>9. QED
  BY <1>8

\* Two sums agree on nodes of the same values.
LEMMA SumsAgree ==
    ASSUME NEW N, NEW I, Weighed(N, I), NEW g, SumsUp(g, N, I),
           NEW M, NEW J, Weighed(M, J), NEW h, SumsUp(h, M, J),
           NEW T, T \in SUBSET I, T \in SUBSET J, \A a \in T : M[a].value = N[a].value
    PROVE  h[T] = g[T]
<1> DEFINE D(n) == {S \in SUBSET T : Cardinality(S) <= n}
           Good == {n \in Nat : \A S \in D(n) : h[S] = g[S]}
<1>1. \A S \in SUBSET T : IsFiniteSet(S) /\ Cardinality(S) \in Nat
  BY FS_Subset, FS_CardinalityType DEF Weighed
<1>2. g[{}] = 0 /\ h[{}] = 0
  BY DEF SumsUp
<1>3. IsFiniteSet(T)
  BY FS_Subset DEF Weighed
<1>4. \A S \in SUBSET I : /\ S = {} => g[S] = 0
                         /\ g[S] \in Nat
                         /\ \A x \in S : g[S] = Overhead + N[x].value + g[S \ {x}]
  BY SumAdds
<1>5. \A S \in SUBSET J : /\ S = {} => h[S] = 0
                          /\ h[S] \in Nat
                          /\ \A x \in S : h[S] = Overhead + M[x].value + h[S \ {x}]
  BY SumAdds
<1>6. 0 \in Good
  <2>1. \A S \in D(0) : S = {}
    BY <1>1, FS_EmptySet
  <2>2. QED
    BY <1>2, <2>1
<1>7. ASSUME NEW n \in Nat, n \in Good PROVE n + 1 \in Good
  <2>1. SUFFICES ASSUME NEW S \in D(n + 1), S # {} PROVE h[S] = g[S]
    BY <1>2
  <2>2. PICK x \in S : S \ {x} \in D(n)
    BY <1>3, <2>1, ChosenOne
  <2>3. h[S \ {x}] = g[S \ {x}]
    BY <1>7, <2>2
  <2>4. h[S] = Overhead + M[x].value + h[S \ {x}]
    <3>1. S \in SUBSET J
      OBVIOUS
    <3>2. QED
      BY <1>5, <2>2, <3>1
  <2>5. g[S] = Overhead + N[x].value + g[S \ {x}]
    <3>1. S \in SUBSET I
      OBVIOUS
    <3>2. QED
      BY <1>4, <2>2, <3>1
  <2>6. M[x].value = N[x].value
    BY <2>2
  <2>7. QED
    BY <2>3, <2>4, <2>5, <2>6
<1>8. Nat \subseteq Good
  <2> HIDE DEF Good
  <2>1. QED
    BY <1>6, <1>7, Common!InductionSet
<1>9. T \in D(Cardinality(T)) /\ Cardinality(T) \in Good
  BY <1>1, <1>8
<1>10. QED
  BY <1>9

\* The size of the nodes.
SizeOf(N) ==
    LET sum[S \in SUBSET (DOMAIN N \ {head})] ==
            IF S = {} THEN 0
            ELSE LET a == CHOOSE x \in S : TRUE
                 IN  Overhead + N[a].value + sum[S \ {a}]
    IN  sum[DOMAIN N \ {head}]

LEMMA SizeIs ==
    ASSUME NEW N, NEW top, Shape(N, top)
    PROVE  /\ Weighed(N, DOMAIN N \ {head})
           /\ \E g : SumsUp(g, N, DOMAIN N \ {head}) /\ SizeOf(N) = g[DOMAIN N \ {head}]
<1> DEFINE I == DOMAIN N \ {head}
           s == CHOOSE g : SumsUp(g, N, I)
<1>1. Weighed(N, I)
  <2>1. IsFiniteSet(I)
    BY FS_RemoveElement DEF Shape
  <2>2. \A a \in I : N[a].value \in Payload
    BY DEF Shape, NodeOK
  <2>3. Payload \subseteq Nat
    BY ValuesAssumption DEF Payload
  <2>4. QED
    BY <2>1, <2>2, <2>3 DEF Weighed
<1>2. SumsUp(s, N, I)
  <2> HIDE DEF I
  <2>1. \E g : SumsUp(g, N, I)
    BY <1>1, SumThere
  <2>2. QED
    BY <2>1
<1>3. SizeOf(N) = s[I]
  BY DEF SizeOf, SumsUp
<1>4. QED
  BY <1>1, <1>2, <1>3

SizeInv == size_bytes = SizeOf(nodes)

LEMMA SizeNat ==
    ASSUME NEW N, NEW top, Shape(N, top)
    PROVE  SizeOf(N) \in Nat
<1> DEFINE I == DOMAIN N \ {head}
<1>1. PICK g : SumsUp(g, N, I) /\ SizeOf(N) = g[I]
  BY SizeIs
<1>2. Weighed(N, I)
  BY SizeIs
<1> HIDE DEF I
<1>3. \A S \in SUBSET I : g[S] \in Nat
  BY <1>1, <1>2, SumAdds
<1>4. QED
  BY <1>1, <1>3

LEMMA SizeSteps ==
    ASSUME ListInv, ListInv', SizeInv, [Next]_vars
    PROVE  SizeInv'
<1> DEFINE M == nodes'
           I == DOMAIN nodes \ {head}
           J == DOMAIN M \ {head}
<1>1. SUFFICES ASSUME Next PROVE size_bytes' = SizeOf(nodes')
  BY DEF SizeInv, vars
<1>2. PICK g : SumsUp(g, nodes, I) /\ SizeOf(nodes) = g[I] /\ Weighed(nodes, I)
  BY SizeIs DEF ListInv
<1>3. Shape(nodes', current_level')
  BY DEF ListInv
<1>4. PICK h : SumsUp(h, M, J) /\ SizeOf(M) = h[J] /\ Weighed(M, J)
  BY <1>3, SizeIs
<1>5. size_bytes = g[I]
  BY <1>2 DEF SizeInv
<1>6. /\ \A S \in SUBSET I : g[S] \in Nat /\ \A x \in S : g[S] = Overhead + nodes[x].value + g[S \ {x}]
      /\ \A S \in SUBSET J : h[S] \in Nat /\ \A x \in S : h[S] = Overhead + M[x].value + h[S \ {x}]
      /\ h[{}] = 0
  <2> HIDE DEF I, J, M
  <2>1. \A S \in SUBSET I : g[S] \in Nat /\ \A x \in S : g[S] = Overhead + nodes[x].value + g[S \ {x}]
    BY <1>2, SumAdds
  <2>2. \A S \in SUBSET J : /\ S = {} => h[S] = 0
                          /\ h[S] \in Nat
                          /\ \A x \in S : h[S] = Overhead + M[x].value + h[S \ {x}]
    BY <1>4, SumAdds
  <2>3. h[{}] = 0
    BY <2>2
  <2>4. QED
    BY <2>1, <2>2, <2>3
<1>7. \A x \in I : nodes[x].value \in Nat
  BY <1>2 DEF Weighed
<1>8. \A x \in J : M[x].value \in Nat
  BY <1>4 DEF Weighed
<1>9. SUFFICES size_bytes' = h[J]
  BY <1>4
<1>10. Inner = I
  BY DEF Inner
<1>11. ASSUME NEW T \in SUBSET I, T \in SUBSET J, \A a \in T : M[a].value = nodes[a].value
       PROVE  h[T] = g[T]
  BY <1>2, <1>4, <1>11, SumsAgree
<1>12. ASSUME NEW k \in Keys, NEW v \in Payload, NEW t \in Ids, PutOld(k, v, t)
       PROVE  size_bytes' = h[J]
  <2> DEFINE x == <<k, t>>
  <2>1. x \in I /\ M = [nodes EXCEPT ![x].value = v] /\ size_bytes' = size_bytes - (nodes[x].value - v)
    BY <1>10, <1>12 DEF PutOld
  <2> HIDE DEF x
  <2>2. J = I /\ x \in DOMAIN nodes
    BY <2>1
  <2>3. \A a \in I \ {x} : M[a].value = nodes[a].value
    BY <2>1
  <2>4. M[x].value = v
    <3>1. nodes[x] = [value |-> nodes[x].value, forward |-> nodes[x].forward, backward |-> nodes[x].backward]
      BY <2>2 DEF ListInv, Shape, NodeOK
    <3>2. M[x] = [nodes[x] EXCEPT !.value = v]
      BY <2>1, <2>2
    <3> HIDE DEF M
    <3>3. QED
      BY <3>1, <3>2
  <2> HIDE DEF M, I, J
  <2>5. h[I \ {x}] = g[I \ {x}]
    BY <1>11, <2>2, <2>3
  <2>6. g[I] = Overhead + nodes[x].value + g[I \ {x}] /\ h[I] = Overhead + v + h[I \ {x}]
    BY <1>6, <2>1, <2>2, <2>4
  <2>7. g[I \ {x}] \in Nat /\ nodes[x].value \in Nat /\ v \in Nat
    BY <1>6, <1>7, <1>8, <2>1, <2>2, <2>4
  <2>8. QED
    BY <1>5, <2>1, <2>2, <2>5, <2>6, <2>7, OverheadAssumption
<1>13. ASSUME NEW k \in Keys, NEW v \in Payload, NEW t \in Ids, NEW level, PutNew(k, v, t, level)
       PROVE  size_bytes' = h[J]
  <2> DEFINE x == <<k, t>>
  <2>1. x \notin DOMAIN nodes /\ size_bytes' = size_bytes + Overhead + v
    BY <1>13 DEF PutNew
  <2>2. DOMAIN M = DOMAIN nodes \cup {x} /\ M[x].value = v
        /\ \A a \in DOMAIN nodes : M[a].value = nodes[a].value
    BY <1>13 DEF PutNew, Inserted
  <2>3. x # head
    BY HeadFirst DEF Address
  <2> HIDE DEF x
  <2>4. J = I \cup {x} /\ J \ {x} = I /\ x \in J
    BY <2>1, <2>2, <2>3
  <2>5. \A a \in I : M[a].value = nodes[a].value
    BY <2>2
  <2> HIDE DEF M, I, J
  <2>6. h[I] = g[I]
    BY <1>11, <2>4, <2>5
  <2>7. h[J] = Overhead + v + h[I]
    BY <1>6, <2>2, <2>4
  <2>8. g[I] \in Nat /\ v \in Nat
    BY <1>6, <1>8, <2>2, <2>4
  <2>9. QED
    BY <1>5, <2>1, <2>6, <2>7, <2>8, OverheadAssumption
<1>14. ASSUME NEW k \in Keys, RemoveFirst(k)
       PROVE  size_bytes' = h[J]
  <2>1. PICK x \in I : TakenOut(nodes, M, x) /\ size_bytes' = size_bytes - (Overhead + nodes[x].value)
    BY <1>10, <1>14 DEF RemoveFirst
  <2>2. DOMAIN M = DOMAIN nodes \ {x} /\ \A a \in DOMAIN M : M[a].value = nodes[a].value
    BY <2>1 DEF TakenOut
  <2>3. J = I \ {x}
    BY <2>2
  <2>4. \A a \in J : M[a].value = nodes[a].value
    BY <2>2
  <2> HIDE DEF M, I, J
  <2>5. h[J] = g[J]
    BY <1>11, <2>3, <2>4
  <2>6. g[I] = Overhead + nodes[x].value + g[J] /\ g[J] \in Nat /\ nodes[x].value \in Nat
    BY <1>6, <1>7, <2>1, <2>3
  <2>7. QED
    BY <1>5, <2>1, <2>5, <2>6, OverheadAssumption
<1>15. ASSUME Clear PROVE size_bytes' = h[J]
  <2>1. J = {} /\ size_bytes' = 0
    BY <1>15 DEF Clear
  <2>2. QED
    BY <1>6, <2>1
<1>16. ASSUME NEW k \in Keys, NEW v \in Payload, NEW t \in Ids, NEW level \in 1..MaxLevel,
              Put(k, v, t, level)
       PROVE  size_bytes' = h[J]
  BY <1>12, <1>13, <1>16, PutSteps
<1>17. ASSUME NEW k \in Keys, Remove(k) PROVE size_bytes' = h[J]
  BY <1>14, <1>17, RemoveSteps
<1>18. QED
  BY <1>1, <1>15, <1>16, <1>17 DEF Next

LEMMA SizeInit == Init => SizeInv
<1> SUFFICES ASSUME Init PROVE SizeInv
  OBVIOUS
<1>1. ListInv
  BY ListInit
<1>2. DOMAIN nodes \ {head} = {} /\ size_bytes = 0
  BY DEF Init
<1>3. PICK g : SumsUp(g, nodes, DOMAIN nodes \ {head}) /\ SizeOf(nodes) = g[DOMAIN nodes \ {head}]
  BY <1>1, SizeIs DEF ListInv
<1>4. g[{}] = 0
  BY <1>3 DEF SumsUp
<1>5. QED
  BY <1>2, <1>3, <1>4 DEF SizeInv

LEMMA SizeAlways == Spec => [](ListInv /\ SizeInv)
<1>1. ListInv /\ ListInv' /\ SizeInv /\ [Next]_vars => SizeInv'
  BY SizeSteps
<1>2. QED
  BY <1>1, SizeInit, ListAlways, PTL DEF Spec

\* The bytes counted are those of the nodes that are there, whatever was overwritten, removed and
\* cleared: the counter by which tables freeze and flush never drifts, nor wraps below zero.
THEOREM SizeAlwaysExact == Spec => []SizeExact
<1>1. SizeInv => SizeExact
  BY DEF SizeInv, SizeOf, SizeExact, Inner
<1>2. QED
  BY <1>1, SizeAlways, PTL

\* The nodes and links keep their types, and the size is a natural.
THEOREM ListTypes == Spec => []TypeOK
<1>1. ASSUME ListInv, SizeInv PROVE TypeOK
  <2>1. size_bytes \in Nat
    BY <1>1, SizeNat DEF ListInv, SizeInv
  <2>2. /\ head \in DOMAIN nodes /\ DOMAIN nodes \subseteq Places
        /\ LevelOf(head) = MaxLevel /\ current_level \in 1..MaxLevel
    BY <1>1, Reaches DEF ListInv, Shape
  <2>3. ASSUME NEW a \in DOMAIN nodes
        PROVE  /\ nodes[a] \in [value : Payload, forward : Seq({Null} \cup Address),
                                backward : Seq({Null, head} \cup Address)]
               /\ Len(nodes[a].backward) = LevelOf(a)
               /\ LevelOf(a) \in 1..(IF a = head THEN MaxLevel ELSE current_level)
    <3> DEFINE n == LevelOf(a)
               d == nodes[a]
    <3>1. NodeOK(d, n) /\ (a # head => n <= current_level) /\ (a = head => n = MaxLevel)
      BY <1>1, <2>2, <2>3, Reaches DEF ListInv, Shape
    <3> HIDE DEF n, d
    <3>2. n \in 1..MaxLevel /\ n \in Nat
      BY <3>1, LevelAssumption DEF NodeOK
    <3>3. d.forward \in Seq({Null} \cup Address)
      BY <3>1, <3>2, LinksSeq DEF NodeOK
    <3>4. d.backward \in Seq(Link) /\ Len(d.backward) = n
      BY <3>1, <3>2, LinksSeq DEF NodeOK
    <3>5. Link = {Null, head} \cup Address
      BY DEF Link, Places
    <3>6. d \in [value : Payload, forward : Seq({Null} \cup Address),
                 backward : Seq({Null, head} \cup Address)]
      BY <3>1, <3>3, <3>4, <3>5 DEF NodeOK
    <3>7. n \in 1..(IF a = head THEN MaxLevel ELSE current_level)
      BY <2>2, <3>1, <3>2
    <3>8. QED
      BY <3>4, <3>6, <3>7 DEF n, d
  <2>4. QED
    BY <2>1, <2>2, <2>3 DEF TypeOK, Places
<1>2. QED
  BY <1>1, SizeAlways, PTL

\* Whatever was put, removed and cleared, every level is the list of the nodes that reach it, in
\* order, forward and backward: for every number of levels, and of nodes.
THEOREM LevelsAgree == Spec => []LinksAgree
<1>1. ListInv /\ TypeOK => LinksAgree
  BY LevelsListedHolds DEF LinksAgree
<1>2. QED
  BY <1>1, ListAlways, ListTypes, PTL

-----------------------------------------------------------------------------
(* Flush *)

\* x and the nodes behind it.
Rest(x) == {y \in Inner : x # Null /\ (y = x \/ Before(x, y))}

\* s has each node of T once, in order.
Ordered(s, T) ==
    /\ s \in Seq(Address) /\ \A i \in 1..Len(s) : s[i] \in T
    /\ \A y \in T : \E i \in 1..Len(s) : s[i] = y
    /\ \A i, j \in 1..Len(s) : i < j => Before(s[i], s[j])

LEMMA OrderedMore ==
    ASSUME NEW x \in Address, NEW T \in SUBSET Address, NEW s, Ordered(s, T),
           \A y \in T : Before(x, y)
    PROVE  Ordered(<<x>> \o s, {x} \cup T)
<1> DEFINE z == <<x>> \o s
<1>1. s \in Seq(Address) /\ Len(s) \in Nat
  BY DEF Ordered
<1>2. /\ z \in Seq(Address) /\ Len(z) = Len(s) + 1
      /\ \A i \in 1..(Len(s) + 1) : z[i] = IF i = 1 THEN x ELSE s[i - 1]
  BY <1>1
<1> HIDE DEF z
<1>3. /\ \A i \in 1..Len(s) : s[i] \in T
      /\ \A y \in T : \E i \in 1..Len(s) : s[i] = y
      /\ \A i, j \in 1..Len(s) : i < j => Before(s[i], s[j])
  BY DEF Ordered
<1>4. \A i \in 1..Len(z) : i = 1 \/ (i - 1 \in 1..Len(s) /\ z[i] = s[i - 1])
  BY <1>1, <1>2
<1>5. z[1] = x /\ 1 \in 1..Len(z)
  BY <1>1, <1>2
<1>6. \A i \in 1..Len(z) : z[i] \in {x} \cup T
  BY <1>3, <1>4, <1>5
<1>7. ASSUME NEW y \in {x} \cup T PROVE \E i \in 1..Len(z) : z[i] = y
  <2>1. CASE y = x
    BY <1>5, <2>1
  <2>2. CASE y \in T
    <3>1. PICK i \in 1..Len(s) : s[i] = y
      BY <1>3, <2>2
    <3>2. i + 1 \in 1..Len(z) /\ i + 1 # 1 /\ (i + 1) - 1 = i
      BY <1>1, <1>2
    <3>3. z[i + 1] = y
      BY <1>2, <3>1, <3>2
    <3>4. QED
      BY <3>2, <3>3
  <2>3. QED
    BY <2>1, <2>2
<1>8. ASSUME NEW i \in 1..Len(z), NEW j \in 1..Len(z), i < j PROVE Before(z[i], z[j])
  <2>1. j # 1 /\ j - 1 \in 1..Len(s) /\ z[j] = s[j - 1]
    BY <1>1, <1>2, <1>4, <1>8
  <2>2. CASE i = 1
    BY <1>3, <1>5, <2>1, <2>2
  <2>3. CASE i # 1
    <3>1. i - 1 \in 1..Len(s) /\ z[i] = s[i - 1] /\ i - 1 < j - 1
      BY <1>1, <1>2, <1>4, <1>8, <2>3
    <3>2. QED
      BY <1>3, <2>1, <3>1
  <2>4. QED
    BY <2>2, <2>3
<1>9. Ordered(z, {x} \cup T)
  BY <1>2, <1>6, <1>7, <1>8 DEF Ordered
<1>10. QED
  BY <1>9 DEF z

\* The lowest level leads from each node to the rest behind it.
LEMMA NextRest ==
    ASSUME ListInv
    PROVE  /\ \A x \in Inner : /\ Forward(x, 1) \in Inner \cup {Null} /\ x \in Rest(x)
                               /\ Rest(Forward(x, 1)) = Rest(x) \ {x}
                               /\ \A y \in Rest(Forward(x, 1)) : Before(x, y)
           /\ Forward(head, 1) \in Inner \cup {Null} /\ Rest(Forward(head, 1)) = Inner
           /\ \A x : IsFiniteSet(Rest(x)) /\ Rest(x) \in SUBSET Address
           /\ Rest(Null) = {}
<1> DEFINE D == Reaching(1)
           f == [a \in D |-> Forward(a, 1)]
           b == [a \in D |-> Backward(a, 1)]
<1>1. 1 \in 1..MaxLevel
  BY LevelAssumption
<1>2. D \in SUBSET Places /\ IsFiniteSet(D) /\ head \in D /\ Chain(D, f, b)
  BY <1>1, LevelFacts
<1>3. D = Inner \cup {head} /\ head \notin Inner
  <2>1. Shape(nodes, current_level)
    BY DEF ListInv
  <2>2. On(nodes, 1) = DOMAIN nodes
    BY <2>1, LevelsOf
  <2>3. D = DOMAIN nodes
    BY <2>2, Reaches
  <2>4. QED
    BY <1>2, <2>3 DEF Inner
<1>4. Inner \in SUBSET Address /\ Inner \in SUBSET Places /\ \A a \in Inner : a # Null
  BY InnerIs
<1>5. \A a \in D : f[a] = Forward(a, 1)
  OBVIOUS
<1>6. ASSUME NEW a \in D PROVE Follows(D, a, Forward(a, 1))
  <2>1. Follows(D, a, f[a])
    BY <1>2 DEF Chain
  <2>2. QED
    BY <1>5, <2>1
<1> HIDE DEF D, f, b
<1>7. \A a \in Inner : Before(head, a) /\ ~Before(a, head) /\ a # head
  <2>1. \A a \in Inner : Before(head, a) /\ a # head
    BY <1>4, HeadFirst
  <2>2. QED
    BY <1>4, <2>1, HeadFirst, BeforeOrder
<1>8. ASSUME NEW a \in D
      PROVE  /\ Forward(a, 1) \in Inner \cup {Null}
             /\ Rest(Forward(a, 1)) = {y \in Inner : Before(a, y)}
  <2> DEFINE n == Forward(a, 1)
  <2>1. Follows(D, a, n) /\ a \in Places
    BY <1>2, <1>6
  <2> HIDE DEF n
  <2>2. CASE n = Null
    <3>1. \A y \in Inner : ~Before(a, y)
      BY <1>3, <2>1, <2>2 DEF Follows
    <3>2. QED
      BY <2>2, <3>1 DEF Rest, n
  <2>3. CASE n # Null
    <3>1. n \in D /\ Before(a, n) /\ \A y \in D : Before(a, y) => y = n \/ Before(n, y)
      BY <2>1, <2>3 DEF Follows
    <3>2. n # head
      <4>1. \A y \in Places : ~Before(y, head)
        BY HeadFirst, BeforeOrder DEF Places
      <4>2. QED
        BY <2>1, <3>1, <4>1
    <3>3. n \in Inner /\ n \in Places
      BY <1>3, <1>4, <3>1, <3>2
    <3>4. \A y \in Inner : Before(n, y) => Before(a, y)
      BY <1>4, <2>1, <3>1, <3>3, BeforeOrder
    <3>5. \A y \in Inner : Before(a, y) <=> y = n \/ Before(n, y)
      BY <1>3, <3>1, <3>4
    <3>6. Rest(n) = {y \in Inner : Before(a, y)}
      BY <2>3, <3>5 DEF Rest
    <3>7. QED
      BY <3>3, <3>6 DEF n
  <2>4. QED
    BY <2>2, <2>3
<1>9. ASSUME NEW x \in Inner
      PROVE  /\ Forward(x, 1) \in Inner \cup {Null} /\ x \in Rest(x)
             /\ Rest(Forward(x, 1)) = Rest(x) \ {x}
             /\ \A y \in Rest(Forward(x, 1)) : Before(x, y)
  <2>1. Rest(Forward(x, 1)) = {y \in Inner : Before(x, y)} /\ Forward(x, 1) \in Inner \cup {Null}
    BY <1>3, <1>8
  <2>2. ~Before(x, x) /\ x # Null
    BY <1>4, BeforeOrder
  <2>3. Rest(x) \ {x} = {y \in Inner : Before(x, y)} /\ x \in Rest(x)
    BY <2>2 DEF Rest
  <2>4. QED
    BY <2>1, <2>3
<1>10. Forward(head, 1) \in Inner \cup {Null} /\ Rest(Forward(head, 1)) = Inner
  BY <1>2, <1>7, <1>8
<1>11. IsFiniteSet(Inner)
  BY <1>2, <1>3, FS_Subset
<1>12. ASSUME NEW x PROVE IsFiniteSet(Rest(x)) /\ Rest(x) \in SUBSET Address
  <2>1. Rest(x) \subseteq Inner
    BY DEF Rest
  <2>2. QED
    BY <1>4, <1>11, <2>1, FS_Subset
<1>13. Rest(Null) = {}
  BY DEF Rest
<1>14. QED
  BY <1>9, <1>10, <1>12, <1>13

\* The recursion of ListFrom.
IsList(g) ==
    g = [x \in Inner \cup {Null} |-> IF x = Null THEN <<>> ELSE <<x>> \o g[Forward(x, 1)]]

Few(n) == {x \in Inner \cup {Null} : Cardinality(Rest(x)) <= n}

LEMMA FewMore ==
    ASSUME ListInv, NEW n \in Nat
    PROVE  /\ Few(n) \subseteq Few(n + 1) /\ Null \in Few(n)
           /\ \A x \in Few(n + 1) : x # Null => x \in Inner /\ Forward(x, 1) \in Few(n)
           /\ \A x \in Few(0) : x = Null
<1>1. /\ \A x \in Inner : /\ Forward(x, 1) \in Inner \cup {Null} /\ x \in Rest(x)
                          /\ Rest(Forward(x, 1)) = Rest(x) \ {x}
      /\ \A x : IsFiniteSet(Rest(x))
      /\ Rest(Null) = {}
  BY NextRest
<1>2. \A x : Cardinality(Rest(x)) \in Nat
  BY <1>1, FS_CardinalityType
<1>3. \A x \in Inner : Cardinality(Rest(x) \ {x}) = Cardinality(Rest(x)) - 1
  BY <1>1, FS_RemoveElement
<1>4. Cardinality({}) = 0
  BY FS_EmptySet
<1>5. Null \in Few(n)
  BY <1>1, <1>4 DEF Few
<1>6. Few(n) \subseteq Few(n + 1)
  BY <1>2 DEF Few
<1>7. ASSUME NEW x \in Few(n + 1), x # Null PROVE x \in Inner /\ Forward(x, 1) \in Few(n)
  <2>1. x \in Inner /\ Cardinality(Rest(x)) <= n + 1
    BY <1>7 DEF Few
  <2>2. Cardinality(Rest(Forward(x, 1))) = Cardinality(Rest(x)) - 1
    BY <1>1, <1>3, <2>1
  <2>3. Cardinality(Rest(x)) \in Nat
    BY <1>2
  <2>4. Cardinality(Rest(Forward(x, 1))) <= n
    BY <2>1, <2>2, <2>3
  <2>5. QED
    BY <1>1, <2>1, <2>4 DEF Few
<1>8. ASSUME NEW x \in Few(0) PROVE x = Null
  <2>1. SUFFICES ASSUME x \in Inner PROVE FALSE
    BY DEF Few
  <2>2. Cardinality(Rest(x)) = 0
    BY <1>2 DEF Few
  <2>3. Rest(x) = {}
    BY <1>1, <2>2, FS_EmptySet
  <2>4. QED
    BY <1>1, <2>1, <2>3
<1>9. QED
  BY <1>5, <1>6, <1>7, <1>8

LEMMA ListThere ==
    ASSUME ListInv
    PROVE  \E g : IsList(g)
<1> DEFINE Body(g, x) == IF x = Null THEN <<>> ELSE <<x>> \o g[Forward(x, 1)]
           Good == {n \in Nat : \E g : \A x \in Few(n) : g[x] = Body(g, x)}
<1>1. 0 \in Good
  <2>1. \A x \in Few(0) : x = Null
    BY FewMore
  <2>2. \A x \in Few(0) : [y \in {Null} |-> <<>>][x] = Body([y \in {Null} |-> <<>>], x)
    BY <2>1
  <2>3. QED
    BY <2>2
<1>2. ASSUME NEW n \in Nat, n \in Good PROVE n + 1 \in Good
  <2>1. PICK g : \A x \in Few(n) : g[x] = Body(g, x)
    BY <1>2
  <2> DEFINE h == [x \in Few(n + 1) |-> Body(g, x)]
  <2>2. \A x \in Few(n + 1) : h[x] = Body(g, x)
    OBVIOUS
  <2> HIDE DEF h
  <2>3. /\ Few(n) \subseteq Few(n + 1)
        /\ \A x \in Few(n + 1) : x # Null => x \in Inner /\ Forward(x, 1) \in Few(n)
    BY FewMore
  <2>4. \A x \in Few(n) : h[x] = g[x]
    <3> HIDE DEF Body
    <3>1. QED
      BY <2>1, <2>2, <2>3
  <2>5. \A x \in Few(n + 1) : Body(h, x) = Body(g, x)
    BY <2>3, <2>4
  <2>6. \A x \in Few(n + 1) : h[x] = Body(h, x)
    <3> HIDE DEF Body
    <3>1. QED
      BY <2>2, <2>5
  <2> HIDE DEF Body
  <2>7. QED
    BY <2>6
<1>3. Nat \subseteq Good
  <2> HIDE DEF Good
  <2>1. QED
    BY <1>1, <1>2, Common!InductionSet
<1>4. IsFiniteSet(Inner)
  <2>1. Rest(Forward(head, 1)) = Inner /\ IsFiniteSet(Rest(Forward(head, 1)))
    BY NextRest
  <2>2. QED
    BY <2>1
<1>5. Cardinality(Inner) \in Good
  BY <1>3, <1>4, FS_CardinalityType
<1>6. Few(Cardinality(Inner)) = Inner \cup {Null}
  <2>1. \A x : Rest(x) \subseteq Inner
    BY DEF Rest
  <2>2. \A x : Cardinality(Rest(x)) <= Cardinality(Inner)
    BY <1>4, <2>1, FS_Subset
  <2>3. QED
    BY <2>2 DEF Few
<1>7. PICK g : \A x \in Inner \cup {Null} : g[x] = Body(g, x)
  BY <1>5, <1>6
<1> DEFINE h == [x \in Inner \cup {Null} |-> g[x]]
<1>8. \A x \in Inner \cup {Null} : h[x] = Body(h, x)
  <2>1. \A x \in Inner : Forward(x, 1) \in Inner \cup {Null}
    BY NextRest
  <2>2. QED
    BY <1>7, <2>1
<1>9. h = [x \in Inner \cup {Null} |-> h[x]]
  OBVIOUS
<1> HIDE DEF h
<1>10. h = [x \in Inner \cup {Null} |-> Body(h, x)]
  <2> HIDE DEF Body
  <2>1. QED
    BY <1>8, <1>9
<1>11. QED
  BY <1>10 DEF IsList

LEMMA ListOrdered ==
    ASSUME ListInv, NEW g, IsList(g), NEW a \in Inner \cup {Null}
    PROVE  Ordered(g[a], Rest(a))
<1> DEFINE Good == {n \in Nat : \A x \in Few(n) : Ordered(g[x], Rest(x))}
<1>1. Null \in Inner \cup {Null} /\ g[Null] = <<>>
  BY DEF IsList
<1>2. \A x \in Inner : x # Null => g[x] = <<x>> \o g[Forward(x, 1)]
  BY DEF IsList
<1>3. Ordered(g[Null], Rest(Null))
  <2>1. Rest(Null) = {}
    BY NextRest
  <2>2. QED
    BY <1>1, <2>1 DEF Ordered
<1>4. 0 \in Good
  BY <1>3, FewMore
<1>5. ASSUME NEW n \in Nat, n \in Good PROVE n + 1 \in Good
  <2>1. SUFFICES ASSUME NEW x \in Few(n + 1), x # Null PROVE Ordered(g[x], Rest(x))
    BY <1>3
  <2>2. x \in Inner /\ Forward(x, 1) \in Few(n)
    BY <2>1, FewMore
  <2> DEFINE y == Forward(x, 1)
  <2>3. Ordered(g[y], Rest(y))
    BY <1>5, <2>2
  <2>4. x \in Address /\ g[x] = <<x>> \o g[y]
    BY <1>2, <2>1, <2>2, InnerIs
  <2>5. /\ x \in Rest(x) /\ Rest(y) = Rest(x) \ {x} /\ \A z \in Rest(y) : Before(x, z)
        /\ Rest(y) \in SUBSET Address
    BY <2>2, NextRest
  <2> HIDE DEF y
  <2>6. Ordered(<<x>> \o g[y], {x} \cup Rest(y))
    BY <2>3, <2>4, <2>5, OrderedMore
  <2>7. {x} \cup Rest(y) = Rest(x)
    BY <2>5
  <2>8. QED
    BY <2>4, <2>6, <2>7
<1>6. Nat \subseteq Good
  <2> HIDE DEF Good
  <2>1. QED
    BY <1>4, <1>5, Common!InductionSet
<1>7. a \in Few(Cardinality(Rest(a))) /\ Cardinality(Rest(a)) \in Nat
  <2>1. IsFiniteSet(Rest(a))
    BY NextRest
  <2>2. Cardinality(Rest(a)) \in Nat
    BY <2>1, FS_CardinalityType
  <2>3. QED
    BY <2>2 DEF Few
<1>8. QED
  BY <1>6, <1>7

LEMMA FlushedIs == ListInv => Ordered(Flushed, Inner)
<1> SUFFICES ASSUME ListInv PROVE Ordered(Flushed, Inner)
  OBVIOUS
<1> DEFINE g == CHOOSE h : IsList(h)
           a == Forward(head, 1)
<1>1. IsList(g)
  BY ListThere
<1>2. Flushed = g[a]
  BY DEF Flushed, ListFrom, IsList
<1>3. a \in Inner \cup {Null} /\ Rest(a) = Inner
  BY NextRest
<1> HIDE DEF g, a
<1>4. QED
  BY <1>1, <1>2, <1>3, ListOrdered

\* What a flush hands to the file is every version of the list, once, by key and of one key the
\* newest first, which is the order that the searches of the file rely on.
THEOREM FlushComplete == Spec => []FlushedExact
<1>1. ASSUME ListInv PROVE FlushedExact
  <2>1. Ordered(Flushed, Inner)
    BY <1>1, FlushedIs
  <2>2. /\ Flushed \in Seq(Address) /\ DOMAIN Flushed = 1..Len(Flushed)
        /\ \A i \in 1..Len(Flushed) : Flushed[i] \in Inner
        /\ \A y \in Inner : \E i \in 1..Len(Flushed) : Flushed[i] = y
        /\ \A i, j \in 1..Len(Flushed) : i < j => Before(Flushed[i], Flushed[j])
    BY <2>1 DEF Ordered
  <2>3. {Content(Flushed[j]) : j \in DOMAIN Flushed} = Contents
    BY <2>2 DEF Contents
  <2>4. QED
    BY <2>2, <2>3 DEF FlushedExact
<1>2. QED
  BY <1>1, ListAlways, PTL

-----------------------------------------------------------------------------
(* Ranges *)

\* A predicate for the keys lo..hi, which may throw for the empty key.
Fits(p, lo, hi) ==
    /\ \A k \in Keys : p[k] = IF k < lo THEN 1 ELSE IF k > hi THEN -1 ELSE 0
    /\ p[0] = Throws \/ (lo = 0 /\ p[0] = 0) \/ (lo # 0 /\ p[0] = 1)

LEMMA PredicatesFit ==
    ASSUME NEW lo \in {0} \cup Keys, NEW hi \in Keys, lo <= hi
    PROVE  /\ Fits(Predicate(lo, hi), lo, hi) /\ Predicate(lo, hi)[0] # Throws
           /\ Fits(Partial(lo, hi), lo, hi)
<1> DEFINE p == Predicate(lo, hi)
           q == Partial(lo, hi)
<1>1. \A k \in {0} \cup Keys : p[k] = IF k < lo THEN 1 ELSE IF k > hi THEN -1 ELSE 0
  BY DEF Predicate
<1>2. lo \in Nat /\ hi \in Nat
  BY NoEmptyKey
<1>3. p[0] = IF lo = 0 THEN 0 ELSE 1
  BY <1>1, <1>2
<1>4. \A k \in Keys : k # 0
  BY NoEmptyKey
<1>5. q[0] = Throws /\ \A k \in Keys : q[k] = p[k]
  BY <1>4 DEF Partial, Predicate
<1>6. Throws # 0 /\ Throws # 1
  BY NullAssumption
<1> HIDE DEF p, q
<1>7. QED
  BY <1>1, <1>3, <1>4, <1>5, <1>6 DEF Fits, p, q

\* The nodes of the range are those that match, but for the head, which a range unbounded below
\* matches.
LEMMA MatchesAre ==
    ASSUME ListInv, NEW lo \in {0} \cup Keys, NEW hi \in Keys, lo <= hi, NEW p, Fits(p, lo, hi)
    PROVE  /\ Matches(p) = InRange(lo, hi) \cup (IF p[0] = 0 THEN {head} ELSE {})
           /\ p[0] = 0 => lo = 0
           /\ {a \in Inner : Side(a, p) > 0} = BeforeKey(lo)
           /\ \A a \in InRange(lo, hi) : /\ a \in Inner /\ a \in BehindKey(lo) /\ a # head
                                         /\ a[1] >= lo /\ a[1] <= hi
           /\ \A a \in Inner : /\ Side(a, p) = 0 => a \in InRange(lo, hi)
                               /\ a[1] >= lo /\ a[1] <= hi => a \in InRange(lo, hi)
                               /\ a \in InRange(lo, hi) => Side(a, p) = 0
                               /\ Side(a, p) = -1 => a[1] > hi
                               /\ Side(a, p) > 0 => a[1] < lo
                               /\ Side(a, p) # Throws
           /\ lo \in Nat /\ hi \in Nat
           /\ Matches(p) \in SUBSET Places /\ Null \notin Matches(p)
           /\ Matches(p) \subseteq DOMAIN nodes /\ InRange(lo, hi) \in SUBSET Places
           /\ Side(head, p) = p[0]
<1>1. lo \in Nat /\ hi \in Nat
  BY NoEmptyKey
<1>2. \A a \in Inner : a[1] \in Nat /\ a[1] \in Keys /\ a # Null /\ a # head
  <2>1. \A a \in Inner : a \in Address /\ a[1] \in Nat /\ a # Null
    BY InnerIs
  <2>2. \A a \in Address : a[1] \in Keys
    BY DEF Address
  <2>3. QED
    BY <2>1, <2>2 DEF Inner
<1>3. \A a \in Inner : Side(a, p) = IF a[1] < lo THEN 1 ELSE IF a[1] > hi THEN -1 ELSE 0
  BY <1>2 DEF Side, Key, Fits
<1>4. Throws \notin {-1, 0, 1}
  BY NullAssumption
<1>5. \A a \in Inner : /\ Side(a, p) = 0 <=> a[1] >= lo /\ a[1] <= hi
                       /\ Side(a, p) = -1 => a[1] > hi
                       /\ Side(a, p) > 0 <=> a[1] < lo
                       /\ Side(a, p) # Throws
  BY <1>1, <1>2, <1>3, <1>4
<1>6. \A a \in Inner : Key(a) \in lo..hi <=> a[1] >= lo /\ a[1] <= hi
  BY <1>1, <1>2 DEF Key
<1>7. InRange(lo, hi) = {a \in Inner : a[1] >= lo /\ a[1] <= hi}
  BY <1>6 DEF InRange
<1>8. {a \in Inner : Side(a, p) > 0} = BeforeKey(lo)
  BY <1>5 DEF BeforeKey, Key
<1>9. Side(head, p) = p[0]
  BY DEF Side, Key, head
<1>10. DOMAIN nodes = Inner \cup {head} /\ head \in Places /\ head # Null /\ Inner \in SUBSET Places
  <2>1. head \in DOMAIN nodes
    BY DEF ListInv, Shape
  <2>2. QED
    BY <2>1, InnerIs, HeadFirst, NullAssumption DEF Inner
<1>11. \A a \in DOMAIN nodes : a \in Matches(p) <=> a \in InRange(lo, hi) \/ (a = head /\ p[0] = 0)
  BY <1>2, <1>5, <1>7, <1>9, <1>10 DEF Matches
<1>12. Matches(p) \subseteq DOMAIN nodes /\ InRange(lo, hi) \subseteq Inner
  BY <1>7 DEF Matches
<1>13. Matches(p) = InRange(lo, hi) \cup (IF p[0] = 0 THEN {head} ELSE {})
  <2>1. CASE p[0] = 0
    BY <1>10, <1>11, <1>12, <2>1
  <2>2. CASE p[0] # 0
    BY <1>10, <1>11, <1>12, <2>2
  <2>3. QED
    BY <2>1, <2>2
<1>14. p[0] = 0 => lo = 0
  BY <1>4 DEF Fits
<1>15. \A a \in InRange(lo, hi) : a \in Inner /\ a \in BehindKey(lo) /\ a # head /\ a[1] >= lo /\ a[1] <= hi
  BY <1>2, <1>7 DEF BehindKey, Key
<1>16. /\ Matches(p) \in SUBSET Places /\ Null \notin Matches(p)
       /\ InRange(lo, hi) \in SUBSET Places
  BY <1>2, <1>10, <1>12
<1>17. \A a \in Inner : /\ Side(a, p) = 0 => a \in InRange(lo, hi)
                        /\ a[1] >= lo /\ a[1] <= hi => a \in InRange(lo, hi)
                        /\ a \in InRange(lo, hi) => Side(a, p) = 0
                        /\ Side(a, p) = -1 => a[1] > hi
                        /\ Side(a, p) > 0 => a[1] < lo
                        /\ Side(a, p) # Throws
  BY <1>5, <1>7
<1>18. QED
  BY <1>1, <1>8, <1>9, <1>12, <1>13, <1>14, <1>15, <1>16, <1>17

\* A node at a level's place behind the search for lo.
LEMMA NextOn ==
    ASSUME ListInv, NEW i \in 1..MaxLevel, NEW p \in Reaching(i), Forward(p, i) # Null
    PROVE  Forward(p, i) \in Inner /\ Before(p, Forward(p, i)) /\ Forward(p, i) \in Reaching(i)
<1> DEFINE f == [a \in Reaching(i) |-> Forward(a, i)]
<1>1. /\ Reaching(i) \in SUBSET Places
      /\ Chain(Reaching(i), f, [a \in Reaching(i) |-> Backward(a, i)])
  BY LevelFacts
<1>2. Follows(Reaching(i), p, f[p])
  BY <1>1 DEF Chain
<1>3. f[p] = Forward(p, i)
  OBVIOUS
<1>4. Forward(p, i) \in Reaching(i) /\ Before(p, Forward(p, i))
  BY <1>2, <1>3 DEF Follows
<1>5. \A y \in Places : ~Before(y, head)
  BY HeadFirst, BeforeOrder DEF Places
<1>6. Forward(p, i) # head
  BY <1>1, <1>4, <1>5
<1>7. Forward(p, i) \in DOMAIN nodes
  BY <1>4 DEF Reaching
<1>8. QED
  BY <1>4, <1>6, <1>7 DEF Inner

\* Mid, after its search.
MidOf(prev, p) ==
    LET next(i) == Forward(prev[i], i)
        hits == {i \in 1..current_level : next(i) # Null /\ Side(next(i), p) = 0}
    IN  IF hits = {} THEN Null ELSE next(CHOOSE i \in hits : \A j \in hits : j <= i)

LEMMA MidIs ==
    ASSUME ListInv, NEW lo \in {0} \cup Keys, NEW hi \in Keys, lo <= hi, NEW p, Fits(p, lo, hi)
    PROVE  /\ Mid(p) = Null => InRange(lo, hi) = {}
           /\ Mid(p) # Null => Mid(p) \in InRange(lo, hi)
<1> DEFINE prev == Prev(BeforeKey(lo))
           next(i) == Forward(prev[i], i)
           hits == {i \in 1..current_level : next(i) # Null /\ Side(next(i), p) = 0}
           top == CHOOSE i \in hits : \A j \in hits : j <= i
<1>1. Mid(p) = IF hits = {} THEN Null ELSE next(top)
  <2>1. {a \in Inner : Side(a, p) > 0} = BeforeKey(lo)
    BY MatchesAre
  <2>2. Mid(p) = MidOf(Prev({a \in Inner : Side(a, p) > 0}), p)
    BY DEF Mid, MidOf
  <2>3. Mid(p) = MidOf(Prev(BeforeKey(lo)), p)
    BY <2>1, <2>2
  <2>4. MidOf(Prev(BeforeKey(lo)), p) = IF hits = {} THEN Null ELSE next(top)
    BY DEF MidOf
  <2>5. QED
    BY <2>3, <2>4
<1>2. current_level \in 1..MaxLevel /\ current_level \in Nat /\ MaxLevel \in Nat
  BY LevelAssumption DEF ListInv, Shape
<1>3. ASSUME NEW i \in hits PROVE next(i) \in InRange(lo, hi) /\ next(i) # Null
  <2>1. i \in 1..current_level /\ i \in 1..MaxLevel
    BY <1>2
  <2>2. prev[i] \in Reaching(i)
    BY <2>1, KeyPrev
  <2>3. next(i) # Null /\ Side(next(i), p) = 0
    OBVIOUS
  <2>4. next(i) \in Inner
    BY <2>1, <2>2, <2>3, NextOn
  <2> HIDE DEF next
  <2>5. QED
    BY <2>3, <2>4, MatchesAre
<1>4. ASSUME hits # {} PROVE top \in hits
  <2>1. hits \in SUBSET Nat /\ \A i \in hits : i <= current_level
    BY <1>2
  <2> HIDE DEF hits
  <2>2. \E i \in hits : \A j \in hits : j <= i
    BY <1>2, <1>4, <2>1, Common!GreatestNat
  <2>3. QED
    BY <2>2
<1>5. ASSUME hits = {} PROVE InRange(lo, hi) = {}
  <2>1. 1 \notin hits /\ 1 \in 1..current_level
    BY <1>2, <1>5
  <2>2. next(1) = FirstFrom(lo)
    BY DEF FirstFrom
  <2>3. FirstFrom(lo) = Null \/ Side(FirstFrom(lo), p) # 0
    BY <2>1, <2>2
  <2>4. SUFFICES ASSUME NEW y \in InRange(lo, hi) PROVE FALSE
    OBVIOUS
  <2>5. y \in BehindKey(lo) /\ y \in Inner /\ y[1] <= hi
    BY MatchesAre
  <2>6. IsFirst(BehindKey(lo), FirstFrom(lo)) /\ FirstFrom(lo) # Null
    BY <2>5, FirstFromIs
  <2> DEFINE c == FirstFrom(lo)
  <2>7. c \in Inner /\ c[1] >= lo /\ (c = y \/ Before(c, y))
    BY <2>5, <2>6 DEF IsFirst, BehindKey, Key
  <2>8. Side(c, p) # 0
    BY <2>3, <2>6
  <2> HIDE DEF c
  <2>9. c[1] \in Nat /\ y[1] \in Nat
    BY <2>5, <2>7, InnerIs
  <2>10. c[1] <= hi
    BY <2>5, <2>7, <2>9, MatchesAre DEF Before, Key
  <2>11. Side(c, p) = 0
    BY <2>7, <2>10, MatchesAre
  <2>12. QED
    BY <2>8, <2>11
<1> HIDE DEF hits, next, top
<1>6. QED
  BY <1>1, <1>3, <1>4, <1>5

\* The nodes that match lie together.
LEMMA MatchesTogether ==
    ASSUME ListInv, NEW lo \in {0} \cup Keys, NEW hi \in Keys, lo <= hi, NEW p, Fits(p, lo, hi),
           NEW a \in InRange(lo, hi)
    PROVE  NoGap(a, Matches(p)) /\ NoGapBack(a, Matches(p))
<1> DEFINE S == Matches(p)
<1>1. \A x \in DOMAIN nodes : x \in Places /\ x[1] \in Nat /\ (x = head \/ x \in Inner)
  BY PlaceIs DEF ListInv, Shape, Inner
<1>2. \A x \in DOMAIN nodes : ~Before(x, head)
  BY <1>1, HeadFirst, BeforeOrder DEF Places
<1>3. a \in DOMAIN nodes /\ a[1] >= lo /\ a[1] <= hi
  BY MatchesAre DEF Inner
<1>4. /\ lo \in Nat /\ hi \in Nat /\ (head \in S => lo = 0)
      /\ \A x \in S : x \in DOMAIN nodes /\ (x = head \/ (x[1] >= lo /\ x[1] <= hi))
      /\ \A x \in Inner : x[1] >= lo /\ x[1] <= hi => x \in S
  <2>1. S = InRange(lo, hi) \cup (IF p[0] = 0 THEN {head} ELSE {}) /\ S \subseteq DOMAIN nodes
    BY MatchesAre
  <2>2. /\ \A x \in InRange(lo, hi) : x # head /\ x[1] >= lo /\ x[1] <= hi
        /\ \A x \in Inner : x[1] >= lo /\ x[1] <= hi => x \in InRange(lo, hi)
        /\ lo \in Nat /\ hi \in Nat /\ (p[0] = 0 => lo = 0)
    BY MatchesAre
  <2> HIDE DEF S
  <2>3. QED
    BY <2>1, <2>2
<1>5. head[1] = 0
  BY DEF head
<1> HIDE DEF S
<1>6. ASSUME NEW x \in DOMAIN nodes, NEW y \in DOMAIN nodes, NEW z \in DOMAIN nodes,
             Before(x, y), Before(y, z), x[1] >= lo, z[1] <= hi
      PROVE  y \in S
  <2>1. x[1] <= y[1] /\ y[1] <= z[1]
    BY <1>1, <1>6 DEF Before, Key
  <2>2. y \in Inner
    BY <1>1, <1>2, <1>6
  <2>3. x[1] \in Nat /\ y[1] \in Nat /\ z[1] \in Nat
    BY <1>1
  <2>4. y[1] >= lo /\ y[1] <= hi
    BY <1>4, <1>6, <2>1, <2>3
  <2>5. QED
    BY <1>4, <2>2, <2>4
<1>7. \A x \in S : x[1] >= lo /\ x[1] <= hi
  BY <1>4, <1>5
<1>8. NoGap(a, S)
  BY <1>3, <1>4, <1>6, <1>7 DEF NoGap
<1>9. NoGapBack(a, S)
  BY <1>3, <1>4, <1>6, <1>7 DEF NoGapBack
<1>10. QED
  BY <1>8, <1>9 DEF S

LEMMA LeftmostIs ==
    ASSUME ListInv, NEW lo \in {0} \cup Keys, NEW hi \in Keys, lo <= hi, NEW p, Fits(p, lo, hi),
           NEW a \in InRange(lo, hi)
    PROVE  IsFirst(Matches(p), Leftmost(a, p)) \/ (p[0] = Throws /\ Leftmost(a, p) = Throws)
<1> DEFINE S == Matches(p)
           first == DescentBack(a, LevelOf(a), S)
           end(i) == Backward(first[i], i)
<1>1. /\ a \in Inner /\ a \in DOMAIN nodes /\ a \in S
      /\ Null \notin S /\ S \in SUBSET Places /\ NoGapBack(a, S)
  BY MatchesAre, MatchesTogether DEF Inner
<1>2. LevelOf(a) \in 1..MaxLevel /\ MaxLevel \in Nat
  BY <1>1, Reaches, LevelsOf, LevelAssumption DEF ListInv
<1>3. a \in Reaching(LevelOf(a))
  BY <1>1, <1>2 DEF Reaching
<1>4. ASSUME NEW i \in 1..LevelOf(a) PROVE IsFirst(Until(i, a, S), first[i])
  BY <1>1, <1>2, <1>3, <1>4, DescentBackEnds
<1>5. ASSUME NEW i \in 1..LevelOf(a), end(i) # Null, Side(end(i), p) \in {-1, Throws}
      PROVE  p[0] = Throws
  <2> DEFINE c == first[i]
  <2>1. c \in Reaching(i) /\ c \in S /\ i \in 1..MaxLevel
    BY <1>1, <1>2, <1>4 DEF IsFirst, Until
  <2> DEFINE b == [x \in Reaching(i) |-> Backward(x, i)]
  <2>2. b[head] = Null /\ \A x \in Reaching(i) : x # head => LastBefore(Reaching(i), x, b[x])
    BY <2>1, LevelFacts
  <2>3. b[c] = end(i)
    BY <2>1
  <2>4. c # head
    BY <1>5, <2>2, <2>3
  <2>5. c \in InRange(lo, hi)
    BY <2>1, <2>4, MatchesAre
  <2> HIDE DEF b, c, end
  <2>6. LastBefore(Reaching(i), c, end(i))
    BY <2>1, <2>2, <2>3, <2>4
  <2>7. Before(end(i), c) /\ end(i) \in DOMAIN nodes
    BY <2>6 DEF LastBefore, Reaching
  <2>8. end(i) = head \/ end(i) \in Inner
    BY <2>7 DEF Inner
  <2>9. CASE end(i) = head
    <3>1. p[0] \in {-1, Throws}
      BY <1>5, <2>9, MatchesAre
    <3>2. QED
      BY <3>1 DEF Fits
  <2>10. CASE end(i) \in Inner
    <3>1. c \in Inner /\ c[1] <= hi /\ hi \in Nat
      BY <2>5, MatchesAre
    <3>2. end(i)[1] \in Nat /\ c[1] \in Nat
      BY <2>10, <3>1, InnerIs
    <3>3. end(i)[1] <= hi
      BY <2>7, <3>1, <3>2 DEF Before, Key
    <3>4. Side(end(i), p) # Throws /\ (Side(end(i), p) = -1 => end(i)[1] > hi)
      BY <2>10, MatchesAre
    <3>5. QED
      BY <1>5, <3>1, <3>2, <3>3, <3>4
  <2>11. QED
    BY <2>8, <2>9, <2>10
<1>6. Leftmost(a, p) = first[1] \/ (p[0] = Throws /\ Leftmost(a, p) = Throws)
  BY <1>5 DEF Leftmost
<1>7. 1 \in 1..LevelOf(a)
  BY <1>2
<1>8. IsFirst(Until(1, a, S), first[1])
  BY <1>4, <1>7
<1>9. Reaching(1) = DOMAIN nodes /\ S \subseteq DOMAIN nodes
  <2>1. Shape(nodes, current_level)
    BY DEF ListInv
  <2>2. QED
    BY <2>1, Reaches, LevelsOf, MatchesAre DEF Inner
<1> DEFINE c == first[1]
<1>10. c \in S /\ \A y \in S : (y = a \/ Before(y, a)) => (c = y \/ Before(c, y))
  BY <1>1, <1>8, <1>9 DEF IsFirst, Until
<1>11. c = a \/ Before(c, a)
  BY <1>1, <1>10
<1> HIDE DEF c, S
<1>12. \A y \in S : c = y \/ Before(c, y)
  <2> SUFFICES ASSUME NEW y \in S PROVE c = y \/ Before(c, y)
    OBVIOUS
  <2>1. y \in Places /\ c \in Places /\ a \in Places
    BY <1>1, <1>10 DEF S
  <2>2. y = a \/ Before(y, a) \/ Before(a, y)
    BY <2>1, BeforeOrder
  <2>3. CASE Before(a, y)
    BY <1>11, <2>1, <2>3, BeforeOrder
  <2>4. QED
    BY <1>10, <2>2, <2>3
<1>13. QED
  BY <1>6, <1>10, <1>12 DEF IsFirst, c, S

LEMMA RightmostIs ==
    ASSUME ListInv, NEW lo \in {0} \cup Keys, NEW hi \in Keys, lo <= hi, NEW p, Fits(p, lo, hi),
           NEW a \in InRange(lo, hi)
    PROVE  IsFinal(InRange(lo, hi), Rightmost(a, p))
<1> DEFINE S == Matches(p)
           last == Descent(a, LevelOf(a), S)
           end(i) == Forward(last[i], i)
<1>1. /\ a \in Inner /\ a \in DOMAIN nodes /\ a \in S
      /\ Null \notin S /\ S \in SUBSET Places /\ NoGap(a, S)
  BY MatchesAre, MatchesTogether DEF Inner
<1>2. LevelOf(a) \in 1..MaxLevel /\ MaxLevel \in Nat
  BY <1>1, Reaches, LevelsOf, LevelAssumption DEF ListInv
<1>3. a \in Reaching(LevelOf(a))
  BY <1>1, <1>2 DEF Reaching
<1>4. ASSUME NEW i \in 1..LevelOf(a) PROVE IsFinal(From(i, a, S), last[i])
  BY <1>1, <1>2, <1>3, <1>4, DescentEnds
<1>5. \A x \in S : a = x \/ Before(a, x) => x \in InRange(lo, hi)
  <2>1. ~Before(a, head) /\ a # head
    <3>1. a \in Address
      BY <1>1, InnerIs
    <3>2. QED
      BY <3>1, HeadFirst, BeforeOrder
  <2>2. \A x \in S : x = head \/ x \in InRange(lo, hi)
    BY MatchesAre
  <2>3. QED
    BY <2>1, <2>2
<1>6. ASSUME NEW i \in 1..LevelOf(a) PROVE ~(end(i) # Null /\ Side(end(i), p) > 0)
  <2> SUFFICES ASSUME end(i) # Null PROVE ~(Side(end(i), p) > 0)
    OBVIOUS
  <2> DEFINE c == last[i]
  <2>1. c \in Reaching(i) /\ c \in S /\ (c = a \/ Before(a, c)) /\ i \in 1..MaxLevel
    BY <1>1, <1>2, <1>4 DEF IsFinal, From
  <2>2. c[1] >= lo /\ c \in Inner
    BY <1>5, <2>1, MatchesAre
  <2>3. end(i) \in Inner /\ Before(c, end(i))
    BY <2>1, NextOn
  <2> HIDE DEF c, end
  <2>4. end(i)[1] \in Nat /\ c[1] \in Nat /\ lo \in Nat
    BY <2>2, <2>3, InnerIs, MatchesAre
  <2>5. end(i)[1] >= lo
    BY <2>2, <2>3, <2>4 DEF Before, Key
  <2>6. Side(end(i), p) > 0 => end(i)[1] < lo
    BY <2>3, MatchesAre
  <2>7. QED
    BY <2>4, <2>5, <2>6
<1>7. Rightmost(a, p) = last[1]
  BY <1>6 DEF Rightmost
<1>8. 1 \in 1..LevelOf(a)
  BY <1>2
<1>9. IsFinal(From(1, a, S), last[1])
  BY <1>4, <1>8
<1>10. Reaching(1) = DOMAIN nodes /\ S \subseteq DOMAIN nodes
  <2>1. Shape(nodes, current_level)
    BY DEF ListInv
  <2>2. QED
    BY <2>1, Reaches, LevelsOf, MatchesAre DEF Inner
<1> DEFINE c == last[1]
<1>11. c \in S /\ \A y \in S : (y = a \/ Before(a, y)) => (c = y \/ Before(y, c))
  BY <1>1, <1>9, <1>10 DEF IsFinal, From
<1>12. c = a \/ Before(a, c)
  BY <1>1, <1>11
<1> HIDE DEF c, S
<1>13. \A y \in S : c = y \/ Before(y, c)
  <2> SUFFICES ASSUME NEW y \in S PROVE c = y \/ Before(y, c)
    OBVIOUS
  <2>1. y \in Places /\ c \in Places /\ a \in Places
    BY <1>1, <1>11 DEF S
  <2>2. y = a \/ Before(y, a) \/ Before(a, y)
    BY <2>1, BeforeOrder
  <2>3. CASE Before(y, a)
    BY <1>12, <2>1, <2>3, BeforeOrder
  <2>4. QED
    BY <1>11, <2>2, <2>3
<1>14. c \in InRange(lo, hi) /\ \A y \in InRange(lo, hi) : y \in S
  BY <1>11, <1>12, <1>5, MatchesAre DEF S
<1>15. QED
  BY <1>7, <1>13, <1>14 DEF IsFinal, c

LEMMA MonotonyIs ==
    ASSUME ListInv, NEW lo \in {0} \cup Keys, NEW hi \in Keys, lo <= hi, NEW p, Fits(p, lo, hi)
    PROVE  LET m == InRange(lo, hi)
           IN  /\ m = {} => MonotonyRange(p) = <<>>
               /\ m # {} => \/ p[0] = Throws /\ MonotonyRange(p) = <<Throws>>
                            \/ p[0] # 0 /\ MonotonyRange(p) = <<First(m), Forward(Final(m), 1)>>
                            \/ /\ lo = 0 /\ p[0] = 0
                               /\ MonotonyRange(p) = <<head, Forward(Final(m), 1)>>
<1> DEFINE m == InRange(lo, hi)
           S == Matches(p)
           a == Mid(p)
<1>1. S \in SUBSET Places /\ m \in SUBSET Places /\ S = m \cup (IF p[0] = 0 THEN {head} ELSE {})
  BY MatchesAre
<1>2. a = Null => m = {}
  BY MidIs
<1>3. a # Null => a \in m
  BY MidIs
<1>4. CASE a = Null
  <2>1. MonotonyRange(p) = <<>>
    BY <1>4 DEF MonotonyRange
  <2>2. QED
    BY <1>2, <1>4, <2>1
<1>5. CASE a # Null
  <2>1. a \in m
    BY <1>3, <1>5
  <2>2. /\ IsFirst(S, Leftmost(a, p)) \/ (p[0] = Throws /\ Leftmost(a, p) = Throws)
        /\ IsFinal(m, Rightmost(a, p))
    BY <2>1, LeftmostIs, RightmostIs
  <2>3. \A x \in Places : x # Throws
    BY NullAssumption DEF Places
  <2>4. MonotonyRange(p) = IF Throws \in {Leftmost(a, p), Rightmost(a, p)} THEN <<Throws>>
                           ELSE <<Leftmost(a, p), Forward(Rightmost(a, p), 1)>>
    BY <1>5 DEF MonotonyRange
  <2> HIDE DEF m, S, a
  <2>5. Rightmost(a, p) \in m /\ Rightmost(a, p) = Final(m) /\ Rightmost(a, p) # Throws /\ m # {}
    BY <1>1, <2>1, <2>2, <2>3, FinalIs DEF IsFinal
  <2>6. CASE p[0] = Throws /\ Leftmost(a, p) = Throws
    BY <2>4, <2>5, <2>6 DEF m
  <2>7. CASE IsFirst(S, Leftmost(a, p))
    <3>1. Leftmost(a, p) \in S /\ Leftmost(a, p) # Throws
      BY <1>1, <2>3, <2>7 DEF IsFirst
    <3>2. MonotonyRange(p) = <<Leftmost(a, p), Forward(Final(m), 1)>>
      BY <2>4, <2>5, <3>1
    <3>3. CASE p[0] = 0
      <4>1. lo = 0 /\ S = m \cup {head}
        BY <1>1, <3>3, MatchesAre
      <4>2. Leftmost(a, p) = head
        <5>1. Leftmost(a, p) = head \/ Before(Leftmost(a, p), head)
          BY <2>7, <4>1 DEF IsFirst
        <5>2. Leftmost(a, p) \in Places
          BY <1>1, <3>1
        <5>3. QED
          BY <5>1, <5>2, HeadFirst, BeforeOrder DEF Places
      <4>3. QED
        BY <2>5, <3>2, <3>3, <4>1, <4>2 DEF m
    <3>4. CASE p[0] # 0
      <4>1. S = m
        BY <1>1, <3>4
      <4>2. Leftmost(a, p) = First(m)
        BY <1>1, <2>7, <4>1, FirstIs
      <4>3. QED
        BY <2>5, <3>2, <3>4, <4>2 DEF m
    <3>5. QED
      BY <3>3, <3>4
  <2>8. QED
    BY <2>2, <2>6, <2>7
<1>6. QED
  BY <1>4, <1>5

LEMMA PreffixIs ==
    ASSUME ListInv, NEW lo \in {0} \cup Keys, NEW hi \in Keys, lo <= hi
    PROVE  LET m == InRange(lo, hi)
           IN  /\ m # {} => <<BeginPreffix(lo, hi), EndPreffix(lo, hi)>>
                              = <<First(m), Forward(Final(m), 1)>>
               /\ m = {} => BeginPreffix(lo, hi) = Null
<1> DEFINE m == InRange(lo, hi)
           c == FirstFrom(lo)
           p == Predicate(lo, hi)
<1>1. EndPreffix(lo, hi) = Behind(c, m)
  BY DEF EndPreffix, InRange
<1>2. BeginPreffix(lo, hi) = IF c # Null /\ c[1] <= hi THEN c ELSE Null
  BY DEF BeginPreffix, Key
<1>3. /\ lo \in Nat /\ hi \in Nat /\ m \in SUBSET Places /\ Null \notin m
      /\ \A a \in m : a \in Inner /\ a \in BehindKey(lo) /\ a[1] >= lo /\ a[1] <= hi
      /\ \A a \in Inner : a[1] >= lo /\ a[1] <= hi => a \in m
  <2>1. Fits(p, lo, hi)
    BY PredicatesFit
  <2>2. /\ lo \in Nat /\ hi \in Nat /\ m \in SUBSET Places
        /\ \A a \in m : a \in Inner /\ a \in BehindKey(lo) /\ a[1] >= lo /\ a[1] <= hi
        /\ \A a \in Inner : a[1] >= lo /\ a[1] <= hi => a \in m
    BY <2>1, MatchesAre
  <2>3. Null \notin Places
    BY NullAssumption DEF Places
  <2>4. QED
    BY <2>2, <2>3
<1>4. \A a \in Inner : a[1] \in Nat /\ a \in Places /\ a # Null
  BY InnerIs
<1>5. \A a \in BehindKey(lo) : a \in Inner /\ a[1] >= lo
  BY DEF BehindKey, Key
<1>6. \A a \in Inner : a[1] >= lo => a \in BehindKey(lo)
  BY DEF BehindKey, Key
<1>7. /\ c = Null => BehindKey(lo) = {}
      /\ c # Null => IsFirst(BehindKey(lo), c)
  BY FirstFromIs
<1> HIDE DEF m, c, p
<1>10. ASSUME m # {}
       PROVE  BeginPreffix(lo, hi) = First(m) /\ EndPreffix(lo, hi) = Forward(Final(m), 1)
  <2>1. PICK y \in m : TRUE
    BY <1>10
  <2>2. c # Null /\ IsFirst(BehindKey(lo), c)
    BY <1>3, <1>7, <2>1
  <2>3. c \in BehindKey(lo) /\ c \in Inner /\ \A z \in BehindKey(lo) : c = z \/ Before(c, z)
    BY <1>5, <2>2 DEF IsFirst
  <2>4. c[1] \in Nat /\ y[1] \in Nat /\ y[1] <= hi /\ (c = y \/ Before(c, y))
    BY <1>3, <1>4, <2>1, <2>3
  <2>5. c[1] <= hi
    BY <1>3, <2>4 DEF Before, Key
  <2>6. c \in m
    BY <1>3, <1>5, <2>3, <2>5
  <2>7. IsFirst(m, c)
    BY <1>3, <2>3, <2>6 DEF IsFirst
  <2>8. BeginPreffix(lo, hi) = First(m)
    BY <1>2, <1>3, <2>2, <2>5, <2>7, FirstIs
  <2> DEFINE z == Final(m)
             n == Forward(z, 1)
             R == {x \in Inner : (x = c \/ Before(c, x)) /\ x \notin m}
  <2>9. IsFinal(m, z)
    <3>1. Fits(p, lo, hi)
      BY PredicatesFit DEF p
    <3>2. Mid(p) # Null /\ Mid(p) \in m
      BY <1>10, <3>1, MidIs DEF m
    <3>3. IsFinal(m, Rightmost(Mid(p), p))
      BY <3>1, <3>2, RightmostIs DEF m
    <3>4. QED
      BY <1>3, <3>3, FinalIs
  <2>10. z \in m /\ z \in Inner /\ \A x \in m : z = x \/ Before(x, z)
    BY <1>3, <2>9 DEF IsFinal
  <2>11. /\ n \in Inner \cup {Null} /\ Rest(n) = Rest(z) \ {z}
         /\ \A x \in Rest(n) : Before(z, x)
    BY <2>10, NextRest
  <2>12. /\ Behind(c, m) = Null => R = {}
         /\ Behind(c, m) # Null => IsFirst(R, Behind(c, m))
    BY <1>3, <2>3, BehindIs
  <2> HIDE DEF z, n
  <2>13. z \in Places /\ z # Null /\ ~Before(z, z)
    BY <1>4, <2>10, BeforeOrder
  <2>14. Rest(n) = {x \in Inner : Before(z, x)}
    BY <2>11, <2>13 DEF Rest
  <2>15. \A x \in Inner : x \in R <=> Before(z, x)
    <3> SUFFICES ASSUME NEW x \in Inner PROVE x \in R <=> Before(z, x)
      OBVIOUS
    <3>1. x \in Places /\ c \in Places /\ x[1] \in Nat /\ z[1] \in Nat /\ c[1] \in Nat
      BY <1>4, <2>3, <2>10
    <3>2. ASSUME x \in R PROVE Before(z, x)
      <4>1. x \notin m /\ (x = c \/ Before(c, x))
        BY <3>2
      <4>2. x # z /\ x # c
        BY <2>6, <2>10, <4>1
      <4>3. ~Before(x, z)
        <5> SUFFICES ASSUME Before(x, z) PROVE FALSE
          OBVIOUS
        <5>1. x[1] <= z[1] /\ c[1] <= x[1]
          BY <3>1, <4>1 DEF Before, Key
        <5>2. c[1] >= lo /\ z[1] <= hi
          BY <1>3, <2>6, <2>10
        <5>3. x[1] >= lo /\ x[1] <= hi
          BY <1>3, <3>1, <5>1, <5>2
        <5>4. QED
          BY <1>3, <4>1, <5>3
      <4>4. QED
        BY <2>13, <3>1, <4>2, <4>3, BeforeOrder
    <3>3. ASSUME Before(z, x) PROVE x \in R
      <4>1. x \notin m
        BY <2>10, <2>13, <3>1, <3>3, BeforeOrder
      <4>2. c = z \/ Before(c, z)
        BY <2>7, <2>10 DEF IsFirst
      <4>3. Before(c, x)
        BY <2>13, <3>1, <3>3, <4>2, BeforeOrder
      <4>4. QED
        BY <4>1, <4>3
    <3>4. QED
      BY <3>2, <3>3
  <2>16. R = Rest(n)
    <3>1. R \subseteq Inner
      OBVIOUS
    <3> HIDE DEF R
    <3>2. QED
      BY <2>14, <2>15, <3>1
  <2> HIDE DEF R
  <2>17. Behind(c, m) = n
    <3>1. CASE n = Null
      <4>1. R = {}
        BY <2>16, <3>1 DEF Rest
      <4>2. QED
        BY <2>12, <3>1, <4>1 DEF IsFirst
    <3>2. CASE n # Null
      <4>1. IsFirst(R, n)
        BY <2>11, <2>16, <3>2 DEF IsFirst, Rest
      <4>2. R \in SUBSET Places
        BY <1>4, <2>14, <2>16
      <4>3. Behind(c, m) # Null /\ IsFirst(R, Behind(c, m))
        BY <2>12, <4>1 DEF IsFirst
      <4>4. QED
        BY <4>1, <4>2, <4>3, FirstIs
    <3>3. QED
      BY <3>1, <3>2
  <2>18. QED
    BY <1>1, <2>8, <2>17 DEF n, z
<1>11. ASSUME m = {} PROVE BeginPreffix(lo, hi) = Null
  <2>1. c # Null => c \in Inner /\ c[1] >= lo
    BY <1>5, <1>7 DEF IsFirst
  <2>2. c # Null => ~(c[1] <= hi)
    BY <1>3, <1>11, <2>1
  <2>3. QED
    BY <1>2, <2>2
<1>12. QED
  BY <1>10, <1>11 DEF m

\* A range by predicate that is bounded below is exact, whatever levels the nodes happen to have,
\* and the exceptions of the search are never thrown.  Unbounded below its end is exact and it
\* leaves nothing out, and a predicate that throws for the empty key, which is the head's, gives
\* the exact range or its exception.  A range by prefix is exact, or has no begin where nothing
\* matches.
THEOREM RangesAlwaysExact == Spec => []RangesExact
<1>1. ASSUME ListInv, NEW lo \in {0} \cup Keys, NEW hi \in Keys, lo <= hi
      PROVE  LET exact == Exact(lo, hi)
                 all   == MonotonyRange(Predicate(lo, hi))
             IN  /\ all = exact \/ (lo = 0 /\ exact # <<>> /\ all = <<head, exact[2]>>)
                 /\ MonotonyRange(Partial(lo, hi)) \in {exact, <<Throws>>}
                 /\ exact # <<>> => <<BeginPreffix(lo, hi), EndPreffix(lo, hi)>> = exact
                 /\ exact = <<>> => BeginPreffix(lo, hi) = Null
  <2> DEFINE m == InRange(lo, hi)
             p == Predicate(lo, hi)
             q == Partial(lo, hi)
  <2>1. Fits(p, lo, hi) /\ p[0] # Throws /\ Fits(q, lo, hi) /\ q[0] = Throws
    <3>1. q[0] = Throws
      BY DEF Partial, Predicate
    <3>2. QED
      BY <1>1, <3>1, PredicatesFit
  <2>2. Exact(lo, hi) = IF m = {} THEN <<>> ELSE <<First(m), Forward(Final(m), 1)>>
    BY DEF Exact
  <2> HIDE DEF p, q
  <2>3. /\ m = {} => MonotonyRange(p) = <<>>
        /\ m # {} => \/ MonotonyRange(p) = <<First(m), Forward(Final(m), 1)>>
                     \/ lo = 0 /\ MonotonyRange(p) = <<head, Forward(Final(m), 1)>>
    BY <1>1, <2>1, MonotonyIs
  <2>4. MonotonyRange(q) \in {Exact(lo, hi), <<Throws>>}
    <3>1. Throws # 0
      BY NullAssumption
    <3>2. /\ m = {} => MonotonyRange(q) = <<>>
          /\ m # {} => \/ MonotonyRange(q) = <<Throws>>
                       \/ q[0] # 0 /\ MonotonyRange(q) = <<First(m), Forward(Final(m), 1)>>
                       \/ lo = 0 /\ q[0] = 0
      BY <1>1, <2>1, MonotonyIs
    <3>3. QED
      BY <2>1, <2>2, <3>1, <3>2
  <2>5. /\ m # {} => <<BeginPreffix(lo, hi), EndPreffix(lo, hi)>> = <<First(m), Forward(Final(m), 1)>>
        /\ m = {} => BeginPreffix(lo, hi) = Null
    BY <1>1, PreffixIs
  <2> HIDE DEF m
  <2>6. m # {} => /\ Exact(lo, hi) # <<>>
                  /\ Exact(lo, hi)[2] = Forward(Final(m), 1)
    BY <2>2
  <2>7. QED
    BY <2>2, <2>3, <2>4, <2>5, <2>6 DEF p, q
<1>2. ListInv /\ FlushedExact => RangesExact
  BY <1>1 DEF RangesExact
<1>3. QED
  BY <1>2, ListAlways, FlushComplete, PTL
=============================================================================
