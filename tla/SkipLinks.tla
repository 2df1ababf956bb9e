----------------------------- MODULE SkipLinks ------------------------------
(***************************************************************************)
(* The skip list from inside (skipList.cpp): nodes of a random number of   *)
(* levels with a forward link (shared_ptr) and a backward link (weak_ptr)  *)
(* on each.  A node is known by its key and tranc_id, a value is its       *)
(* length, 0 for a removal.  A node that no forward link leads to is freed *)
(* and a backward link to it has expired.                                  *)
(***************************************************************************)
EXTENDS SkipList, Sequences

CONSTANTS
    MaxLevel,       \* max_level
    Ids,            \* bound: the ids of nodes and readers
    MaxNodes,       \* bound: nodes in the list
    Overhead,       \* what a node counts beside its value: its key and sizeof(uint64_t)
    Null,           \* a null pointer
    Throws          \* an exception

ASSUME LevelAssumption == MaxLevel \in Nat \ {0}
ASSUME IdsAssumption == Ids \subseteq Nat
ASSUME NoEmptyKey == Keys \subseteq Nat \ {0}
ASSUME ValuesAssumption == Values \subseteq Nat \ {0} /\ Empty = 0
ASSUME OverheadAssumption == Overhead \in Nat

VARIABLES
    nodes,          \* the nodes that are alive, the head among them
    current_level,
    size_bytes

vars == <<nodes, current_level, size_bytes>>

Address == Keys \X Ids
head == <<0, 0>>            \* its key is the empty string, before every key
ASSUME NullAssumption ==
    {Null, Throws} \cap ({head} \cup Address) = {} /\ Null # Throws /\ Throws \notin -1..1

Key(a) == a[1]
Inner == DOMAIN nodes \ {head}

\* SkipListNode::operator<.
Before(a, b) == Key(a) < Key(b) \/ (Key(a) = Key(b) /\ a[2] > b[2])

Unlinked(level) == [i \in 1..level |-> Null]
NewNode(value, level) ==
    [value |-> value, forward |-> Unlinked(level), backward |-> Unlinked(level)]
LevelOf(a) == Len(nodes[a].forward)
Forward(a, i) == nodes[a].forward[i]

\* A weak_ptr to a node that is gone has expired.
Backward(a, i) == IF nodes[a].backward[i] \in DOMAIN nodes THEN nodes[a].backward[i] ELSE Null

\* SkipList::SkipList.
Init ==
    /\ nodes = [a \in {head} |-> NewNode(Empty, MaxLevel)]
    /\ current_level = 1
    /\ size_bytes = 0

\* The nodes that have level i.
Reaching(i) == {a \in DOMAIN nodes : LevelOf(a) >= i}

\* A walk on level i from a node of it: where it ends if it goes on while the next one is in S.
Along(i, S) ==
    LET along[a \in Reaching(i)] ==
            IF Forward(a, i) \in S THEN along[Forward(a, i)] ELSE a
    IN  along

\* The same by the backward links.
Back(i, S) ==
    LET back[a \in Reaching(i)] ==
            IF Backward(a, i) \in S THEN back[Backward(a, i)] ELSE a
    IN  back

\* A search: such a walk on each level of a, from the top down; the ends of them.
Descent(a, top, S) ==
    LET last[i \in 1..top] == Along(i, S)[IF i = top THEN a ELSE last[i + 1]]
    IN  last

DescentBack(a, top, S) ==
    LET first[i \in 1..top] == Back(i, S)[IF i = top THEN a ELSE first[i + 1]]
    IN  first

\* The search that put, get, remove and the prefix search begin with: on each level in use the
\* last node that belongs to those before the place looked for (prev_vec).
Prev(before) == Descent(head, current_level, before)

BeforeKey(k) == {a \in Inner : Key(a) < k}
FirstFrom(k) == Forward(Prev(BeforeKey(k))[1], 1)   \* the first node of a key >= k

\* On the lowest level, the first node from a on that is not in S.
Behind(a, S) == IF a \in S THEN Forward(Along(1, S)[a], 1) ELSE a

-----------------------------------------------------------------------------
(* Changes *)

\* SkipList::put, the second half: the links of the new node and of its neighbours; above the
\* levels in use the head is its neighbour.
Linked(new, value, level, prev) ==
    LET next(i) == IF i <= current_level THEN Forward(prev[i], i) ELSE Null
        left(i) == IF i <= current_level THEN prev[i] ELSE head
    IN  [a \in DOMAIN nodes \cup {new} |->
            IF a = new
            THEN [value |-> value, forward |-> [i \in 1..level |-> next(i)],
                  backward |-> [i \in 1..level |-> left(i)]]
            ELSE [nodes[a] EXCEPT
                    !.forward = [i \in DOMAIN @ |->
                                    IF i <= level /\ left(i) = a THEN new ELSE @[i]],
                    !.backward = [i \in DOMAIN @ |->
                                    IF i <= level /\ next(i) = a THEN new ELSE @[i]]]]

\* SkipList::put; random_level gives any level.  The same key and id: the value is replaced.
Put(k, value, t, level) ==
    LET new  == <<k, t>>
        prev == Prev({a \in Inner : Before(a, new)})
    IN  \/ /\ Forward(prev[1], 1) = new
           /\ nodes' = [nodes EXCEPT ![new].value = value]
           /\ size_bytes' = size_bytes - (nodes[new].value - value)
           /\ UNCHANGED current_level
        \/ /\ Forward(prev[1], 1) # new
           /\ Cardinality(Inner) < MaxNodes
           /\ nodes' = Linked(new, value, level, prev)
           /\ current_level' = IF level > current_level THEN level ELSE current_level
           /\ size_bytes' = size_bytes + Overhead + value

\* Mutant: above the next node's levels the links are left as they are.
UnlinkedLow(curr, prev) ==
    LET nxt == Forward(curr, 1)
        top == IF nxt = Null THEN LevelOf(curr) ELSE LevelOf(nxt)
    IN  [a \in DOMAIN nodes \ {curr} |->
            [nodes[a] EXCEPT
                !.forward = [i \in DOMAIN @ |->
                                IF i <= top /\ i <= current_level /\ prev[i] = a THEN nxt ELSE @[i]],
                !.backward = [i \in DOMAIN @ |->
                                IF nxt # Null /\ a = nxt THEN prev[i] ELSE @[i]]]]

\* SkipList::remove, the links: of a last node all levels end; else the levels above the
\* next node's go on behind the removed node, the others at the next node.
Removed(curr, prev) ==
    LET nxt == Forward(curr, 1)
        top == IF nxt = Null THEN 0 ELSE LevelOf(nxt)
        skips(i) == i > top /\ i <= LevelOf(curr)
    IN  [a \in DOMAIN nodes \ {curr} |->
            [nodes[a] EXCEPT
                !.forward = [i \in DOMAIN @ |->
                    IF i <= current_level /\ prev[i] = a /\ (i <= top \/ skips(i))
                    THEN IF nxt = Null \/ i <= top THEN nxt ELSE Forward(curr, i)
                    ELSE @[i]],
                !.backward = [i \in DOMAIN @ |->
                    IF nxt # Null /\ (a = nxt \/ (skips(i) /\ Forward(curr, i) = a))
                    THEN prev[i] ELSE @[i]]]]

\* Mutant: the last node of the key goes.
RemoveOldest(k) ==
    \E curr \in Inner :
        /\ Key(curr) = k /\ \A a \in Inner : Key(a) = k => a[2] >= curr[2]
        /\ nodes' = Removed(curr, Prev({a \in Inner : Before(a, curr)}))
        /\ size_bytes' = size_bytes - (Overhead + nodes[curr].value)
        /\ UNCHANGED current_level

\* SkipList::remove of a key that is there: its first node goes, no level of the list does.
Remove(k) ==
    LET curr == FirstFrom(k)
    IN  /\ curr # Null /\ Key(curr) = k
        /\ nodes' = Removed(curr, Prev(BeforeKey(k)))
        /\ size_bytes' = size_bytes - (Overhead + nodes[curr].value)
        /\ UNCHANGED current_level

\* Mutant: the size stays.
ClearKeepsSize ==
    /\ nodes' = [a \in {head} |-> NewNode(Empty, MaxLevel)]
    /\ UNCHANGED <<current_level, size_bytes>>

\* SkipList::clear: the levels in use stay.
Clear ==
    /\ nodes' = [a \in {head} |-> NewNode(Empty, MaxLevel)]
    /\ size_bytes' = 0
    /\ UNCHANGED current_level

Next ==
    \/ \E k \in Keys, v \in Payload, t \in Ids, level \in 1..MaxLevel : Put(k, v, t, level)
    \/ \E k \in Keys : Remove(k)
    \/ Clear

Spec == Init /\ [][Next]_vars

-----------------------------------------------------------------------------
(* Reads *)

\* Mutant: the first node of the key, whoever reads.
GetFirst(k, t) ==
    LET hit == FirstFrom(k)
    IN  IF hit # Null /\ Key(hit) = k /\ (t = 0 \/ hit[2] <= t) THEN hit ELSE Null

\* SkipList::get: the first visible node of the key.
Get(k, t) ==
    LET hit == Behind(FirstFrom(k), {a \in Inner : Key(a) = k /\ t # 0 /\ a[2] > t})
    IN  IF hit # Null /\ Key(hit) = k THEN hit ELSE Null

\* SkipList::flush, begin and ++: the lowest level from end to end.
ListFrom(a) ==
    LET list[x \in Inner \cup {Null}] ==
            IF x = Null THEN <<>> ELSE <<x>> \o list[Forward(x, 1)]
    IN  list[a]

Flushed == ListFrom(Forward(head, 1))

\* begin_preffix and end_preffix for the prefix that the keys lo..hi have.
BeginPreffix(lo, hi) ==
    IF FirstFrom(lo) # Null /\ Key(FirstFrom(lo)) <= hi THEN FirstFrom(lo) ELSE Null

EndPreffix(lo, hi) == Behind(FirstFrom(lo), {a \in Inner : Key(a) \in lo..hi})

\* A predicate answers a key by 1 where it lies left of the range, by -1 right of it, or throws;
\* the key of the head is the empty one.  One that holds for lo..hi, and one that throws when it
\* is given the empty key.
Predicate(lo, hi) ==
    [k \in {0} \cup Keys |-> IF k < lo THEN 1 ELSE IF k > hi THEN -1 ELSE 0]
Partial(lo, hi) == [Predicate(lo, hi) EXCEPT ![0] = Throws]

Side(a, p) == p[Key(a)]

\* Mutant: the search for a match goes down a level from the head each time.
MidFromHead(p) ==
    LET f[i \in 0..current_level] ==
            IF i = 0 THEN Null
            ELSE IF Forward(head, i) # Null /\ Side(Forward(head, i), p) = 0
            THEN Forward(head, i) ELSE f[i - 1]
    IN  f[current_level]

\* iters_monotony_predicate: the search stops at the first match that it meets, from the top
\* level down; Null without one.  It does not ask for the head.
Mid(p) ==
    LET prev == Prev({a \in Inner : Side(a, p) > 0})
        next(i) == Forward(prev[i], i)
        hits == {i \in 1..current_level : next(i) # Null /\ Side(next(i), p) = 0}
    IN  IF hits = {} THEN Null ELSE next(CHOOSE i \in hits : \A j \in hits : j <= i)

\* From a match to the first one by the backward links, to the last one by the forward links:
\* on each level as far as matches go, which may be the head.  What ends a walk on the wrong
\* side throws, and so does a predicate that cannot answer for the head.
Matches(p) == {a \in DOMAIN nodes : Side(a, p) = 0}

Leftmost(a, p) ==
    LET first == DescentBack(a, LevelOf(a), Matches(p))
        end(i) == Backward(first[i], i)
    IN  IF \E i \in 1..LevelOf(a) : end(i) # Null /\ Side(end(i), p) \in {-1, Throws}
        THEN Throws ELSE first[1]

Rightmost(a, p) ==
    LET last == Descent(a, LevelOf(a), Matches(p))
        end(i) == Forward(last[i], i)
    IN  IF \E i \in 1..LevelOf(a) : end(i) # Null /\ Side(end(i), p) > 0
        THEN Throws ELSE last[1]

\* SkipList::iters_monotony_predicate: the two iterators, <<>> for none.
MonotonyRange(p) ==
    LET mid == Mid(p)
    IN  IF mid = Null THEN <<>>
        ELSE IF Throws \in {Leftmost(mid, p), Rightmost(mid, p)} THEN <<Throws>>
        ELSE <<Leftmost(mid, p), Forward(Rightmost(mid, p), 1)>>

-----------------------------------------------------------------------------
(* Properties *)

Content(a) == Node(Key(a), nodes[a].value, a[2])
Contents == {Content(a) : a \in Inner}
First(S) == CHOOSE a \in S : \A b \in S : a = b \/ Before(a, b)
Final(S) == CHOOSE a \in S : \A b \in S : a = b \/ Before(b, a)

\* Nodes have as many links backward as forward, and no more than there are levels in use; the
\* size never wraps below zero.
TypeOK ==
    /\ head \in DOMAIN nodes /\ DOMAIN nodes \subseteq {head} \cup Address
    /\ \A a \in DOMAIN nodes :
          /\ nodes[a] \in [value : Payload, forward : Seq({Null} \cup Address),
                           backward : Seq({Null, head} \cup Address)]
          /\ Len(nodes[a].backward) = LevelOf(a)
          /\ LevelOf(a) \in 1..(IF a = head THEN MaxLevel ELSE current_level)
    /\ LevelOf(head) = MaxLevel /\ current_level \in 1..MaxLevel
    /\ size_bytes \in Nat

\* Each level is the list of the nodes that reach it, in the list's order.
LevelsListed ==
    \A i \in 1..MaxLevel : \A a \in Reaching(i) :
        LET after == {b \in Reaching(i) : Before(a, b)}
        IN  IF after = {} THEN Forward(a, i) = Null
            ELSE Forward(a, i) = First(after) /\ Backward(First(after), i) = a

\* The nodes are well formed, and each level is the list of those that reach it, read forward
\* from the head or backward, whatever was put, removed and cleared before.
LinksAgree == TypeOK /\ LevelsListed

\* What a flush hands to the file is every version, once, in the order that the file's
\* searches need: by key and, of one key, the newest first.
FlushedExact ==
    /\ {Content(Flushed[j]) : j \in DOMAIN Flushed} = Contents
    /\ \A i, j \in DOMAIN Flushed : i < j => Before(Flushed[i], Flushed[j])

\* size_bytes, by which tables freeze and flush, is the size of the nodes, after any
\* overwriting, removal and clearing.
SizeExact ==
    LET sum[S \in SUBSET Inner] ==
            IF S = {} THEN 0
            ELSE LET a == CHOOSE x \in S : TRUE
                 IN  Overhead + nodes[a].value + sum[S \ {a}]
    IN  size_bytes = sum[Inner]

InRange(lo, hi) == {a \in Inner : Key(a) \in lo..hi}

\* From the first version of the range to what follows the last one.
Exact(lo, hi) ==
    LET m == InRange(lo, hi)
    IN  IF m = {} THEN <<>> ELSE <<First(m), Forward(Final(m), 1)>>

\* The range of all nodes, which a flush writes out, is exact and in order (FlushedExact).
\* A range by predicate is exact, whatever levels the nodes have, if it is bounded below and
\* the predicate answers for every key.  Unbounded below it ends where it should and leaves
\* nothing out, and of a predicate that throws for the empty key it is exact or the exception
\* comes through; the search's own exceptions are never thrown.  A range by prefix is exact
\* where there is a match, and where there is none it has no begin.
RangesExact ==
    /\ FlushedExact
    /\ \A lo \in {0} \cup Keys, hi \in Keys : lo <= hi =>
          LET exact == Exact(lo, hi)
              all   == MonotonyRange(Predicate(lo, hi))
          IN  /\ all = exact \/ (lo = 0 /\ exact # <<>> /\ all = <<head, exact[2]>>)
              /\ MonotonyRange(Partial(lo, hi)) \in {exact, <<Throws>>}
              /\ exact # <<>> => <<BeginPreffix(lo, hi), EndPreffix(lo, hi)>> = exact
              /\ exact = <<>> => BeginPreffix(lo, hi) = Null

\* A search is a search of the set: for every reader, the newest version visible to it.
GetExact ==
    \A k \in Keys, t \in {0} \cup Ids :
        TableGet(Contents, k, t) = IF Get(k, t) = Null THEN NoNode ELSE Content(Get(k, t))

\* The list implements the table by which every other module knows it.
Abstract == INSTANCE SkipTable WITH table <- Contents
ImplementsTable == Abstract!Spec
=============================================================================
