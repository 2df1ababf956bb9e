----------------------------- MODULE BlockCache -----------------------------
(***************************************************************************)
(* The LRU-K cache of blocks (block_cache.cpp).  Two lists hold the items, *)
(* front first: those used fewer than K times and the others.  A map leads *)
(* from a key, the pair (sst_id, block_id), to its list node.  Every call  *)
(* holds the one mutex from its first line to its last, so a call is one   *)
(* step.  List nodes have an identity: a node that is erased may be given  *)
(* out again.  The request counters of hit_rate() are not modelled.        *)
(***************************************************************************)
EXTENDS Integers, SequencesExt

CONSTANTS
    CacheKeys,  \* pairs (sst_id, block_id)
    Blocks,     \* contents
    Nodes,      \* addresses of list nodes
    Null,       \* get's answer for a missing key
    Capacity,   \* capacity_
    K,          \* k_: an item used this often is moved to the other list
    MaxAccess   \* bound on access_count

\* With capacity_ = 0 or k_ = 1 the code runs into the end of an empty list or
\* splices from the wrong one; engine.cpp passes 1024 and 8 (consts.h).
ASSUME CapacityAssumption == Capacity \in Nat \ {0}
ASSUME KAssumption        == K \in Nat /\ K >= 2
ASSUME NodesAssumption    == IsFiniteSet(Nodes) /\ Cardinality(Nodes) > Capacity
ASSUME AccessAssumption   == MaxAccess \in Nat
ASSUME NullAssumption     == Null \notin Blocks

VARIABLES
    cache_list_less_k, cache_list_greater_k,    \* sequences of nodes
    item,       \* node in use -> CacheItem
    cache_map   \* key -> node

cacheVars == <<cache_list_less_k, cache_list_greater_k, item, cache_map>>

CacheItem == [key : CacheKeys, cache_block : Blocks, access_count : Nat]

CacheInit ==
    /\ cache_list_less_k = <<>>
    /\ cache_list_greater_k = <<>>
    /\ item = [n \in {} |-> [access_count |-> 0]]
    /\ cache_map = [key \in {} |-> 0]

\* std::list::erase of a node, where there is one, and splice to the front.
Without(list, node) ==
    IF node \notin ToSet(list) THEN list
    ELSE RemoveAt(list, CHOOSE i \in DOMAIN list : list[i] = node)

ToFront(list, node) == <<node>> \o Without(list, node)

\* A function with the argument x bound to y, or without x.
With(f, x, y)    == [z \in DOMAIN f \cup {x} |-> IF z = x THEN y ELSE f[z]]
Less(f, x)       == [z \in DOMAIN f \ {x} |-> f[z]]

\* Mutant: the map keeps leading to the erased node.
PromoteStale(node, used) ==
    \E new \in Nodes \ (DOMAIN item \ {node}) :
        /\ cache_list_less_k' = Without(cache_list_less_k, node)
        /\ cache_list_greater_k' = <<new>> \o cache_list_greater_k
        /\ item' = With(Less(item, node), new, used)
        /\ UNCHANGED cache_map

\* An item that reaches K is copied into a node of the other list.
Promote(node, used) ==
    \E new \in Nodes \ (DOMAIN item \ {node}) :
        /\ cache_list_less_k' = Without(cache_list_less_k, node)
        /\ cache_list_greater_k' = <<new>> \o cache_list_greater_k
        /\ item' = With(Less(item, node), new, used)
        /\ cache_map' = With(cache_map, used.key, new)

\* update_access_count(node), the block of the item being set to block.
UpdateAccessCount(node, block) ==
    LET used == [item[node] EXCEPT !.access_count = @ + 1, !.cache_block = block]
    IN  \/ /\ used.access_count < K
           /\ cache_list_less_k' = ToFront(cache_list_less_k, node)
           /\ item' = [item EXCEPT ![node] = used]
           /\ UNCHANGED <<cache_list_greater_k, cache_map>>
        \/ /\ used.access_count = K
           /\ Promote(node, used)
        \/ /\ used.access_count > K
           /\ cache_list_greater_k' = ToFront(cache_list_greater_k, node)
           /\ item' = [item EXCEPT ![node] = used]
           /\ UNCHANGED <<cache_list_less_k, cache_map>>

\* BlockCache::get of a key that is there; a miss changes nothing.
Hit(key) ==
    /\ key \in DOMAIN cache_map
    /\ item[cache_map[key]].access_count < MaxAccess
    /\ UpdateAccessCount(cache_map[key], item[cache_map[key]].cache_block)

\* Mutant: the block that is put is not stored.
UpdateKeepsBlock(key, block) == Hit(key)

\* BlockCache::put of a key that is there.
Update(key, block) ==
    /\ key \in DOMAIN cache_map
    /\ item[cache_map[key]].access_count < MaxAccess
    /\ UpdateAccessCount(cache_map[key], block)

\* Mutant: the front of the list is evicted.
VictimFront ==
    IF cache_list_less_k # <<>> THEN Head(cache_list_less_k)
    ELSE Head(cache_list_greater_k)

\* The node put makes room with: the back of the first list, if it has one.
Victim ==
    IF cache_list_less_k # <<>> THEN Last(cache_list_less_k)
    ELSE Last(cache_list_greater_k)

Full == Cardinality(DOMAIN cache_map) >= Capacity

\* What put leaves of the two lists, the items and the map before it inserts.
RoomInLists ==
    IF ~Full THEN <<cache_list_less_k, cache_list_greater_k>>
    ELSE <<Without(cache_list_less_k, Victim), Without(cache_list_greater_k, Victim)>>

RoomInItems == IF Full THEN Less(item, Victim) ELSE item

\* Mutant: the entry of the evicted item stays in the map.
RoomInMapKept == cache_map

RoomInMap == IF Full THEN Less(cache_map, item[Victim].key) ELSE cache_map

\* BlockCache::put of a new key.
Insert(key, block) ==
    /\ key \notin DOMAIN cache_map
    /\ \E new \in Nodes \ DOMAIN RoomInItems :
          /\ cache_list_less_k' = <<new>> \o RoomInLists[1]
          /\ cache_list_greater_k' = RoomInLists[2]
          /\ item' = With(RoomInItems, new,
                          [key |-> key, cache_block |-> block, access_count |-> 1])
          /\ cache_map' = With(RoomInMap, key, new)
=============================================================================
