--------------------------- MODULE BlockCacheUse ----------------------------
(***************************************************************************)
(* Callers of the block cache, and what they are promised.  Three history  *)
(* variables record what was asked of the cache, in terms of keys only:    *)
(* they say nothing of lists, nodes or maps.                               *)
(***************************************************************************)
EXTENDS BlockCache

VARIABLES
    recency,    \* every key ever used, the last used one first
    uses,       \* key -> uses since it was last brought in
    last_put    \* key -> the block last put

vars == <<cacheVars, recency, uses, last_put>>

Init ==
    /\ CacheInit
    /\ recency = <<>>
    /\ uses = [key \in CacheKeys |-> 0]
    /\ last_put = [key \in CacheKeys |-> Null]

Used(key) == recency' = ToFront(recency, key)

Get(key) ==
    /\ Hit(key)
    /\ Used(key)
    /\ uses' = [uses EXCEPT ![key] = @ + 1]
    /\ UNCHANGED last_put

Refresh(key, block) ==
    /\ Update(key, block)
    /\ Used(key)
    /\ uses' = [uses EXCEPT ![key] = @ + 1]
    /\ last_put' = [last_put EXCEPT ![key] = block]

Put(key, block) ==
    /\ Insert(key, block)
    /\ Used(key)
    /\ uses' = [uses EXCEPT ![key] = 1]
    /\ last_put' = [last_put EXCEPT ![key] = block]

Next ==
    \E key \in CacheKeys :
        \/ Get(key)
        \/ \E block \in Blocks : Refresh(key, block) \/ Put(key, block)

Spec == Init /\ [][Next]_vars

-----------------------------------------------------------------------------

IsNodeList(list) == list \in Seq(DOMAIN item)

\* The lists hold nodes in use, and the map leads to nodes in use: no iterator
\* dangles.
TypeOK ==
    /\ DOMAIN item \subseteq Nodes
    /\ item \in [DOMAIN item -> CacheItem]
    /\ IsNodeList(cache_list_less_k)
    /\ IsNodeList(cache_list_greater_k)
    /\ DOMAIN cache_map \subseteq CacheKeys
    /\ cache_map \in [DOMAIN cache_map -> DOMAIN item]

\* The cached keys are at most Capacity, and each is in exactly one place of one
\* list, the one its number of uses calls for: nothing leaks into a list without
\* an entry of the map, whatever mixture of hits, updates and evictions came first.
Bookkeeping ==
    LET both == cache_list_less_k \o cache_list_greater_k
    IN  /\ Len(both) = Cardinality(DOMAIN cache_map)
        /\ Len(both) <= Capacity
        /\ \A key \in DOMAIN cache_map :
              /\ \E i \in DOMAIN both :
                    both[i] = cache_map[key] /\ item[both[i]].key = key
              /\ uses[key] = item[cache_map[key]].access_count
              /\ (uses[key] < K) <=>
                    \E i \in DOMAIN cache_list_less_k : cache_list_less_k[i] = cache_map[key]

\* A hit returns the block last put under its key.
Fresh ==
    \A key \in DOMAIN cache_map : item[cache_map[key]].cache_block = last_put[key]

\* The last use of k1 came before the last use of k2.
UsedBefore(k1, k2) ==
    \E i, j \in DOMAIN recency : i < j /\ recency[i] = k2 /\ recency[j] = k1

\* LRU-K: the key that loses its place is the least recently used of those used
\* fewer than K times, and of all only when there is no such key.
EvictsLruK ==
    [][\A lost \in DOMAIN cache_map \ DOMAIN cache_map' :
          \A kept \in DOMAIN cache_map \ {lost} :
             \/ uses[lost] < K /\ uses[kept] >= K
             \/ (uses[lost] < K <=> uses[kept] < K) /\ UsedBefore(lost, kept)]_vars
=============================================================================
