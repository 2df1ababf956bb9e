------------------------------ MODULE MVStore -------------------------------
(***************************************************************************)
(* What the tables in memory promise together, with no tables: a set of    *)
(* versions, at most one for a key and a tranc_id.  A direct write carries *)
(* an id no version exceeds; a transaction's writes are applied at once,   *)
(* and only where no version is newer than the transaction; and versions   *)
(* leave for the disk oldest first, key by key, so that what stays is      *)
(* always newer than what went.                                            *)
(***************************************************************************)
EXTENDS SkipList

CONSTANT TrancIds    \* the ids in use

VARIABLE versions

Init == versions = {}

\* The versions with the writes of a map from keys to values under one id.
Applied(map, t) ==
    {n \in versions : ~(n.key \in DOMAIN map /\ n.tranc_id = t)}
        \cup {Node(k, map[k], t) : k \in DOMAIN map}

\* Some of the versions leave: none that is newer than one of its key that stays.
Retains(A) ==
    /\ versions' \subseteq A
    /\ \A n \in A \ versions', m \in versions' :
          n.key = m.key => n.tranc_id <= m.tranc_id

Write(k, v, t) ==
    /\ \A n \in versions : n.tranc_id <= t
    /\ Retains(Applied([j \in {k} |-> v], t))

Commit(map, t) ==
    /\ \A n \in versions : n.key \in DOMAIN map => n.tranc_id <= t
    /\ versions' = Applied(map, t)

Evict == Retains(versions)

Next ==
    \/ \E k \in Keys, v \in Payload, t \in TrancIds : Write(k, v, t)
    \/ \E D \in SUBSET Keys, t \in TrancIds :
          \E map \in [D -> Payload] : Commit(map, t)
    \/ Evict

Spec == Init /\ [][Next]_versions
=============================================================================
