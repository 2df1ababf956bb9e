------------------------------ MODULE SkipList ------------------------------
(***************************************************************************)
(* One table of versions: the skip list of skipList.cpp seen from outside. *)
(* A node is a (key, value, tranc_id) triple; a removal is a node with the *)
(* empty value.  The list orders nodes by key and, for one key, by         *)
(* descending tranc_id (SkipListNode::operator<), so "the first node that  *)
(* is visible" is the one with the greatest visible tranc_id.  The levels  *)
(* and links that find it quickly are not modelled here.  A node counts    *)
(* one towards get_size(): only comparisons of sizes with limits matter.   *)
(***************************************************************************)
EXTENDS Integers, FiniteSets

CONSTANTS
    Keys,       \* the keys, ordered as the integers
    Values,     \* the non-empty values
    Empty,      \* the empty value that marks a removal
    NoNode      \* an invalid iterator, an empty optional

ASSUME KeysAssumption   == Keys \subseteq Int
ASSUME EmptyAssumption  == Empty \notin Values

\* What a node can hold.
Payload == Values \cup {Empty}

Version == [key : Keys, value : Payload, tranc_id : Nat]

ASSUME NoNodeAssumption == NoNode \notin Version

Node(k, v, t) == [key |-> k, value |-> v, tranc_id |-> t]

\* SkipList::put.  A node with the same key and the same tranc_id is updated
\* in place; otherwise the new node joins the ones already there.
TablePut(T, k, v, t) ==
    {n \in T : ~(n.key = k /\ n.tranc_id = t)} \cup {Node(k, v, t)}

\* The nodes of key k that a reader with tranc_id t may see: 0 sees them all.
Visible(T, k, t) ==
    {n \in T : n.key = k /\ (t = 0 \/ n.tranc_id <= t)}

\* The greatest tranc_id comes first in the list.
Newest(S) == CHOOSE n \in S : \A m \in S : m.tranc_id <= n.tranc_id

\* SkipList::get.
TableGet(T, k, t) ==
    IF Visible(T, k, t) = {} THEN NoNode ELSE Newest(Visible(T, k, t))

\* SkipList::get_size, in nodes.
TableSize(T) == Cardinality(T)
=============================================================================
