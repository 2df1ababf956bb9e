----------------------------- MODULE SkipTable ------------------------------
(***************************************************************************)
(* What a skip list promises: it is the table of SkipList, a set of        *)
(* versions.  Every other module uses a table in this form.                *)
(***************************************************************************)
EXTENDS SkipList

VARIABLE table

Init == table = {}

\* SkipList::put.
Put(k, v, t) == table' = TablePut(table, k, v, t)

\* SkipList::remove takes the first node of the key, its newest version.
Remove(k) ==
    LET nodes == Visible(table, k, 0)
    IN  nodes # {} /\ table' = table \ {Newest(nodes)}

\* SkipList::clear.
Clear == table' = {}

Next ==
    \/ \E n \in table' : n \in Version /\ Put(n.key, n.value, n.tranc_id)
    \/ \E k \in Keys : Remove(k)
    \/ Clear

Spec == Init /\ [][Next]_table
=============================================================================
