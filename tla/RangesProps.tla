----------------------------- MODULE RangesProps ----------------------------
(***************************************************************************)
(* What the ranges of Ranges are checked for: that they show the newest    *)
(* version of each key, once and in order.  The cases in which the code    *)
(* does something else are named; each of them occurs.                     *)
(***************************************************************************)
EXTENDS Ranges

Files == {ssts[level_sst_ids[i]] : i \in DOMAIN level_sst_ids}
Held == UNION ({memtable.current_table} \cup Range(memtable.frozen_tables) \cup Files)
OfKey(T, k) == {n \in T : n.key = k}
InTables(k) == {i \in DOMAIN TablesOf(memtable) : OfKey(TablesOf(memtable)[i], k) # {}}
InFiles(k) == {T \in Files : OfKey(T, k) # {}}

\* HeapIterator gives all items one id: two versions of a key in one table tie.
Tied(k) ==
    InTables(k) # {} /\ Cardinality(OfKey(TablesOf(memtable)[Min(InTables(k))], k)) > 1

\* A removal in memory is gone from the first iterator, and the second still has the key.
Revived(k) == InTables(k) # {} /\ InFiles(k) # {} /\ Newest(OfKey(Held, k)).value = Empty

\* Between two files the heap prefers the greater -sst_id, which is the older file.
Aged(k) == InTables(k) = {} /\ Cardinality(InFiles(k)) > 1

\* A range with one version in a file is passed over (block.cpp:323).
PassedOver(k, lo, hi) ==
    InTables(k) = {} /\ \E T \in InFiles(k) : Cardinality({n \in T : n.key \in lo..hi}) = 1

ShowsNewest(shown, k) ==
    LET newest == OfKey(Held, k)
    IN  {shown[i].value : i \in {j \in DOMAIN shown : shown[j].key = k}} =
            {n.value : n \in {m \in newest : m = Newest(newest) /\ m.value # Empty}}

\* A range shows keys in order and each once; none below it, and above it only what a file
\* holds behind a key of the range, since nothing but the file's end ends its walk.
RangeOrdered ==
    ~NullFile =>
        \A lo, hi \in Keys : lo <= hi =>
            \A shown \in RangeLoops(lo, hi, 0) :
                /\ \A i, j \in DOMAIN shown : i < j => shown[i].key < shown[j].key
                /\ \A i \in DOMAIN shown : shown[i].key \notin lo..hi =>
                      /\ shown[i].key > hi
                      /\ \E T \in Files : /\ OfKey(T, shown[i].key) # {}
                                        /\ \E n \in T : n.key \in lo..hi

\* A key of a range is shown with the newest version's value, or not at all if that is a
\* removal, whichever tables and files its versions have got to, but for the four cases; begin,
\* where there is no file yet, as well.
RangeNewest ==
    /\ ~NullFile =>
          \A lo, hi \in Keys : \A k \in Keys \cap lo..hi :
              ~(Tied(k) \/ Revived(k) \/ Aged(k) \/ PassedOver(k, lo, hi)) =>
                  \A shown \in RangeLoops(lo, hi, 0) : ShowsNewest(shown, k)
    /\ Begin # {Failure} =>
          \A k \in Keys : ~Tied(k) => \A shown \in Begin : ShowsNewest(shown, k)
=============================================================================
