------------------------------- MODULE Ranges -------------------------------
(***************************************************************************)
(* Ranges over the engine: lsm_iters_monotony_predicate and begin of       *)
(* engine.cpp with the iterators they put together (iterator.cpp,          *)
(* two_merge_iterator.cpp, sst_iterator.cpp).  The state is the engine's   *)
(* under direct calls.  An iterator owns copies of what it shows, so that  *)
(* a range is an operator on the state: the set of the sequences that a    *)
(* loop over it can show.  A file has one block (Sst has several).         *)
(***************************************************************************)
EXTENDS Engine, Block

CONSTANTS
    MaxTrancId,     \* bound: puts take ids below it
    MaxSst,         \* bound: files
    Hangs           \* a call that does not return

VARIABLE nextTransactionId  \* TranManager::nextTransactionId_

vars == <<engineVars, nextTransactionId>>

Init == EngineInit /\ nextTransactionId = 1

\* LSM::put and remove.
Put(k, v) ==
    /\ nextTransactionId < MaxTrancId
    /\ EnginePut(k, v, nextTransactionId)
    /\ nextTransactionId' = nextTransactionId + 1

\* LSM::flush.
Flush ==
    /\ next_sst_id < MaxSst
    /\ EngineFlush
    /\ UNCHANGED nextTransactionId

Next == (\E k \in Keys, v \in Payload : Put(k, v)) \/ Flush

Spec == Init /\ [][Next]_vars

-----------------------------------------------------------------------------
(* HeapIterator *)

\* SearchItem; idx grows with the age of an SST, shrinks with that of a table.
Item(entry, idx, id) == [key |-> entry.key, value |-> entry.value, tranc_id |-> id, idx |-> idx]

\* operator< of SearchItem: what comes first out of the heap.
ItemBefore(a, b) ==
    \/ a.key < b.key
    \/ a.key = b.key /\ a.tranc_id > b.tranc_id
    \/ a.key = b.key /\ a.tranc_id = b.tranc_id /\ a.idx > b.idx

\* The items that may be on top once a key's turn has come: equal ones in any order.
Tops(items, key) ==
    {a \in items : a.key = key /\ \A b \in items : b.key = key => ~ItemBefore(b, a)}

\* HeapIterator::top_value_legal, on an item.
TopLegal(item, id) == (id = 0 \/ id > item.tranc_id) /\ item.value # Empty

\* HeapIterator::HeapIterator and ++: the top item of each key, and with it all of that key
\* go; a removal on top takes its key away.  An item that is neither legal nor empty, and not
\* newer than the reader, is not popped: the loop goes on for ever.
HeapWalks(items, id) ==
    LET keys == {a.key : a \in items}
        choices == {c \in [keys -> items] : \A k \in keys : c[k] \in Tops(items, k)}
        shown(c) == SetToSortSeq({c[k] : k \in {x \in keys : TopLegal(c[x], id)}},
                                 LAMBDA a, b : a.key < b.key)
        stuck(a) == a.value # Empty /\ ~TopLegal(a, id) /\ ~(id # 0 /\ a.tranc_id > id)
    IN  {IF \E k \in keys : stuck(c[k]) THEN Hangs ELSE shown(c) : c \in choices}

-----------------------------------------------------------------------------
(* TwoMergeIterator *)

\* Mutant: equal keys are skipped when the iterator is made, not when it moves on.
TwoMergeOnce(a, b) ==
    LET f[i \in 1..(Len(a) + 1), j \in 1..(Len(b) + 2)] ==
            CASE i > Len(a) /\ j > Len(b) -> <<>>
              [] i <= Len(a) /\ (j > Len(b) \/ a[i].key < b[j].key) -> <<a[i]>> \o f[i + 1, j]
              [] OTHER -> <<b[j]>> \o f[i, j + 1]
        same == a # <<>> /\ b # <<>> /\ a[1].key = b[1].key
    IN  f[1, IF same THEN 2 ELSE 1]

\* The constructor, then ++ until both have ended: skip_it_b, choose_it_a, and a step of the
\* one chosen.  (skip_by_tranc_id compares ids of readers, which are equal.)
TwoMerge(a, b) ==
    LET f[i \in 1..(Len(a) + 1), j \in 1..(Len(b) + 1)] ==
            CASE i > Len(a) /\ j > Len(b) -> <<>>
              [] i <= Len(a) /\ j <= Len(b) /\ a[i].key = b[j].key -> f[i, j + 1]
              [] i <= Len(a) /\ (j > Len(b) \/ a[i].key < b[j].key) -> <<a[i]>> \o f[i + 1, j]
              [] OTHER -> <<b[j]>> \o f[i, j + 1]
    IN  f[1, 1]

-----------------------------------------------------------------------------
(* Ranges *)

\* Mutant: the current table alone.
TableItemsCurrent(lo, hi, id) ==
    {Item(n, 0, id) : n \in {x \in memtable.current_table : x.key \in lo..hi}}

\* MemTable::iters_monotony_predicate (and begin, for all keys): every version in the range,
\* removals too, with the reader's id in place of its own.  An item set keeps two versions
\* of a key in one table apart by their values.  (The predicates lo..hi put the empty key to
\* their left.  Where one holds for it, the table's range begins at the head, SkipLinks, and
\* the head's empty item is skipped like a removal.)
TableItems(lo, hi, id) ==
    LET tables == TablesOf(memtable)
    IN  UNION {{Item(n, -i, id) : n \in {x \in tables[i] : x.key \in lo..hi}} :
               i \in DOMAIN tables}

\* The file of a table, in the order of SkipList::flush.
BlockOf(T) ==
    LET entries == SetToSortSeq(T, LAMBDA e, f :
                       e.key < f.key \/ (e.key = f.key /\ e.tranc_id > f.tranc_id))
    IN  FoldLeft(LAMBDA b, e : WithEntry(b, e), EmptyBlock, entries)

\* The loop over one file, from the first iterator of its range.
FileWalk(T, lo, hi) ==
    LET begin == RangeBegin(BlockOf(T), lo, hi)
    IN  IF begin = {} THEN <<>> ELSE Walk(BlockOf(T), CHOOSE it \in begin : TRUE)

FileHasRange(T, lo, hi) == RangeBegin(BlockOf(T), lo, hi) # {}

\* item_vec: the walks of all files, without an item whose key is that of the item
\* before it.  A walk with an id throws at the latest when it leaves the block.
FileItems(lo, hi, id) ==
    LET walk(i) == [e \in DOMAIN FileWalk(ssts[level_sst_ids[i]], lo, hi) |->
                       Item(FileWalk(ssts[level_sst_ids[i]], lo, hi)[e], -level_sst_ids[i], id)]
        all == FlattenSeq([i \in DOMAIN level_sst_ids |-> walk(i)])
    IN  {all[i] : i \in {j \in DOMAIN all : j = 1 \/ all[j - 1].key # all[j].key}}

\* A flush of nothing has left a null pointer among the files.
NullFile == \E i \in DOMAIN level_sst_ids : ssts[level_sst_ids[i]] = NullSst

\* LSMEngine::lsm_iters_monotony_predicate for the keys lo..hi, and the loop over what it
\* returns.
RangeLoops(lo, hi, id) ==
    LET throws == \E i \in DOMAIN level_sst_ids : FileHasRange(ssts[level_sst_ids[i]], lo, hi)
        loops(a) == CASE a = Hangs -> {Hangs}
                      [] a # Hangs /\ NullFile -> {Failure}
                      [] a # Hangs /\ ~NullFile /\ id # 0 /\ throws -> {Throws}
                      [] OTHER -> {TwoMerge(a, b) : b \in HeapWalks(FileItems(lo, hi, id), id)}
    IN  UNION {loops(a) : a \in HeapWalks(TableItems(lo, hi, id), id)}

\* LSMEngine::begin.  SST::end returns nothing: with a file the loop up to it is undefined.
Begin ==
    IF level_sst_ids # <<>> THEN {Failure}
    ELSE {TwoMerge(a, <<>>) : a \in HeapWalks(TableItems(Min(Keys), Max(Keys), 0), 0)}
=============================================================================
