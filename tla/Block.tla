------------------------------- MODULE Block --------------------------------
(***************************************************************************)
(* A block of an SST (block.cpp, block_iterator.cpp): entries in the order *)
(* of a skip list (keys ascending, ids of one key descending), and one     *)
(* 16-bit offset per entry.  Every entry is one unit of data long, so that *)
(* an offset is the place of an entry; positions count from 0, as in the   *)
(* code.  Keys are numbers.                                                *)
(***************************************************************************)
EXTENDS Integers, SequencesExt

CONSTANTS
    OffsetRange,    \* an offset is a uint16_t: a number below OffsetRange
    Throws          \* an exception

ASSUME OffsetAssumption == OffsetRange \in Nat \ {0}

\* Block::Block, Block::add_entry that returns true.  Static casts cut the offset.
EmptyBlock == [data |-> <<>>, offsets |-> <<>>]
NumEntries(b) == Len(b.offsets)
EntryAt(b, i) == b.data[b.offsets[i + 1] + 1]

WithEntry(b, entry) ==
    [data    |-> Append(b.data, entry),
     offsets |-> Append(b.offsets, Len(b.data) % OffsetRange)]

\* Block::add_entry turns the entry down.
Overflows(b, capacity) == Len(b.data) + 1 > capacity

\* Block::get_first_key, Block::get_last_key.
FirstKey(b) == b.data[1].key
LastKey(b) == EntryAt(b, NumEntries(b) - 1).key

-----------------------------------------------------------------------------
(* Search *)

\* At the target or behind it, and visible (an id of 0 sees everything).
AtOrAfter(entry, key, id) ==
    IF entry.key = key THEN id = 0 \/ entry.tranc_id <= id ELSE entry.key > key

\* Loops that go on place by place, up to one in stop or to n, and back through S.
ScanTo(i, n, stop) ==
    LET f[j \in 0..n] == IF j = n \/ j \in stop THEN j ELSE f[j + 1]
    IN  f[i]

ScanBack(i, n, S) ==
    LET f[j \in 0..n] == IF j > 0 /\ j - 1 \in S THEN f[j - 1] ELSE j
    IN  f[i]

\* The loop of get_idx_binary: the first entry at the target or behind it, or the last.
Bisect(b, key, id) ==
    LET n == NumEntries(b)
        f[w \in (0..n) \X (0..n)] ==      \* l and r
            LET mid == (w[1] + w[2]) \div 2
            IN  IF w[1] >= w[2] THEN w[1]
                ELSE IF AtOrAfter(EntryAt(b, mid), key, id) THEN f[<<w[1], mid>>]
                ELSE f[<<mid + 1, w[2]>>]
    IN  f[<<0, n - 1>>]

\* Block::get_idx_binary: the set of its answer, empty for nullopt.
IdxBinary(b, key, id) ==
    IF NumEntries(b) = 0 THEN {}
    ELSE {i \in {Bisect(b, key, id)} :
             EntryAt(b, i).key = key /\ (id = 0 \/ EntryAt(b, i).tranc_id <= id)}

\* Mutant: the way back looks at one entry only.
AdjustIdxOnce(b, idx, id) ==
    LET n       == NumEntries(b)
        same    == {i \in 0..(n - 1) : EntryAt(b, i).key = EntryAt(b, idx).key}
        visible == {i \in 0..(n - 1) : id = 0 \/ EntryAt(b, i).tranc_id <= id}
        next    == ScanTo(idx, n, visible \cup ((0..n) \ same))
    IN  IF idx \in visible
        THEN IF idx - 1 \in same \cap visible THEN idx - 1 ELSE idx
        ELSE IF next \in same THEN next ELSE -1

\* Block::adjust_idx_by_tranc_id, is_same_key: from an entry to the newest visible one with
\* its key; -1 without one.
AdjustIdx(b, idx, id) ==
    LET n       == NumEntries(b)
        same    == {i \in 0..(n - 1) : EntryAt(b, i).key = EntryAt(b, idx).key}
        visible == {i \in 0..(n - 1) : id = 0 \/ EntryAt(b, i).tranc_id <= id}
        next    == ScanTo(idx, n, visible \cup ((0..n) \ same))
    IN  IF idx \in visible THEN ScanBack(idx, n, same \cap visible)
        ELSE IF next \in same THEN next ELSE -1

\* A predicate on keys that holds in lo..hi: 0 in it, 1 left of it, -1 right of it.
Side(key, lo, hi) == IF key < lo THEN 1 ELSE IF key > hi THEN -1 ELSE 0

\* The first loop of get_monotony_predicate_iters: it stops before it has looked at
\* the last place it is left with.
StartIdx(b, lo, hi) ==
    LET n == NumEntries(b)
        f[w \in (0..n) \X (0..n) \X (-1..n)] ==       \* l, r and start_idx
            LET mid  == (w[1] + w[2]) \div 2
                side == Side(EntryAt(b, mid).key, lo, hi)
            IN  IF w[1] >= w[2] THEN w[3]
                ELSE IF side < 0 THEN f[<<w[1], mid, w[3]>>]
                ELSE IF side = 0 THEN f[<<w[1], mid, mid>>]
                ELSE f[<<mid + 1, w[2], w[3]>>]
    IN  f[<<0, n - 1, -1>>]

\* Mutant: the middle is rounded down, and the place behind a match is passed over.
EndIdxDown(b, lo, hi, start_idx) ==
    LET n == NumEntries(b)
        f[w \in (0..n) \X (-1..n) \X (-1..n)] ==
            LET mid  == (w[1] + w[2] + 1) \div 2
                side == Side(EntryAt(b, mid).key, lo, hi)
            IN  IF w[1] >= w[2] THEN w[3]
                ELSE IF side > 0 THEN f[<<mid, w[2], w[3]>>]
                ELSE IF side = 0 THEN f[<<mid + 1, w[2], mid>>]
                ELSE f[<<w[1], mid - 1, w[3]>>]
    IN  f[<<start_idx, n - 1, -1>>]

\* The second loop, from the first match on.
EndIdx(b, lo, hi, start_idx) ==
    LET n == NumEntries(b)
        f[w \in (0..n) \X (-1..n) \X (-1..n)] ==      \* l, r and end_idx
            LET mid  == (w[1] + w[2] + 1) \div 2
                side == Side(EntryAt(b, mid).key, lo, hi)
            IN  IF w[1] >= w[2] THEN w[3]
                ELSE IF side > 0 THEN f[<<mid, w[2], w[3]>>]
                ELSE IF side = 0 THEN f[<<mid, w[2], mid>>]
                ELSE f[<<w[1], mid - 1, w[3]>>]
    IN  f[<<start_idx, n - 1, -1>>]

-----------------------------------------------------------------------------
(* BlockIterator: a place, the id it reads with, the keys it has passed, and *)
(* whether it has let go of its block.                                       *)

\* BlockIterator::BlockIterator with skip_by_tranc_id.
IteratorAt(b, i, id) ==
    LET n       == NumEntries(b)
        visible == {j \in 0..(n - 1) : id = 0 \/ EntryAt(b, j).tranc_id <= id}
    IN  [index |-> ScanTo(i, n, visible), tranc_id |-> id, prev_keys |-> {}, done |-> FALSE]

\* Mutant: the keys passed are not remembered.
StepForgetful(b, it) ==
    LET later == (it.index + 1)..(NumEntries(b) - 1)
    IN  IF it.done \/ it.index >= NumEntries(b) THEN it
        ELSE IF later # {}
        THEN [it EXCEPT !.index = it.index + 1]
        ELSE IF it.tranc_id = 0
        THEN [it EXCEPT !.index = NumEntries(b), !.done = TRUE]
        ELSE Throws

\* BlockIterator::operator++: the next visible entry with a key not passed yet.  Where
\* there is none, a reader without an id lets go of the block, and one with an id asks
\* for the offset of an entry that does not exist.
Step(b, it) ==
    LET later == {j \in (it.index + 1)..(NumEntries(b) - 1) :
                     /\ it.tranc_id = 0 \/ EntryAt(b, j).tranc_id <= it.tranc_id
                     /\ EntryAt(b, j).key \notin it.prev_keys}
    IN  IF it.done \/ it.index >= NumEntries(b) THEN it
        ELSE IF later # {}
        THEN LET next == CHOOSE j \in later : \A k \in later : j <= k
             IN  [it EXCEPT !.index = next, !.prev_keys = @ \cup {EntryAt(b, next).key}]
        ELSE IF it.tranc_id = 0
        THEN [it EXCEPT !.index = NumEntries(b), !.done = TRUE]
        ELSE Throws

\* get_monotony_predicate_iters for id 0: the set of its first iterator, empty for nullopt.
\* Where the second loop has found nothing, the two iterators are one, moved on by one.
RangeBegin(b, lo, hi) ==
    LET start_idx == StartIdx(b, lo, hi)
    IN  IF NumEntries(b) = 0 \/ start_idx = -1 THEN {}
        ELSE IF EndIdx(b, lo, hi, start_idx) = -1 THEN {Step(b, IteratorAt(b, start_idx, 0))}
        ELSE {IteratorAt(b, start_idx, 0)}

\* What a loop of ++ shows from an iterator on, with Throws behind it where ++ throws.
Walk(b, it) ==
    LET n == NumEntries(b)
        walk[i \in 0..n] == IF i = 0 THEN it
                            ELSE IF walk[i - 1] = Throws THEN Throws ELSE Step(b, walk[i - 1])
        shown[i \in 0..n] == IF walk[i] = Throws THEN <<Throws>>
                             ELSE IF walk[i].done \/ walk[i].index >= n THEN <<>>
                             ELSE <<EntryAt(b, walk[i].index)>> \o shown[i + 1]
    IN  shown[0]

\* The index of its second iterator, where it has one of its own.
RangeEnd(b, lo, hi) == EndIdx(b, lo, hi, StartIdx(b, lo, hi)) + 1

\* Block::iters_preffix, a prefix being the keys lo..hi: both indices by a scan.
PrefixRange(b, lo, hi) ==
    LET n     == NumEntries(b)
        match == {i \in 0..(n - 1) : EntryAt(b, i).key \in lo..hi}
        first == ScanTo(0, n, match)
    IN  IF first = n THEN {} ELSE {<<first, ScanTo(first, n, (0..n) \ match)>>}

\* The loop a caller writes, from the first iterator up to the second: what it shows, and
\* whether it ends.  An iterator that has let go of its block is not equal to one that has
\* not, whatever its index.
LoopTo(b, it, last) ==
    LET n == NumEntries(b)
        f[i \in 0..n, passed \in SUBSET {e.key : e \in Range(b.data)}] ==
            LET next == Step(b, [it EXCEPT !.index = i, !.prev_keys = passed])
            IN  IF i = last THEN <<>>
                ELSE <<EntryAt(b, i)>> \o (IF next = Throws \/ next.done THEN <<Throws>>
                                           ELSE f[next.index, next.prev_keys])
    IN  f[it.index, it.prev_keys]

-----------------------------------------------------------------------------
(* The bytes of a block: its data, its offsets and their number *)

\* Block::encode; the number is a uint16_t as well.
Encoded(b) == b.data \o b.offsets \o <<NumEntries(b) % OffsetRange>>

\* Block::decode.
Decoded(s) ==
    LET n   == Len(s)
        cnt == s[n]
    IN  [data    |-> SubSeq(s, 1, n - 1 - cnt),
         offsets |-> SubSeq(s, n - cnt, n - 1)]
=============================================================================
