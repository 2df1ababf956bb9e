------------------------------ MODULE SstProps ------------------------------
(***************************************************************************)
(* What the files of Sst are checked for.  The code is compared with the   *)
(* plain meaning of each search: the first entry, the newest visible one,  *)
(* the entries of a range.  Where comments or tests of the repository say  *)
(* what the code does not do, the invariants leave the case open.          *)
(***************************************************************************)
EXTENDS Sst

Built == sst # NoSst

\* The offsets of a block, and their number, have not wrapped.
Exact(b) == Len(b.data) < OffsetRange
AllExact == \A i \in 0..(NumBlocks - 1) : Exact(ReadBlock(i))
Blocks == {ReadBlock(i) : i \in 0..(NumBlocks - 1)}

Indices(b) == 0..(NumEntries(b) - 1)
Sees(id, e) == id = 0 \/ e.tranc_id <= id
Least(S) == CHOOSE x \in S : \A y \in S : x <= y
Greatest(S) == CHOOSE x \in S : \A y \in S : y <= x
Matches(b, lo, hi) == {i \in Indices(b) : EntryAt(b, i).key \in lo..hi}

\* Entries up to the first of each key: what a walk that meets each key once shows.
FirstOfEachKey(s) ==
    LET first(i) == \A j \in 1..(i - 1) : s[j].key # s[i].key
    IN  FlattenSeq([i \in DOMAIN s |-> IF first(i) THEN <<s[i]>> ELSE <<>>])

\* s shows the places i..j-1 of b to a reader: the entry of place i, and the first one he
\* sees of every other key.
Shows(s, b, id, i, j) ==
    LET begin     == EntryAt(b, i)
        others(t) == SelectSeq(t, LAMBDA e : e # Throws /\ e.key # begin.key)
        seen      == SelectSeq(SubSeq(b.data, i + 1, j), LAMBDA e : Sees(id, e))
    IN  s # <<>> /\ Head(s) = begin /\ others(s) = FirstOfEachKey(others(seen))

\* The loop of a reader over the places first..last-1 of b, between two iterators.
LoopOver(b, first, last, id) == LoopTo(b, IteratorAt(b, first, id), IteratorAt(b, last, id).index)

\* The first block with a match of the range has two.
BeginsWithTwo(lo, hi) ==
    LET matched == {i \in 0..(NumBlocks - 1) : Matches(ReadBlock(i), lo, hi) # {}}
    IN  matched # {} /\ Cardinality(Matches(ReadBlock(Least(matched)), lo, hi)) > 1

\* Nothing is dropped, repeated or moved where a block ends: if block_size happens to hold
\* what offsets can count, the blocks read back one after the other are what was added, and
\* the index gives each its first and last key.  The first block, whose capacity is given, is
\* right whatever block_size holds.
NothingDropped ==
    Built =>
        LET right(i) ==
              /\ FirstKey(ReadBlock(i)) = sst.meta_entries[i + 1].first_key
              /\ LastKey(ReadBlock(i)) = sst.meta_entries[i + 1].last_key
        IN  /\ right(0) /\ ReadBlock(0).data = SubSeq(added, 1, Len(ReadBlock(0).data))
            /\ builder.block_size + 1 < OffsetRange =>
                  /\ \A i \in 0..(NumBlocks - 1) : right(i)
                  /\ FlattenSeq([i \in 1..NumBlocks |-> ReadBlock(i - 1).data]) = added
            /\ <<sst.first_key, sst.last_key>> = <<Head(added).key, Last(added).key>>

\* A search by key in the whole file, from its first key on, for a reader without an
\* id: a key whose versions all lie in one block is found at its newest, and one that goes
\* on in the next block in one of them, at the newest version of that block.  A key that is
\* not there ends in no block or in an exception, never in an entry of another key.
SeekExact ==
    Built /\ AllExact =>
        \A key \in Keys : key >= sst.first_key =>
            LET newest(s) == CHOOSE e \in Range(s) :
                                e.key = key /\ \A f \in Range(s) :
                                                   f.key = key => f.tranc_id <= e.tranc_id
                homes     == {i \in 0..(NumBlocks - 1) :
                                 \E e \in Range(ReadBlock(i).data) : e.key = key}
                hit       == Seek(key, 0)
            IN  IF homes = {} THEN hit \in {Throws, NoBlock}
                ELSE IF homes = {Least(homes)} THEN hit = newest(added)
                ELSE hit \in {newest(ReadBlock(i).data) : i \in homes}

\* In a block, for every reader: the binary search is the newest visible version of the key,
\* and the walk from any other version of it ends there too.
BinaryExact ==
    Built => \A b \in Blocks : Exact(b) =>
        \A id \in Reader, key \in Keys :
            LET seen == {i \in Indices(b) : EntryAt(b, i).key = key /\ Sees(id, EntryAt(b, i))}
                idx  == IF seen = {} THEN {} ELSE {Least(seen)}
            IN  /\ IdxBinary(b, key, id) = idx
                /\ \A i \in Indices(b) : EntryAt(b, i).key = key =>
                      AdjustIdx(b, i, id) = IF seen = {} THEN -1 ELSE Least(seen)

\* The range of a predicate, in a block: with two matches or more it begins at the first
\* and ends behind the last, with none there is no range.  A prefix range does so for every
\* number of matches.
RangeExact ==
    Built => \A b \in Blocks : Exact(b) =>
        \A lo, hi \in Keys :
            LET m == Matches(b, lo, hi)
            IN  /\ PrefixRange(b, lo, hi) =
                      IF m = {} THEN {} ELSE {<<Least(m), Greatest(m) + 1>>}
                /\ m = {} => RangeBegin(b, lo, hi) = {}
                /\ Cardinality(m) > 1 => /\ RangeBegin(b, lo, hi) = {IteratorAt(b, Least(m), 0)}
                                         /\ RangeEnd(b, lo, hi) = Greatest(m) + 1

\* Whoever reads, a walk from any entry shows it and then, of what is visible up to the end
\* of the block, the first entry of every other key: no key is left out, none comes in an
\* older version, none twice.  A loop over a range that ends before the block does shows in
\* that way what lies in the range, and ends.
WalkShows ==
    Built => \A b \in Blocks : Exact(b) =>
        \A id \in Reader :
            /\ \A from \in Indices(b) :
                  LET start == IteratorAt(b, from, id).index
                  IN  start < NumEntries(b) =>
                         Shows(Walk(b, IteratorAt(b, from, id)), b, id, start, NumEntries(b))
            /\ \A lo, hi \in Keys :
                  LET m     == Matches(b, lo, hi)
                      start == IteratorAt(b, Least(m), id).index
                      last  == IteratorAt(b, Greatest(m) + 1, id).index
                      loop  == LoopOver(b, Least(m), Greatest(m) + 1, id)
                  IN  m # {} /\ last < NumEntries(b) =>
                         /\ Throws \notin Range(loop)
                         /\ IF start = last THEN loop = <<>> ELSE Shows(loop, b, id, start, last)

=============================================================================
