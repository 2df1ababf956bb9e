-------------------------------- MODULE Sst ---------------------------------
(***************************************************************************)
(* An SST (sst.cpp, sst_iterator.cpp): SSTBuilder cuts the entries it is   *)
(* given, in the order of a skip list, into blocks and writes them, an     *)
(* index of them and the place of the index to a file; SST::open reads     *)
(* the file back.  A file is a sequence of units (entries, numbers, index  *)
(* entries); places in it count from 0.  The value of an entry is known by *)
(* its key and id.                                                         *)
(***************************************************************************)
EXTENDS Block

CONSTANTS
    Keys,               \* the keys, ordered as the integers
    MaxId,              \* bound: ids are 1..MaxId
    MaxEntries,         \* bound: entries of a file
    BlockSize,          \* LSM_BLOCK_SIZE, the capacity of the first block
    BlockSizes,         \* what SSTBuilder::block_size, never initialised, may hold
    NoSst, NoKey,       \* no file yet; a cleared first_key or last_key
    NoBlock,            \* find_block_idx's -1
    Wild                \* meta_entries read out of its bounds

ASSUME KeysAssumption == Keys \subseteq Int
ASSUME MaxIdAssumption == MaxId \in Nat
ASSUME FoundAssumption == Wild \notin Nat /\ NoBlock \notin Nat
ASSUME SizesAssumption ==
    BlockSize \in Nat /\ BlockSizes \subseteq Nat /\ BlockSize + 1 < OffsetRange

VARIABLES
    builder,    \* SSTBuilder
    sst,        \* the SST made by build or open
    file,       \* what the file on disk holds
    added       \* history: the entries added

vars == <<builder, sst, file, added>>

Entries == [key : Keys, tranc_id : 1..MaxId]
Reader == 0..MaxId

\* SkipListNode::operator<: the order in which flush_last adds entries.
Before(e, f) == e.key < f.key \/ (e.key = f.key /\ e.tranc_id > f.tranc_id)

-----------------------------------------------------------------------------
(* Building *)

\* SSTBuilder::SSTBuilder.
Init ==
    /\ \E size \in BlockSizes :
          builder = [block |-> EmptyBlock, capacity |-> BlockSize, block_size |-> size,
                     first_key |-> NoKey, last_key |-> NoKey,
                     meta_entries |-> <<>>, data |-> <<>>]
    /\ sst = NoSst
    /\ file = <<>>
    /\ added = <<>>

\* SSTBuilder::finish_block.
FinishBlock(w) ==
    [w EXCEPT !.meta_entries = Append(@, [offset |-> Len(w.data), first_key |-> w.first_key,
                                          last_key |-> w.last_key]),
              !.data = @ \o Encoded(w.block),
              !.block = EmptyBlock,
              !.capacity = w.block_size,
              !.first_key = NoKey, !.last_key = NoKey]

\* Mutant: the entry that does not fit begins the new block, but is the last key of the old.
AddedLate(w, e) ==
    LET k == [w EXCEPT !.first_key = IF NumEntries(w.block) = 0 THEN e.key ELSE @,
                       !.last_key = e.key]
    IN  IF Overflows(w.block, w.capacity) /\ NumEntries(w.block) > 0
        THEN [FinishBlock(k) EXCEPT !.block = WithEntry(EmptyBlock, e),
                                    !.first_key = e.key, !.last_key = e.key]
        ELSE [k EXCEPT !.block = WithEntry(@, e)]

\* SSTBuilder::add: an entry that does not fit is forced in and ends the block.
Added(w, e) ==
    LET k == [w EXCEPT !.first_key = IF NumEntries(w.block) = 0 THEN e.key ELSE @,
                       !.last_key = e.key,
                       !.block = WithEntry(@, e)]
    IN  IF Overflows(w.block, w.capacity) THEN FinishBlock(k) ELSE k

Add(e) ==
    /\ sst = NoSst
    /\ Len(added) < MaxEntries
    /\ added # <<>> => Before(Last(added), e)
    /\ builder' = Added(builder, e)
    /\ added' = Append(added, e)
    /\ UNCHANGED <<sst, file>>

Handle(metas, meta_offset) ==
    [meta_entries |-> metas, meta_block_offset |-> meta_offset,
     first_key |-> Head(metas).first_key, last_key |-> Last(metas).last_key]

\* SSTBuilder::build of something: with nothing added it throws, and nothing is made.
\* BlockMeta::encode_meta_to_slice puts the number of blocks before the index.
Build ==
    LET w == IF NumEntries(builder.block) = 0 THEN builder ELSE FinishBlock(builder)
    IN  /\ sst = NoSst
        /\ w.meta_entries # <<>>
        /\ builder' = w
        /\ file' = w.data \o <<Len(w.meta_entries)>> \o w.meta_entries \o <<Len(w.data)>>
        /\ sst' = Handle(w.meta_entries, Len(w.data))
        /\ UNCHANGED added

\* SST::open, with BlockMeta::decode_meta_from_slice.
Open ==
    LET meta_offset == Last(file)
        metas == SubSeq(file, meta_offset + 1, Len(file) - 1)
    IN  /\ sst # NoSst
        /\ sst' = Handle(SubSeq(metas, 2, 1 + metas[1]), meta_offset)
        /\ UNCHANGED <<builder, file, added>>

Next == (\E e \in Entries : Add(e)) \/ Build \/ Open

Spec == Init /\ [][Next]_vars

-----------------------------------------------------------------------------
(* Reading *)

NumBlocks == Len(sst.meta_entries)

\* SST::read_block.
ReadBlock(i) ==
    LET from == sst.meta_entries[i + 1].offset
        to   == IF i = NumBlocks - 1 THEN sst.meta_block_offset
                ELSE sst.meta_entries[i + 2].offset
    IN  Decoded(SubSeq(file, from + 1, to))

\* Mutant: only the first keys of the blocks are compared.
FindBlockByFirst(key) ==
    LET f[w \in (0..NumBlocks) \X (-1..(NumBlocks - 1))] ==
            LET mid   == w[1] + (w[2] - w[1]) \div 2
                first == sst.meta_entries[mid + 1].first_key
            IN  IF w[2] = -1 THEN Wild
                ELSE IF w[1] > w[2] THEN NoBlock
                ELSE IF key < first THEN f[<<w[1], mid - 1>>]
                ELSE IF key > first THEN f[<<mid + 1, w[2]>>]
                ELSE mid
    IN  f[<<0, NumBlocks - 1>>]

\* SST::find_block_idx.  Left of block 0 its unsigned bound becomes the largest size_t.
FindBlockIdx(key) ==
    LET f[w \in (0..NumBlocks) \X (-1..(NumBlocks - 1))] ==     \* left and right
            LET mid  == w[1] + (w[2] - w[1]) \div 2
                meta == sst.meta_entries[mid + 1]
            IN  IF w[2] = -1 THEN Wild
                ELSE IF w[1] > w[2] THEN NoBlock
                ELSE IF key < meta.first_key THEN f[<<w[1], mid - 1>>]
                ELSE IF key > meta.last_key THEN f[<<mid + 1, w[2]>>]
                ELSE mid
    IN  f[<<0, NumBlocks - 1>>]

\* SST::get, SstIterator::seek: the reader's id goes no further, the block is searched
\* with id 0.
Seek(key, id) ==
    LET i == FindBlockIdx(key)
    IN  IF i \in {Wild, NoBlock} THEN i
        ELSE LET idx == IdxBinary(ReadBlock(i), key, 0)
             IN  IF idx = {} THEN Throws ELSE EntryAt(ReadBlock(i), CHOOSE x \in idx : TRUE)


\* SstIterator::operator++ in a loop from an iterator in block i, for id 0: at the end of
\* a block it goes on with the next.
WalkOn(i, it) ==
    Walk(ReadBlock(i), it)
        \o FlattenSeq([j \in 1..(NumBlocks - 1 - i) |->
                          Walk(ReadBlock(i + j), IteratorAt(ReadBlock(i + j), 0, 0))])

\* sst_iters_monotony_predicate's first iterator, in a loop up to the end it returns.  That
\* end is never reached: SstIterator's == does not hold, so that only the end of the file ends
\* the loop.
RangeWalk(lo, hi) ==
    LET range == {i \in 0..(NumBlocks - 1) :
                     /\ \A j \in 0..i : sst.meta_entries[j + 1].first_key <= hi
                     /\ RangeBegin(ReadBlock(i), lo, hi) # {}}
        i == CHOOSE x \in range : \A y \in range : x <= y
    IN  IF range = {} THEN <<>>
        ELSE WalkOn(i, CHOOSE it \in RangeBegin(ReadBlock(i), lo, hi) : TRUE)
=============================================================================
