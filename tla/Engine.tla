------------------------------- MODULE Engine -------------------------------
(***************************************************************************)
(* The storage engine (LSMEngine of engine.cpp) used by one thread: the    *)
(* memtable and the SST files of level 0.  Compaction is never called, so  *)
(* no other level exists at run time.  An SST is the set of versions its   *)
(* file holds, all in one block; the layout of blocks is not modelled.     *)
(* The operators without primes are the reads, the primed ones what an     *)
(* engine call does to the state, to be conjoined with a caller's action.  *)
(***************************************************************************)
EXTENDS MemTable

CONSTANTS
    TotMemLimit,    \* LSM_TOL_MEM_SIZE_LIMIT: all tables together reach it: flush
    NullSst,        \* the null pointer flush() stores for an empty memtable
    Failure         \* a read that does not return: an exception, or a crash

ASSUME TotMemLimitAssumption == TotMemLimit \in Nat \ {0}

VARIABLES
    memtable,       \* LSMEngine::memtable
    level_sst_ids,  \* level_sst_ids[0], the newest file first
    ssts,           \* sst id -> its table
    next_sst_id

engineVars == <<memtable, level_sst_ids, ssts, next_sst_id>>

\* Every file of level 0 is one of ssts.
EngineTypeOK ==
    /\ memtable \in MemTables
    /\ level_sst_ids \in Seq(Nat)
    /\ next_sst_id \in Nat
    /\ DOMAIN ssts \subseteq Nat
    /\ ssts \in [DOMAIN ssts -> Table \cup {NullSst}]
    /\ \A i \in DOMAIN level_sst_ids : level_sst_ids[i] \in DOMAIN ssts

\* A new data directory.
EngineInit ==
    /\ memtable = NewMemTable
    /\ level_sst_ids = <<>>
    /\ ssts = [id \in {} |-> NullSst]
    /\ next_sst_id = 0

-----------------------------------------------------------------------------
(* Reads *)

\* SST::get through SstIterator::seek.  find_block_idx finds no block above the
\* last key; below the first key its unsigned bound wraps and it reads outside
\* meta_entries; inside the range a key the block lacks makes BlockIterator throw.
\* The block is searched with tranc_id 0, and the iterator answers for
\* get_tranc_id() with the id of the query.
SstGet(T, k, t) ==
    IF T = NullSst THEN Failure
    ELSE IF \A n \in T : n.key < k THEN NoNode
    ELSE IF Visible(T, k, 0) = {} THEN Failure
    ELSE [Newest(Visible(T, k, 0)) EXCEPT !.tranc_id = t]

\* LSMEngine::sst_get_: the loop over a level returns in its first turn.
SstGet_(k, t) ==
    IF level_sst_ids = <<>> THEN NoNode
    ELSE LET hit == SstGet(ssts[Head(level_sst_ids)], k, t)
         IN  IF hit \notin {NoNode, Failure} /\ hit.value = Empty
             THEN NoNode ELSE hit

\* LSMEngine::get: a removal found in the memtable ends the search.
EngineGet(k, t) ==
    LET hit == MemGet(memtable, k, t)
    IN  IF hit = NoNode THEN SstGet_(k, t)
        ELSE IF hit.value = Empty THEN NoNode ELSE hit

\* LSMEngine::get_batch, for one of its keys.
EngineGetBatch(k, t) ==
    LET hit == MemGetBatch(memtable, k, t)
    IN  IF hit = NoNode THEN SstGet_(k, t) ELSE hit

-----------------------------------------------------------------------------
(* Writes *)

\* Mutant: the new file goes to the back of level 0.
FlushFromAtBack(m) ==
    /\ next_sst_id' = next_sst_id + 1
    /\ memtable' = AfterFlush(m)
    /\ level_sst_ids' = Append(level_sst_ids, next_sst_id)
    /\ ssts' = [id \in DOMAIN ssts \cup {next_sst_id} |->
                    IF id # next_sst_id THEN ssts[id]
                    ELSE IF NothingToFlush(m) THEN NullSst ELSE FlushedTable(m)]

\* LSMEngine::flush, on the memtable m its caller has just written to.  The file
\* of an SST is its path, made from the id; an empty memtable gets an id too.
FlushFrom(m) ==
    /\ next_sst_id' = next_sst_id + 1
    /\ memtable' = AfterFlush(m)
    /\ level_sst_ids' = <<next_sst_id>> \o level_sst_ids
    /\ ssts' = [id \in DOMAIN ssts \cup {next_sst_id} |->
                    IF id # next_sst_id THEN ssts[id]
                    ELSE IF NothingToFlush(m) THEN NullSst ELSE FlushedTable(m)]

EngineFlush == FlushFrom(memtable)

\* The last lines of put, put_batch, remove and remove_batch.
FlushIfFull(m) ==
    \/ /\ MemTotalSize(m) >= TotMemLimit
       /\ FlushFrom(m)
    \/ /\ MemTotalSize(m) < TotMemLimit
       /\ memtable' = m
       /\ UNCHANGED <<level_sst_ids, ssts, next_sst_id>>

\* LSMEngine::put, and remove when v = Empty.
EnginePut(k, v, t) == FlushIfFull(MemPut(memtable, k, v, t))

\* One turn of MemTable::put_batch's or remove_batch's loop, with the flush of
\* LSMEngine::put_batch after the last.
EngineBatchTurn(k, v, t, last) ==
    LET m == MemPut(memtable, k, v, t)
    IN  \/ /\ last
           /\ FlushIfFull(m)
        \/ /\ ~last
           /\ memtable' = m
           /\ UNCHANGED <<level_sst_ids, ssts, next_sst_id>>

\* LSMEngine::clear: the files go too; next_sst_id is kept.
EngineClear ==
    /\ memtable' = AfterClear(memtable)
    /\ level_sst_ids' = <<>>
    /\ ssts' = [id \in {} |-> NullSst]
    /\ UNCHANGED next_sst_id
=============================================================================
