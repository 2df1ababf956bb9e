------------------------------ MODULE MemTable ------------------------------
(***************************************************************************)
(* The in-memory half of the store (memtable.cpp): one current table that  *)
(* takes every write and a list of frozen tables, newest first, waiting to *)
(* be written out.  A memtable is a record with the fields of the class;   *)
(* each operator is one member function, from a memtable to a memtable.    *)
(* The locks are left to the modules that interleave threads.              *)
(***************************************************************************)
EXTENDS SkipList, Sequences

CONSTANT PerMemLimit    \* LSM_PER_MEM_SIZE_LIMIT: a table this big is frozen

ASSUME PerMemLimitAssumption == PerMemLimit \in Nat \ {0}

\* SUBSET Version, cut down to the finite tables a program can hold.
Table == {T \in SUBSET Version : IsFiniteSet(T)}

MemTables == [current_table : Table, frozen_tables : Seq(Table), frozen_bytes : Int]

\* MemTable::MemTable.
NewMemTable ==
    [current_table |-> {}, frozen_tables |-> <<>>, frozen_bytes |-> 0]

\* MemTable::put_ and remove_ (v = Empty): no size check.
MemPut_(m, k, v, t) ==
    [m EXCEPT !.current_table = TablePut(m.current_table, k, v, t)]

\* TranContext::commit's loop of put_ over a map from keys to values.
MemPutAll_(m, map, t) ==
    [m EXCEPT !.current_table =
        {n \in m.current_table : ~(n.key \in DOMAIN map /\ n.tranc_id = t)}
            \cup {Node(k, map[k], t) : k \in DOMAIN map}]

\* Mutant: the frozen table's size is not added up.
FrozenCurTableUncounted(m) ==
    [m EXCEPT !.current_table = {},
              !.frozen_tables = <<m.current_table>> \o m.frozen_tables]

\* MemTable::frozen_cur_table_: the current table becomes the newest frozen one.
FrozenCurTable(m) ==
    [current_table |-> {},
     frozen_tables |-> <<m.current_table>> \o m.frozen_tables,
     frozen_bytes  |-> m.frozen_bytes + TableSize(m.current_table)]

\* MemTable::put and remove (v = Empty), and one turn of the loops of put_batch
\* and remove_batch: write, then freeze the table if it has reached its limit.
MemPut(m, k, v, t) ==
    LET w == MemPut_(m, k, v, t)
    IN  IF TableSize(w.current_table) >= PerMemLimit
        THEN FrozenCurTable(w) ELSE w

\* MemTable::get_total_size.
MemTotalSize(m) == m.frozen_bytes + TableSize(m.current_table)

\* The tables in the order they are searched: current, then frozen newest first.
TablesOf(m) == <<m.current_table>> \o m.frozen_tables

\* The first table of a sequence that has a visible version wins.
FirstHit(tables, k, t) ==
    IF \E i \in DOMAIN tables : Visible(tables[i], k, t) # {}
    THEN LET first == CHOOSE i \in DOMAIN tables :
                        /\ Visible(tables[i], k, t) # {}
                        /\ \A j \in 1..(i - 1) : Visible(tables[j], k, t) = {}
         IN  TableGet(tables[first], k, t)
    ELSE NoNode

\* Mutant: a removal in the current table does not end the search.
MemGetFallsThrough(m, k, t) ==
    LET hit == TableGet(m.current_table, k, t)
    IN  IF hit # NoNode /\ hit.value # Empty THEN hit
        ELSE FirstHit(m.frozen_tables, k, t)

\* MemTable::get and get_ (cur_get_, then frozen_get_).
MemGet(m, k, t) ==
    LET hit == TableGet(m.current_table, k, t)
    IN  IF hit # NoNode THEN hit ELSE FirstHit(m.frozen_tables, k, t)

\* MemTable::get_batch: a removal found in the current table is reported as "not
\* found yet", so the frozen tables are searched again below it.
MemGetBatch(m, k, t) ==
    LET hit == TableGet(m.current_table, k, t)
        frz == FirstHit(m.frozen_tables, k, t)
    IN  IF hit # NoNode /\ hit.value # Empty THEN hit
        ELSE IF frz # NoNode /\ frz.value # Empty THEN frz ELSE NoNode

\* MemTable::flush_last, first half: with no frozen table the current one is taken.
FreezeForFlush(m) ==
    IF m.frozen_tables = <<>> /\ m.current_table # {}
    THEN FrozenCurTable(m) ELSE m

\* MemTable::flush_last returns nullptr when there is nothing to write out.
NothingToFlush(m) == m.frozen_tables = <<>> /\ m.current_table = {}

\* The table flush_last writes out: the oldest one.
FlushedTable(m) ==
    LET frozen == FreezeForFlush(m).frozen_tables IN frozen[Len(frozen)]

\* Mutant: the newest frozen table is dropped in place of the oldest.
AfterFlushFront(m) ==
    LET f == FreezeForFlush(m)
    IN  IF NothingToFlush(m) THEN m
        ELSE [f EXCEPT !.frozen_tables = Tail(f.frozen_tables),
                       !.frozen_bytes  = f.frozen_bytes - TableSize(f.frozen_tables[1])]

\* Mutant: the size of the table that leaves is not subtracted.
AfterFlushUncounted(m) ==
    LET f == FreezeForFlush(m)
    IN  IF NothingToFlush(m) THEN m
        ELSE [f EXCEPT !.frozen_tables = SubSeq(@, 1, Len(@) - 1)]

\* The memtable flush_last leaves.
AfterFlush(m) ==
    LET f == FreezeForFlush(m)
        n == Len(f.frozen_tables)
    IN  IF NothingToFlush(m) THEN m
        ELSE [f EXCEPT !.frozen_tables = SubSeq(f.frozen_tables, 1, n - 1),
                       !.frozen_bytes  = f.frozen_bytes - TableSize(f.frozen_tables[n])]

\* MemTable::clear: frozen_bytes keeps its value.
AfterClear(m) ==
    [current_table |-> {}, frozen_tables |-> <<>>, frozen_bytes |-> m.frozen_bytes]

-----------------------------------------------------------------------------
(* What the order of the tables means for their readers *)

\* No table of a sequence holds a version of a key that is newer than one an
\* earlier table holds.
NewestTableFirst(tables, keys) ==
    \A i, j \in DOMAIN tables : i < j =>
        \A n \in tables[i], m \in tables[j] :
            n.key \in keys /\ n.key = m.key => m.tranc_id <= n.tranc_id

\* The versions in memory that no younger table has overwritten.
Resident(m) ==
    LET tables == TablesOf(m)
    IN  UNION {{n \in tables[i] :
                  \A j \in 1..(i - 1) : \A o \in tables[j] :
                     ~(o.key = n.key /\ o.tranc_id = n.tranc_id)} :
               i \in DOMAIN tables}
=============================================================================
