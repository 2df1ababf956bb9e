--------------------------- MODULE MemTableProofs ---------------------------
(***************************************************************************)
(* What the operators of MemTable.tla return and preserve, for all keys,   *)
(* values and limits.                                                      *)
(***************************************************************************)
EXTENDS MemTable, CommonProofs

-----------------------------------------------------------------------------
(* Tables *)

\* The versions of a finite set include one with the greatest tranc_id.
LEMMA NewestIsGreatest ==
    ASSUME NEW S \in SUBSET Version, IsFiniteSet(S), S # {}
    PROVE  /\ Newest(S) \in S
           /\ \A m \in S : m.tranc_id <= Newest(S).tranc_id
<1> DEFINE Ids == {n.tranc_id : n \in S}
           id  == [n \in S |-> n.tranc_id]
<1>1. id \in Surjection(S, Ids)
  BY DEF Surjection
<1>2. IsFiniteSet(Ids)
  BY <1>1, FS_Surjection
<1>3. Ids \in SUBSET Nat /\ Ids # {}
  BY DEF Version
<1>4. PICK b \in Nat : \A i \in Ids : i <= b
  <2> HIDE DEF Ids
  <2>1. QED
    BY <1>2, <1>3, FiniteBounded
<1>5. PICK i \in Ids : \A j \in Ids : j <= i
  <2> HIDE DEF Ids
  <2>1. QED
    BY <1>3, <1>4, GreatestNat
<1>6. PICK n \in S : n.tranc_id = i
  OBVIOUS
<1>7. \A m \in S : m.tranc_id <= n.tranc_id
  BY <1>5, <1>6
<1>8. QED
  BY <1>7 DEF Newest

-----------------------------------------------------------------------------
(* One table *)

\* A node of a key, a value and an id is a version.
LEMMA NodeType ==
    ASSUME NEW k \in Keys, NEW v \in Payload, NEW t \in Nat
    PROVE  Node(k, v, t) \in Version
BY DEF Node, Version

\* SkipList::put leaves a finite set of versions.
LEMMA TablePutType ==
    ASSUME NEW T \in Table, NEW k \in Keys, NEW v \in Payload, NEW t \in Nat
    PROVE  TablePut(T, k, v, t) \in Table
<1> DEFINE kept == {n \in T : ~(n.key = k /\ n.tranc_id = t)}
<1>1. T \in SUBSET Version /\ IsFiniteSet(T)
  BY DEF Table
<1>2. kept \in SUBSET T
  OBVIOUS
<1>3. IsFiniteSet(kept)
  BY <1>1, <1>2, FS_Subset
<1>4. IsFiniteSet(kept \cup {Node(k, v, t)})
  BY <1>3, FS_AddElement
<1>5. TablePut(T, k, v, t) = kept \cup {Node(k, v, t)}
  BY DEF TablePut
<1>6. QED
  BY <1>1, <1>2, <1>4, <1>5, NodeType DEF Table

\* The table of a new memtable, and of one just frozen.
LEMMA EmptyTable == {} \in Table
BY FS_EmptySet DEF Table

\* The size of a table is a natural number.
LEMMA TableSizeType ==
    ASSUME NEW T \in Table
    PROVE  TableSize(T) \in Nat
BY FS_CardinalityType DEF Table, TableSize

\* What a reader may see of a table is a finite part of it.
LEMMA VisibleFinite ==
    ASSUME NEW T \in Table, NEW k, NEW t
    PROVE  Visible(T, k, t) \in SUBSET T /\ IsFiniteSet(Visible(T, k, t))
<1>1. IsFiniteSet(T)
  BY DEF Table
<1>2. Visible(T, k, t) \in SUBSET T
  BY DEF Visible
<1>3. QED
  BY <1>1, <1>2, FS_Subset

\* SkipList::get answers with the newest visible version, if there is one.
LEMMA TableGetIsNewest ==
    ASSUME NEW T \in Table, NEW k, NEW t
    PROVE  /\ Visible(T, k, t) = {} => TableGet(T, k, t) = NoNode
           /\ Visible(T, k, t) # {} =>
                 /\ TableGet(T, k, t) \in Visible(T, k, t)
                 /\ TableGet(T, k, t) \in Version
                 /\ TableGet(T, k, t) # NoNode
                 /\ \A n \in Visible(T, k, t) : n.tranc_id <= TableGet(T, k, t).tranc_id
<1>1. CASE Visible(T, k, t) = {}
  BY <1>1 DEF TableGet
<1>2. CASE Visible(T, k, t) # {}
  <2>1. TableGet(T, k, t) = Newest(Visible(T, k, t))
    BY <1>2 DEF TableGet
  <2>2. Visible(T, k, t) \in SUBSET Version /\ IsFiniteSet(Visible(T, k, t))
    BY VisibleFinite DEF Table
  <2>3. QED
    BY <1>2, <2>1, <2>2, NewestIsGreatest, NoNodeAssumption
<1>3. QED
  BY <1>1, <1>2

-----------------------------------------------------------------------------
(* The sequence of tables *)

\* The tables in search order: the current one, then the frozen ones.
LEMMA TablesOfType ==
    ASSUME NEW m \in MemTables
    PROVE  /\ TablesOf(m) \in Seq(Table)
           /\ Len(TablesOf(m)) = Len(m.frozen_tables) + 1
           /\ DOMAIN TablesOf(m) = 1..(Len(m.frozen_tables) + 1)
           /\ TablesOf(m)[1] = m.current_table
           /\ \A i \in DOMAIN m.frozen_tables : TablesOf(m)[i + 1] = m.frozen_tables[i]
           /\ \A i \in DOMAIN TablesOf(m) :
                 i # 1 => /\ i - 1 \in DOMAIN m.frozen_tables
                          /\ TablesOf(m)[i] = m.frozen_tables[i - 1]
<1>1. m.current_table \in Table /\ m.frozen_tables \in Seq(Table)
  BY DEF MemTables
<1>2. QED
  BY <1>1 DEF TablesOf

\* The first table with a visible version is the one that answers.
LEMMA FirstHitIsFirst ==
    ASSUME NEW tables \in Seq(Table), NEW k, NEW t
    PROVE  /\ (\A i \in DOMAIN tables : Visible(tables[i], k, t) = {}) =>
                 FirstHit(tables, k, t) = NoNode
           /\ (\E i \in DOMAIN tables : Visible(tables[i], k, t) # {}) =>
                 \E i \in DOMAIN tables :
                    /\ Visible(tables[i], k, t) # {}
                    /\ \A j \in 1..(i - 1) : Visible(tables[j], k, t) = {}
                    /\ FirstHit(tables, k, t) = TableGet(tables[i], k, t)
<1>1. CASE \A i \in DOMAIN tables : Visible(tables[i], k, t) = {}
  BY <1>1 DEF FirstHit
<1>2. CASE \E i \in DOMAIN tables : Visible(tables[i], k, t) # {}
  <2> DEFINE Hits == {i \in DOMAIN tables : Visible(tables[i], k, t) # {}}
             First(i) == /\ Visible(tables[i], k, t) # {}
                         /\ \A j \in 1..(i - 1) : Visible(tables[j], k, t) = {}
  <2>1. Hits \in SUBSET Nat /\ Hits # {}
    <3>1. DOMAIN tables = 1..Len(tables) /\ Len(tables) \in Nat
      OBVIOUS
    <3>2. DOMAIN tables \in SUBSET Nat
      BY <3>1
    <3>3. QED
      BY <3>2, <1>2
  <2>2. PICK i \in Hits : \A j \in Hits : i <= j
    <3> HIDE DEF Hits
    <3>1. QED
      BY <2>1, LeastNat
  <2>3. i \in DOMAIN tables /\ First(i)
    <3>1. ASSUME NEW j \in 1..(i - 1) PROVE Visible(tables[j], k, t) = {}
      <4>1. j \in DOMAIN tables /\ ~(i <= j)
        OBVIOUS
      <4>2. j \notin Hits
        BY <4>1, <2>2
      <4>3. QED
        BY <4>1, <4>2
    <3>2. QED
      BY <3>1, <2>2
  <2> DEFINE first == CHOOSE j \in DOMAIN tables : First(j)
  <2>4. first \in DOMAIN tables /\ First(first)
    <3> HIDE DEF First
    <3>1. QED
      BY <2>3
  <2>5. FirstHit(tables, k, t) = TableGet(tables[first], k, t)
    BY <1>2 DEF FirstHit
  <2> HIDE DEF first
  <2>6. QED
    BY <2>4, <2>5, <1>2
<1>3. QED
  BY <1>1, <1>2

\* MemTable::get looks into the tables in the order of TablesOf.
LEMMA MemGetIsFirst ==
    ASSUME NEW m \in MemTables, NEW k, NEW t
    PROVE  /\ (\A i \in DOMAIN TablesOf(m) : Visible(TablesOf(m)[i], k, t) = {}) =>
                 MemGet(m, k, t) = NoNode
           /\ (\E i \in DOMAIN TablesOf(m) : Visible(TablesOf(m)[i], k, t) # {}) =>
                 \E i \in DOMAIN TablesOf(m) :
                    /\ Visible(TablesOf(m)[i], k, t) # {}
                    /\ \A j \in 1..(i - 1) : Visible(TablesOf(m)[j], k, t) = {}
                    /\ MemGet(m, k, t) = TableGet(TablesOf(m)[i], k, t)
<1> DEFINE tables == TablesOf(m)
           frozen == m.frozen_tables
<1>1. /\ m.current_table \in Table
      /\ frozen \in Seq(Table)
      /\ DOMAIN tables = 1..(Len(frozen) + 1)
      /\ tables[1] = m.current_table
      /\ \A i \in DOMAIN frozen : tables[i + 1] = frozen[i]
      /\ \A i \in DOMAIN tables :
            i # 1 => i - 1 \in DOMAIN frozen /\ tables[i] = frozen[i - 1]
  BY TablesOfType DEF MemTables
<1> HIDE DEF tables, frozen
<1>2. CASE Visible(m.current_table, k, t) # {}
  <2>1. MemGet(m, k, t) = TableGet(tables[1], k, t)
    BY <1>1, <1>2, TableGetIsNewest DEF MemGet
  <2>2. 1 \in DOMAIN tables /\ 1..(1 - 1) = {}
    BY <1>1
  <2>3. QED
    BY <1>1, <1>2, <2>1, <2>2 DEF tables
<1>3. CASE Visible(m.current_table, k, t) = {}
  <2>1. MemGet(m, k, t) = FirstHit(frozen, k, t)
    BY <1>1, <1>3, TableGetIsNewest DEF MemGet, frozen
  <2>2. CASE \A i \in DOMAIN frozen : Visible(frozen[i], k, t) = {}
    <3>1. \A i \in DOMAIN tables : Visible(tables[i], k, t) = {}
      BY <1>1, <1>3, <2>2
    <3>2. QED
      BY <1>1, <2>1, <2>2, <3>1, FirstHitIsFirst DEF tables
  <2>3. CASE \E i \in DOMAIN frozen : Visible(frozen[i], k, t) # {}
    <3>1. PICK i \in DOMAIN frozen :
             /\ Visible(frozen[i], k, t) # {}
             /\ \A j \in 1..(i - 1) : Visible(frozen[j], k, t) = {}
             /\ FirstHit(frozen, k, t) = TableGet(frozen[i], k, t)
      BY <1>1, <2>3, FirstHitIsFirst
    <3>2. i + 1 \in DOMAIN tables /\ tables[i + 1] = frozen[i]
      BY <1>1
    <3>3. ASSUME NEW j \in 1..((i + 1) - 1) PROVE Visible(tables[j], k, t) = {}
      <4>1. CASE j = 1
        BY <4>1, <1>1, <1>3
      <4>2. CASE j # 1
        <5>1. j - 1 \in 1..(i - 1) /\ j - 1 \in DOMAIN frozen
          BY <1>1, <4>2
        <5>2. tables[j] = frozen[j - 1]
          BY <1>1, <5>1
        <5>3. QED
          BY <3>1, <5>1, <5>2
      <4>3. QED
        BY <4>1, <4>2
    <3>4. Visible(tables[i + 1], k, t) # {}
      BY <3>1, <3>2
    <3>5. MemGet(m, k, t) = TableGet(tables[i + 1], k, t)
      BY <2>1, <3>1, <3>2
    <3>6. QED
      BY <3>2, <3>3, <3>4, <3>5 DEF tables
  <2>4. QED
    BY <2>2, <2>3
<1>4. QED
  BY <1>2, <1>3

-----------------------------------------------------------------------------
(* Types *)

\* MemTable::put_ keeps the types.
LEMMA MemPut_Type ==
    ASSUME NEW m \in MemTables, NEW k \in Keys, NEW v \in Payload, NEW t \in Nat
    PROVE  MemPut_(m, k, v, t) \in MemTables
<1>1. TablePut(m.current_table, k, v, t) \in Table
  BY TablePutType DEF MemTables
<1>2. QED
  BY <1>1 DEF MemPut_, MemTables

\* MemTable::frozen_cur_table_ keeps the types.
LEMMA FrozenCurTableType ==
    ASSUME NEW m \in MemTables
    PROVE  FrozenCurTable(m) \in MemTables
<1>1. /\ m.current_table \in Table
      /\ m.frozen_tables \in Seq(Table)
      /\ m.frozen_bytes \in Int
  BY DEF MemTables
<1>2. TableSize(m.current_table) \in Nat
  BY <1>1, TableSizeType
<1>3. <<m.current_table>> \o m.frozen_tables \in Seq(Table)
  BY <1>1
<1>4. m.frozen_bytes + TableSize(m.current_table) \in Int
  BY <1>1, <1>2
<1>5. QED
  BY <1>3, <1>4, EmptyTable DEF FrozenCurTable, MemTables

\* MemTable::put keeps the types.
LEMMA MemPutType ==
    ASSUME NEW m \in MemTables, NEW k \in Keys, NEW v \in Payload, NEW t \in Nat
    PROVE  MemPut(m, k, v, t) \in MemTables
BY MemPut_Type, FrozenCurTableType DEF MemPut

\* A map of a transaction: finitely many keys.
LEMMA MemPutAll_Type ==
    ASSUME NEW m \in MemTables, NEW D \in SUBSET Keys, IsFiniteSet(D),
           NEW map \in [D -> Payload], NEW t \in Nat
    PROVE  MemPutAll_(m, map, t) \in MemTables
<1> DEFINE T    == m.current_table
           kept == {n \in T : ~(n.key \in DOMAIN map /\ n.tranc_id = t)}
           new  == {Node(k, map[k], t) : k \in DOMAIN map}
           node == [k \in D |-> Node(k, map[k], t)]
<1>1. T \in SUBSET Version /\ IsFiniteSet(T)
  BY DEF MemTables, Table
<1>2. IsFiniteSet(kept)
  <2>1. kept \in SUBSET T
    OBVIOUS
  <2>2. QED
    BY <1>1, <2>1, FS_Subset
<1>3. IsFiniteSet(new)
  <2>1. node \in Surjection(D, new)
    BY DEF Surjection
  <2>2. QED
    BY <2>1, FS_Surjection
<1>4. IsFiniteSet(kept \cup new)
  BY <1>2, <1>3, FS_Union
<1>5. new \in SUBSET Version
  BY NodeType
<1>6. kept \cup new \in Table
  BY <1>1, <1>4, <1>5 DEF Table
<1>7. MemPutAll_(m, map, t) = [m EXCEPT !.current_table = kept \cup new]
  BY DEF MemPutAll_
<1> HIDE DEF kept, new
<1>8. QED
  BY <1>6, <1>7 DEF MemTables

\* flush_last, having frozen the current table if need be, has a table to take.
LEMMA FreezeForFlushType ==
    ASSUME NEW m \in MemTables, ~NothingToFlush(m)
    PROVE  /\ FreezeForFlush(m) \in MemTables
           /\ FreezeForFlush(m).frozen_tables # <<>>
<1>1. CASE m.frozen_tables = <<>>
  <2>1. FreezeForFlush(m) = FrozenCurTable(m)
    BY <1>1 DEF FreezeForFlush, NothingToFlush
  <2>2. m.current_table \in Table /\ m.frozen_tables \in Seq(Table)
    BY DEF MemTables
  <2>3. FrozenCurTable(m).frozen_tables # <<>>
    BY <2>2 DEF FrozenCurTable
  <2>4. QED
    BY <2>1, <2>3, FrozenCurTableType
<1>2. CASE m.frozen_tables # <<>>
  BY <1>2 DEF FreezeForFlush
<1>3. QED
  BY <1>1, <1>2

\* What flush_last writes out is a table.
LEMMA FlushedTableType ==
    ASSUME NEW m \in MemTables, ~NothingToFlush(m)
    PROVE  FlushedTable(m) \in Table
<1>1. /\ FreezeForFlush(m).frozen_tables \in Seq(Table)
      /\ FreezeForFlush(m).frozen_tables # <<>>
  BY FreezeForFlushType DEF MemTables
<1>2. QED
  BY <1>1 DEF FlushedTable

\* MemTable::flush_last keeps the types.
LEMMA AfterFlushType ==
    ASSUME NEW m \in MemTables
    PROVE  AfterFlush(m) \in MemTables
<1>1. CASE NothingToFlush(m)
  BY <1>1 DEF AfterFlush
<1>2. CASE ~NothingToFlush(m)
  <2> DEFINE f == FreezeForFlush(m)
             n == Len(f.frozen_tables)
  <2>1. /\ f \in MemTables
        /\ f.frozen_tables \in Seq(Table)
        /\ f.frozen_bytes \in Int
        /\ n \in Nat /\ n # 0
    BY <1>2, FreezeForFlushType DEF MemTables
  <2>2. TableSize(f.frozen_tables[n]) \in Nat
    BY <2>1, TableSizeType
  <2>3. SubSeq(f.frozen_tables, 1, n - 1) \in Seq(Table)
    BY <2>1
  <2>4. f.frozen_bytes - TableSize(f.frozen_tables[n]) \in Int
    BY <2>1, <2>2
  <2>5. AfterFlush(m) =
          [f EXCEPT !.frozen_tables = SubSeq(f.frozen_tables, 1, n - 1),
                    !.frozen_bytes  = f.frozen_bytes - TableSize(f.frozen_tables[n])]
    BY <1>2 DEF AfterFlush
  <2> HIDE DEF f, n
  <2>6. QED
    BY <2>1, <2>3, <2>4, <2>5 DEF MemTables
<1>3. QED
  BY <1>1, <1>2

\* MemTable::clear keeps the types.
LEMMA AfterClearType ==
    ASSUME NEW m \in MemTables
    PROVE  AfterClear(m) \in MemTables
<1>1. m.frozen_bytes \in Int /\ <<>> \in Seq(Table)
  BY DEF MemTables
<1>2. QED
  BY <1>1, EmptyTable DEF AfterClear, MemTables

-----------------------------------------------------------------------------
(* Versions, and the order of the tables *)

\* All versions in memory.
VersionsIn(m) == UNION {TablesOf(m)[i] : i \in DOMAIN TablesOf(m)}

\* No version of U is newer than one of its key in T.
Above(T, U) ==
    \A n \in T, o \in U : n.key \in Keys /\ n.key = o.key => o.tranc_id <= n.tranc_id

InOrder(m) == NewestTableFirst(TablesOf(m), Keys)

\* At most one version for a key and a tranc_id.
DistinctIds(T) ==
    \A n, o \in T : n.key = o.key /\ n.tranc_id = o.tranc_id => n = o

TablesDistinct(m) == \A i \in DOMAIN TablesOf(m) : DistinctIds(TablesOf(m)[i])

\* The versions in memory are those of the current table and of the frozen ones.
LEMMA VersionsInParts ==
    ASSUME NEW m \in MemTables
    PROVE  \A n : n \in VersionsIn(m) <=>
              \/ n \in m.current_table
              \/ \E i \in DOMAIN m.frozen_tables : n \in m.frozen_tables[i]
<1> DEFINE tables == TablesOf(m)
           frozen == m.frozen_tables
<1>1. /\ DOMAIN tables = 1..(Len(frozen) + 1)
      /\ DOMAIN frozen = 1..Len(frozen)
      /\ Len(frozen) \in Nat
      /\ tables[1] = m.current_table
      /\ \A i \in DOMAIN frozen : tables[i + 1] = frozen[i]
      /\ \A i \in DOMAIN tables :
            i # 1 => i - 1 \in DOMAIN frozen /\ tables[i] = frozen[i - 1]
  BY TablesOfType DEF MemTables
<1>2. \A n : n \in VersionsIn(m) <=> \E i \in DOMAIN tables : n \in tables[i]
  BY DEF VersionsIn
<1> HIDE DEF tables, frozen
<1>3. TAKE n
<1>4. ASSUME NEW i \in DOMAIN tables, n \in tables[i]
      PROVE  n \in m.current_table \/ \E j \in DOMAIN frozen : n \in frozen[j]
  BY <1>1, <1>4
<1>5. n \in m.current_table => \E i \in DOMAIN tables : n \in tables[i]
  <2>1. 1 \in DOMAIN tables
    BY <1>1
  <2>2. QED
    BY <1>1, <2>1
<1>6. ASSUME NEW j \in DOMAIN frozen, n \in frozen[j]
      PROVE  \E i \in DOMAIN tables : n \in tables[i]
  <2>1. j + 1 \in DOMAIN tables
    BY <1>1
  <2>2. QED
    BY <1>1, <1>6, <2>1
<1>7. QED
  BY <1>2, <1>4, <1>5, <1>6 DEF frozen

\* Memory is in order if the current table is above every frozen one and those are
\* in order among themselves.
LEMMA InOrderParts ==
    ASSUME NEW m \in MemTables
    PROVE  InOrder(m) <=>
              /\ \A i \in DOMAIN m.frozen_tables : Above(m.current_table, m.frozen_tables[i])
              /\ NewestTableFirst(m.frozen_tables, Keys)
<1> DEFINE tables == TablesOf(m)
           frozen == m.frozen_tables
<1>1. /\ DOMAIN tables = 1..(Len(frozen) + 1)
      /\ DOMAIN frozen = 1..Len(frozen)
      /\ Len(frozen) \in Nat
      /\ tables[1] = m.current_table
      /\ \A i \in DOMAIN frozen : tables[i + 1] = frozen[i]
      /\ \A i \in DOMAIN tables :
            i # 1 => i - 1 \in DOMAIN frozen /\ tables[i] = frozen[i - 1]
  BY TablesOfType DEF MemTables
<1>2. NewestTableFirst(tables, Keys) <=>
         \A i, j \in DOMAIN tables : i < j => Above(tables[i], tables[j])
  BY DEF NewestTableFirst, Above
<1>3. NewestTableFirst(frozen, Keys) <=>
         \A i, j \in DOMAIN frozen : i < j => Above(frozen[i], frozen[j])
  BY DEF NewestTableFirst, Above
<1> HIDE DEF tables, frozen
<1>4. ASSUME NewestTableFirst(tables, Keys)
      PROVE  /\ \A i \in DOMAIN frozen : Above(m.current_table, frozen[i])
             /\ NewestTableFirst(frozen, Keys)
  <2>1. ASSUME NEW i \in DOMAIN frozen PROVE Above(m.current_table, frozen[i])
    <3>1. 1 \in DOMAIN tables /\ i + 1 \in DOMAIN tables /\ 1 < i + 1
      BY <1>1
    <3>2. QED
      BY <1>1, <1>2, <1>4, <3>1
  <2>2. ASSUME NEW i \in DOMAIN frozen, NEW j \in DOMAIN frozen, i < j
        PROVE  Above(frozen[i], frozen[j])
    <3>1. i + 1 \in DOMAIN tables /\ j + 1 \in DOMAIN tables /\ i + 1 < j + 1
      BY <1>1, <2>2
    <3>2. QED
      BY <1>1, <1>2, <1>4, <3>1
  <2>3. QED
    BY <1>3, <2>1, <2>2
<1>5. ASSUME \A i \in DOMAIN frozen : Above(m.current_table, frozen[i]),
             NewestTableFirst(frozen, Keys)
      PROVE  NewestTableFirst(tables, Keys)
  <2>1. ASSUME NEW i \in DOMAIN tables, NEW j \in DOMAIN tables, i < j
        PROVE  Above(tables[i], tables[j])
    <3>1. j # 1 /\ j - 1 \in DOMAIN frozen /\ tables[j] = frozen[j - 1]
      BY <1>1, <2>1
    <3>2. CASE i = 1
      BY <1>1, <1>5, <3>1, <3>2
    <3>3. CASE i # 1
      <4>1. i - 1 \in DOMAIN frozen /\ tables[i] = frozen[i - 1] /\ i - 1 < j - 1
        BY <1>1, <2>1, <3>3
      <4>2. QED
        BY <1>3, <1>5, <3>1, <4>1
    <3>4. QED
      BY <3>2, <3>3
  <2>2. QED
    BY <1>2, <2>1
<1>6. QED
  BY <1>4, <1>5 DEF InOrder, tables, frozen

\* Ids are distinct in every table if they are in the current one and in the frozen
\* ones.
LEMMA TablesDistinctParts ==
    ASSUME NEW m \in MemTables
    PROVE  TablesDistinct(m) <=>
              /\ DistinctIds(m.current_table)
              /\ \A i \in DOMAIN m.frozen_tables : DistinctIds(m.frozen_tables[i])
<1> DEFINE tables == TablesOf(m)
           frozen == m.frozen_tables
<1>1. /\ DOMAIN tables = 1..(Len(frozen) + 1)
      /\ DOMAIN frozen = 1..Len(frozen)
      /\ Len(frozen) \in Nat
      /\ tables[1] = m.current_table
      /\ \A i \in DOMAIN frozen : tables[i + 1] = frozen[i]
      /\ \A i \in DOMAIN tables :
            i # 1 => i - 1 \in DOMAIN frozen /\ tables[i] = frozen[i - 1]
  BY TablesOfType DEF MemTables
<1>2. TablesDistinct(m) <=> \A i \in DOMAIN tables : DistinctIds(tables[i])
  BY DEF TablesDistinct
<1> HIDE DEF tables, frozen
<1>3. 1 \in DOMAIN tables /\ \A i \in DOMAIN frozen : i + 1 \in DOMAIN tables
  BY <1>1
<1>4. TablesDistinct(m) => /\ DistinctIds(m.current_table)
                           /\ \A i \in DOMAIN frozen : DistinctIds(frozen[i])
  BY <1>1, <1>2, <1>3
<1>5. /\ DistinctIds(m.current_table)
      /\ \A i \in DOMAIN frozen : DistinctIds(frozen[i])
      => TablesDistinct(m)
  BY <1>1, <1>2
<1>6. QED
  BY <1>4, <1>5 DEF frozen

\* The current table takes versions that are as new as all those of their keys.
LEMMA NewCurrentTable ==
    ASSUME NEW m \in MemTables, NEW T \in Table, NEW new,
           T \subseteq m.current_table \cup new
    PROVE  LET w == [m EXCEPT !.current_table = T]
           IN  /\ VersionsIn(w) \subseteq VersionsIn(m) \cup new
               /\ TablesDistinct(m) /\ DistinctIds(T) => TablesDistinct(w)
               /\ /\ InOrder(m)
                  /\ \A n \in new, o \in VersionsIn(m) :
                        o.key = n.key => o.tranc_id <= n.tranc_id
                  => InOrder(w)
<1> DEFINE w == [m EXCEPT !.current_table = T]
<1>1. /\ w \in MemTables
      /\ w.current_table = T
      /\ w.frozen_tables = m.frozen_tables
  BY DEF MemTables
<1> HIDE DEF w
<1>2. VersionsIn(w) \subseteq VersionsIn(m) \cup new
  BY <1>1, VersionsInParts
<1>3. TablesDistinct(m) /\ DistinctIds(T) => TablesDistinct(w)
  BY <1>1, TablesDistinctParts
<1>4. ASSUME InOrder(m),
             \A n \in new, o \in VersionsIn(m) :
                o.key = n.key => o.tranc_id <= n.tranc_id
      PROVE  InOrder(w)
  <2>1. ASSUME NEW i \in DOMAIN m.frozen_tables
        PROVE  Above(T, m.frozen_tables[i])
    <3>1. Above(m.current_table, m.frozen_tables[i])
      BY <1>4, InOrderParts
    <3>2. \A o \in m.frozen_tables[i] : o \in VersionsIn(m)
      BY VersionsInParts
    <3>3. QED
      BY <1>4, <3>1, <3>2 DEF Above
  <2>2. NewestTableFirst(m.frozen_tables, Keys)
    BY <1>4, InOrderParts
  <2>3. QED
    BY <1>1, <2>1, <2>2, InOrderParts
<1>5. QED
  BY <1>2, <1>3, <1>4 DEF w

\* A freeze moves versions without changing what is in memory or its order.
LEMMA FrozenCurTableKeeps ==
    ASSUME NEW m \in MemTables
    PROVE  /\ VersionsIn(FrozenCurTable(m)) = VersionsIn(m)
           /\ InOrder(m) => InOrder(FrozenCurTable(m))
           /\ TablesDistinct(m) => TablesDistinct(FrozenCurTable(m))
<1> DEFINE f == FrozenCurTable(m)
<1>1. /\ f \in MemTables
      /\ f.current_table = {}
      /\ f.frozen_tables = TablesOf(m)
  BY FrozenCurTableType DEF FrozenCurTable, TablesOf
<1> HIDE DEF f
<1>2. \A n : n \in VersionsIn(f) <=> n \in VersionsIn(m)
  BY <1>1, VersionsInParts DEF VersionsIn
<1>3. InOrder(m) => InOrder(f)
  <2>1. \A U : Above({}, U)
    BY DEF Above
  <2>2. QED
    BY <1>1, <2>1, InOrderParts DEF InOrder
<1>4. TablesDistinct(m) => TablesDistinct(f)
  <2>1. DistinctIds({})
    BY DEF DistinctIds
  <2>2. QED
    BY <1>1, <2>1, TablesDistinctParts DEF TablesDistinct
<1>5. QED
  BY <1>2, <1>3, <1>4 DEF f

\* MemTable::put of an id as new as the versions of its key.
LEMMA MemPutKeeps ==
    ASSUME NEW m \in MemTables, NEW k \in Keys, NEW v \in Payload, NEW t \in Nat
    PROVE  /\ VersionsIn(MemPut(m, k, v, t)) \subseteq VersionsIn(m) \cup {Node(k, v, t)}
           /\ TablesDistinct(m) => TablesDistinct(MemPut(m, k, v, t))
           /\ /\ InOrder(m)
              /\ \A o \in VersionsIn(m) : o.key = k => o.tranc_id <= t
              => InOrder(MemPut(m, k, v, t))
<1> DEFINE T == TablePut(m.current_table, k, v, t)
           w == MemPut_(m, k, v, t)
<1>1. T \in Table /\ w \in MemTables /\ w = [m EXCEPT !.current_table = T]
  BY TablePutType, MemPut_Type DEF MemPut_, MemTables
<1>2. T \subseteq m.current_table \cup {Node(k, v, t)}
  BY DEF TablePut
<1>3. DistinctIds(m.current_table) => DistinctIds(T)
  BY DEF DistinctIds, TablePut, Node
<1>4. Node(k, v, t).key = k /\ Node(k, v, t).tranc_id = t
  BY DEF Node
<1>5. MemPut(m, k, v, t) \in {w, FrozenCurTable(w)}
  BY DEF MemPut
<1> HIDE DEF T, w
<1>6. /\ VersionsIn(w) \subseteq VersionsIn(m) \cup {Node(k, v, t)}
      /\ TablesDistinct(m) => TablesDistinct(w)
      /\ /\ InOrder(m)
         /\ \A o \in VersionsIn(m) : o.key = k => o.tranc_id <= t
         => InOrder(w)
  <2>1. \A n \in {Node(k, v, t)} : n.key = k /\ n.tranc_id = t
    BY <1>4
  <2>2. TablesDistinct(m) => DistinctIds(T)
    BY <1>3, TablesDistinctParts
  <2>3. /\ VersionsIn(w) \subseteq VersionsIn(m) \cup {Node(k, v, t)}
        /\ TablesDistinct(m) /\ DistinctIds(T) => TablesDistinct(w)
        /\ /\ InOrder(m)
           /\ \A n \in {Node(k, v, t)}, o \in VersionsIn(m) :
                 o.key = n.key => o.tranc_id <= n.tranc_id
           => InOrder(w)
    BY <1>1, <1>2, NewCurrentTable
  <2>4. QED
    BY <2>1, <2>2, <2>3
<1>7. CASE MemPut(m, k, v, t) = w
  BY <1>6, <1>7
<1>8. CASE MemPut(m, k, v, t) = FrozenCurTable(w)
  BY <1>1, <1>6, <1>8, FrozenCurTableKeeps
<1>9. QED
  BY <1>5, <1>7, <1>8

\* The loop of TranContext::commit, for a map whose keys have no newer version.
LEMMA MemPutAll_Keeps ==
    ASSUME NEW m \in MemTables, NEW D \in SUBSET Keys, IsFiniteSet(D),
           NEW map \in [D -> Payload], NEW t \in Nat
    PROVE  /\ \A n \in VersionsIn(MemPutAll_(m, map, t)) :
                 n \in VersionsIn(m) \/ (n.key \in D /\ n.tranc_id = t)
           /\ TablesDistinct(m) => TablesDistinct(MemPutAll_(m, map, t))
           /\ /\ InOrder(m)
              /\ \A o \in VersionsIn(m) : o.key \in D => o.tranc_id <= t
              => InOrder(MemPutAll_(m, map, t))
<1> DEFINE kept == {n \in m.current_table : ~(n.key \in DOMAIN map /\ n.tranc_id = t)}
           new  == {Node(k, map[k], t) : k \in DOMAIN map}
           T    == kept \cup new
           w    == MemPutAll_(m, map, t)
<1>1. w \in MemTables /\ w = [m EXCEPT !.current_table = T]
  BY MemPutAll_Type DEF MemPutAll_
<1>2. w.current_table = T
  BY <1>1 DEF MemTables
<1>3. T \in Table
  BY <1>1, <1>2 DEF MemTables
<1>4. T \subseteq m.current_table \cup new
  OBVIOUS
<1>5. \A n \in new : n.key \in D /\ n.tranc_id = t
  BY DEF Node
<1>6. DistinctIds(m.current_table) => DistinctIds(T)
  <2>1. \A n, o \in new : n.key = o.key => n = o
    BY DEF Node
  <2>2. \A n \in kept : n \in m.current_table /\ ~(n.key \in D /\ n.tranc_id = t)
    OBVIOUS
  <2> HIDE DEF new, kept
  <2>3. QED
    BY <1>5, <2>1, <2>2 DEF DistinctIds
<1> HIDE DEF T, w, new, kept
<1>7. /\ VersionsIn(w) \subseteq VersionsIn(m) \cup new
      /\ TablesDistinct(m) /\ DistinctIds(T) => TablesDistinct(w)
      /\ /\ InOrder(m)
         /\ \A n \in new, o \in VersionsIn(m) : o.key = n.key => o.tranc_id <= n.tranc_id
         => InOrder(w)
  BY <1>1, <1>3, <1>4, NewCurrentTable
<1>8. TablesDistinct(m) => DistinctIds(m.current_table)
  BY TablesDistinctParts
<1>9. QED
  BY <1>5, <1>6, <1>7, <1>8 DEF w

\* MemTable::flush_last adds no version and leaves what stays in order.
LEMMA AfterFlushKeeps ==
    ASSUME NEW m \in MemTables
    PROVE  /\ VersionsIn(AfterFlush(m)) \subseteq VersionsIn(m)
           /\ InOrder(m) => InOrder(AfterFlush(m))
           /\ TablesDistinct(m) => TablesDistinct(AfterFlush(m))
<1>1. CASE NothingToFlush(m)
  BY <1>1 DEF AfterFlush
<1>2. CASE ~NothingToFlush(m)
  <2> DEFINE f == FreezeForFlush(m)
             n == Len(f.frozen_tables)
             w == AfterFlush(m)
  <2>1. /\ f \in MemTables
        /\ f.frozen_tables \in Seq(Table)
        /\ f.frozen_tables # <<>>
    BY <1>2, FreezeForFlushType DEF MemTables
  <2>2. /\ VersionsIn(f) = VersionsIn(m)
        /\ InOrder(m) => InOrder(f)
        /\ TablesDistinct(m) => TablesDistinct(f)
    BY FrozenCurTableKeeps DEF FreezeForFlush
  <2>3. w = [f EXCEPT !.frozen_tables = SubSeq(f.frozen_tables, 1, n - 1),
                      !.frozen_bytes  = f.frozen_bytes - TableSize(f.frozen_tables[n])]
    BY <1>2 DEF AfterFlush
  <2>4. w \in MemTables
    BY AfterFlushType
  <2> HIDE DEF f, w
  <2>5. /\ w.current_table = f.current_table
        /\ w.frozen_tables = SubSeq(f.frozen_tables, 1, n - 1)
    BY <2>1, <2>3 DEF MemTables
  <2>6. \A i \in DOMAIN w.frozen_tables :
           i \in DOMAIN f.frozen_tables /\ w.frozen_tables[i] = f.frozen_tables[i]
    BY <2>1, <2>5
  <2>7. \A x \in VersionsIn(w) : x \in VersionsIn(f)
    BY <2>1, <2>4, <2>5, <2>6, VersionsInParts
  <2>8. InOrder(f) => InOrder(w)
    <3>1. NewestTableFirst(f.frozen_tables, Keys) => NewestTableFirst(w.frozen_tables, Keys)
      BY <2>6 DEF NewestTableFirst
    <3>2. QED
      BY <2>1, <2>4, <2>5, <2>6, <3>1, InOrderParts
  <2>9. TablesDistinct(f) => TablesDistinct(w)
    BY <2>1, <2>4, <2>5, <2>6, TablesDistinctParts
  <2>10. QED
    BY <2>2, <2>7, <2>8, <2>9 DEF w
<1>3. QED
  BY <1>1, <1>2

\* A memtable without versions is in order.
LEMMA EmptyMemTable ==
    ASSUME NEW m \in MemTables, m.current_table = {}, m.frozen_tables = <<>>
    PROVE  VersionsIn(m) = {} /\ InOrder(m) /\ TablesDistinct(m)
<1>1. DOMAIN m.frozen_tables = {}
  OBVIOUS
<1>2. VersionsIn(m) = {}
  BY <1>1, VersionsInParts
<1>3. InOrder(m)
  BY <1>1, InOrderParts DEF NewestTableFirst
<1>4. TablesDistinct(m)
  BY <1>1, TablesDistinctParts DEF DistinctIds
<1>5. QED
  BY <1>2, <1>3, <1>4

-----------------------------------------------------------------------------
(* Reads *)

\* With the tables in order, the version MemTable::get answers is the newest of its
\* key in memory that the reader may see.
LEMMA OrderedHit ==
    ASSUME NEW m \in MemTables, InOrder(m), NEW k \in Keys, NEW t \in Nat,
           NEW o \in VersionsIn(m), o.key = k, t = 0 \/ o.tranc_id <= t
    PROVE  /\ MemGet(m, k, t) \in Version
           /\ o.tranc_id <= MemGet(m, k, t).tranc_id
<1> DEFINE tables == TablesOf(m)
<1>1. /\ tables \in Seq(Table)
      /\ DOMAIN tables = 1..Len(tables)
      /\ Len(tables) \in Nat
  BY TablesOfType
<1>2. \A i, j \in DOMAIN tables : i < j => Above(tables[i], tables[j])
  BY DEF InOrder, NewestTableFirst, Above
<1>3. PICK i \in DOMAIN tables : o \in tables[i]
  BY DEF VersionsIn
<1>4. Visible(tables[i], k, t) # {}
  BY <1>3 DEF Visible
<1>5. PICK j \in DOMAIN tables :
         /\ Visible(tables[j], k, t) # {}
         /\ \A p \in 1..(j - 1) : Visible(tables[p], k, t) = {}
         /\ MemGet(m, k, t) = TableGet(tables[j], k, t)
  BY <1>4, MemGetIsFirst
<1> DEFINE hit == TableGet(tables[j], k, t)
<1>6. tables[j] \in Table
  BY <1>1
<1>7. /\ hit \in Visible(tables[j], k, t)
      /\ hit \in Version
      /\ \A n \in Visible(tables[j], k, t) : n.tranc_id <= hit.tranc_id
  BY <1>5, <1>6, TableGetIsNewest
<1>8. hit \in tables[j] /\ hit.key = k
  BY <1>7 DEF Visible
<1> HIDE DEF tables, hit
<1>9. CASE j = i
  <2>1. o \in Visible(tables[j], k, t)
    BY <1>3, <1>9 DEF Visible
  <2>2. QED
    BY <1>5, <1>7, <2>1 DEF hit
<1>10. CASE j < i
  <2>1. Above(tables[j], tables[i])
    BY <1>2, <1>10
  <2>2. o.tranc_id <= hit.tranc_id
    BY <1>3, <1>8, <2>1 DEF Above
  <2>3. QED
    BY <1>5, <1>7, <2>2 DEF hit
<1>11. CASE i < j
  <2>1. i \in 1..(j - 1)
    BY <1>1, <1>11
  <2>2. QED
    BY <1>4, <1>5, <2>1
<1>12. j = i \/ j < i \/ i < j
  BY <1>1
<1>13. QED
  BY <1>9, <1>10, <1>11, <1>12

\* What the conflict check of a commit learns from one search of the memory: with
\* the tables in order, the first version found bounds all versions of the key.
LEMMA NothingNewer ==
    ASSUME NEW m \in MemTables, InOrder(m), NEW k \in Keys, NEW t \in Nat,
           ~(MemGet(m, k, 0) # NoNode /\ MemGet(m, k, 0).tranc_id > t)
    PROVE  \A o \in VersionsIn(m) : o.key = k => o.tranc_id <= t
<1> DEFINE hit == MemGet(m, k, 0)
<1> TAKE o \in VersionsIn(m)
<1> HAVE o.key = k
<1>1. hit \in Version /\ o.tranc_id <= hit.tranc_id
  BY OrderedHit
<1>2. o \in Version
  <2>1. \A i \in DOMAIN TablesOf(m) : TablesOf(m)[i] \in Table
    BY TablesOfType
  <2>2. QED
    BY <2>1 DEF VersionsIn, Table
<1>3. o.tranc_id \in Nat /\ hit.tranc_id \in Nat
  BY <1>1, <1>2 DEF Version
<1>4. ~(hit.tranc_id > t)
  BY <1>1, NoNodeAssumption
<1> HIDE DEF hit
<1>5. QED
  BY <1>1, <1>3, <1>4

\* MemTable::get, which stops at the first table with a visible version, answers
\* every reader as one table with all versions in memory would.
LEMMA OrderedReads ==
    ASSUME NEW m \in MemTables, InOrder(m), TablesDistinct(m),
           NEW k \in Keys, NEW t \in Nat
    PROVE  MemGet(m, k, t) = TableGet(Resident(m), k, t)
<1> DEFINE tables == TablesOf(m)
           seen   == Visible(Resident(m), k, t)
<1>1. /\ tables \in Seq(Table)
      /\ DOMAIN tables = 1..Len(tables)
      /\ Len(tables) \in Nat
  BY TablesOfType
<1>2. \A n : n \in Resident(m) <=>
         \E i \in DOMAIN tables :
            /\ n \in tables[i]
            /\ \A j \in 1..(i - 1) : \A o \in tables[j] :
                  ~(o.key = n.key /\ o.tranc_id = n.tranc_id)
  BY DEF Resident
<1>3. CASE \A i \in DOMAIN tables : Visible(tables[i], k, t) = {}
  <2>1. MemGet(m, k, t) = NoNode
    BY <1>3, MemGetIsFirst
  <2>2. seen = {}
    BY <1>2, <1>3 DEF Visible
  <2>3. QED
    BY <2>1, <2>2 DEF TableGet
<1>4. CASE \E i \in DOMAIN tables : Visible(tables[i], k, t) # {}
  <2>1. PICK i \in DOMAIN tables :
           /\ Visible(tables[i], k, t) # {}
           /\ \A j \in 1..(i - 1) : Visible(tables[j], k, t) = {}
           /\ MemGet(m, k, t) = TableGet(tables[i], k, t)
    BY <1>4, MemGetIsFirst
  <2> DEFINE hit == MemGet(m, k, t)
  <2>2. tables[i] \in Table
    BY <1>1
  <2>3. hit \in Visible(tables[i], k, t) /\ hit \in Version
    BY <2>1, <2>2, TableGetIsNewest
  <2>4. hit \in tables[i] /\ hit.key = k /\ (t = 0 \/ hit.tranc_id <= t)
    BY <2>3 DEF Visible
  <2> HIDE DEF hit, tables
  <2>5. hit \in Resident(m)
    <3>1. ASSUME NEW j \in 1..(i - 1), NEW o \in tables[j],
                 o.key = hit.key, o.tranc_id = hit.tranc_id
          PROVE  FALSE
      <4>1. o \in Visible(tables[j], k, t)
        BY <2>4, <3>1 DEF Visible
      <4>2. QED
        BY <2>1, <4>1
    <3>2. QED
      BY <1>2, <2>4, <3>1
  <2>6. hit \in seen
    BY <2>4, <2>5 DEF Visible
  <2>7. ASSUME NEW n \in seen
        PROVE  /\ n.tranc_id \in Nat
               /\ n.tranc_id <= hit.tranc_id
               /\ n.tranc_id = hit.tranc_id => n = hit
    <3>1. n \in Resident(m) /\ n.key = k /\ (t = 0 \/ n.tranc_id <= t)
      BY DEF Visible
    <3>2. PICK p \in DOMAIN tables :
             /\ n \in tables[p]
             /\ \A j \in 1..(p - 1) : \A o \in tables[j] :
                   ~(o.key = n.key /\ o.tranc_id = n.tranc_id)
      BY <1>2, <3>1
    <3>3. n \in VersionsIn(m)
      BY <3>2 DEF VersionsIn, tables
    <3>4. n.tranc_id <= hit.tranc_id
      BY <3>1, <3>3, OrderedHit DEF hit
    <3>5. n.tranc_id \in Nat
      <4>1. tables[p] \in Table
        BY <1>1
      <4>2. QED
        BY <3>2, <4>1 DEF Table, Version
    <3>6. ASSUME n.tranc_id = hit.tranc_id PROVE n = hit
      <4>1. ~(i < p)
        <5>1. ASSUME i < p PROVE FALSE
          <6>1. i \in 1..(p - 1)
            BY <1>1, <5>1
          <6>2. QED
            BY <2>4, <3>1, <3>2, <3>6, <6>1
        <5>2. QED
          BY <5>1
      <4>2. ~(p < i)
        <5>1. ASSUME p < i PROVE FALSE
          <6>1. p \in 1..(i - 1)
            BY <1>1, <5>1
          <6>2. n \in Visible(tables[p], k, t)
            BY <3>1, <3>2 DEF Visible
          <6>3. QED
            BY <2>1, <6>1, <6>2
        <5>2. QED
          BY <5>1
      <4>3. p = i
        BY <1>1, <4>1, <4>2
      <4>4. DistinctIds(tables[i])
        BY DEF TablesDistinct, tables
      <4>5. QED
        BY <2>4, <3>1, <3>2, <3>6, <4>3, <4>4 DEF DistinctIds
    <3>7. QED
      BY <3>4, <3>5, <3>6
  <2>8. Newest(seen) = hit
    <3> HIDE DEF seen
    <3>1. \A n \in seen : n.tranc_id <= hit.tranc_id
      BY <2>7
    <3>2. ASSUME NEW n \in seen, \A o \in seen : o.tranc_id <= n.tranc_id
          PROVE  n = hit
      <4>1. hit.tranc_id <= n.tranc_id /\ n.tranc_id <= hit.tranc_id
        BY <2>6, <2>7, <3>2
      <4>2. n.tranc_id \in Nat /\ hit.tranc_id \in Nat
        BY <2>6, <2>7
      <4>3. QED
        BY <2>7, <4>1, <4>2
    <3>3. QED
      BY <2>6, <3>1, <3>2 DEF Newest
  <2>9. QED
    BY <2>6, <2>8 DEF TableGet, hit
<1>5. QED
  BY <1>3, <1>4

-----------------------------------------------------------------------------
(* Resident versions *)

\* A version no table before position i replaces.
Unreplaced(tables, i, n) ==
    \A j \in 1..(i - 1) : \A o \in tables[j] : ~(o.key = n.key /\ o.tranc_id = n.tranc_id)

\* A version is resident if it is in a table and no younger table has replaced it.
LEMMA ResidentParts ==
    ASSUME NEW m
    PROVE  \A n : n \in Resident(m) <=>
              \E i \in DOMAIN TablesOf(m) :
                 n \in TablesOf(m)[i] /\ Unreplaced(TablesOf(m), i, n)
BY DEF Resident, Unreplaced

\* What is resident below a current table.
LEMMA ResidentBelow ==
    ASSUME NEW m \in MemTables
    PROVE  \A n : n \in Resident(m) <=>
              \/ n \in m.current_table
              \/ /\ \A o \in m.current_table : ~(o.key = n.key /\ o.tranc_id = n.tranc_id)
                 /\ \E i \in DOMAIN m.frozen_tables :
                       n \in m.frozen_tables[i] /\ Unreplaced(m.frozen_tables, i, n)
<1> DEFINE tables == TablesOf(m)
           frozen == m.frozen_tables
           cur    == m.current_table
<1>1. /\ DOMAIN tables = 1..(Len(frozen) + 1)
      /\ DOMAIN frozen = 1..Len(frozen)
      /\ Len(frozen) \in Nat
      /\ tables[1] = cur
      /\ \A i \in DOMAIN frozen : tables[i + 1] = frozen[i]
      /\ \A i \in DOMAIN tables :
            i # 1 => i - 1 \in DOMAIN frozen /\ tables[i] = frozen[i - 1]
  BY TablesOfType DEF MemTables
<1>2. \A n : n \in Resident(m) <=>
         \E i \in DOMAIN tables : n \in tables[i] /\ Unreplaced(tables, i, n)
  BY ResidentParts
<1> HIDE DEF tables, frozen, cur
<1>3. ASSUME NEW n PROVE Unreplaced(tables, 1, n)
  BY DEF Unreplaced
<1>4. ASSUME NEW n, NEW i \in DOMAIN frozen
      PROVE  Unreplaced(tables, i + 1, n) <=>
                /\ \A o \in cur : ~(o.key = n.key /\ o.tranc_id = n.tranc_id)
                /\ Unreplaced(frozen, i, n)
  <2> DEFINE Free(T) == \A o \in T : ~(o.key = n.key /\ o.tranc_id = n.tranc_id)
  <2>1. Unreplaced(tables, i + 1, n) <=> \A j \in 1..i : Free(tables[j])
    <3>1. (i + 1) - 1 = i
      BY <1>1
    <3>2. QED
      BY <3>1 DEF Unreplaced
  <2>2. Unreplaced(frozen, i, n) <=> \A j \in 1..(i - 1) : Free(frozen[j])
    BY DEF Unreplaced
  <2> HIDE DEF Free
  <2>3. ASSUME \A j \in 1..i : Free(tables[j])
        PROVE  Free(cur) /\ \A j \in 1..(i - 1) : Free(frozen[j])
    <3>1. 1 \in 1..i
      BY <1>1
    <3>2. ASSUME NEW j \in 1..(i - 1) PROVE Free(frozen[j])
      <4>1. j + 1 \in 1..i /\ j \in DOMAIN frozen
        BY <1>1
      <4>2. QED
        BY <1>1, <2>3, <4>1
    <3>3. QED
      BY <1>1, <2>3, <3>1, <3>2
  <2>4. ASSUME Free(cur), \A j \in 1..(i - 1) : Free(frozen[j]), NEW j \in 1..i
        PROVE  Free(tables[j])
    <3>1. CASE j = 1
      BY <1>1, <2>4, <3>1
    <3>2. CASE j # 1
      <4>1. j - 1 \in 1..(i - 1) /\ j \in DOMAIN tables
        BY <1>1, <3>2
      <4>2. QED
        BY <1>1, <2>4, <3>2, <4>1
    <3>3. QED
      BY <3>1, <3>2
  <2>5. QED
    BY <2>1, <2>2, <2>3, <2>4 DEF Free
<1>5. TAKE n
<1>6. ASSUME NEW i \in DOMAIN tables, n \in tables[i], Unreplaced(tables, i, n)
      PROVE  \/ n \in cur
             \/ /\ \A o \in cur : ~(o.key = n.key /\ o.tranc_id = n.tranc_id)
                /\ \E j \in DOMAIN frozen : n \in frozen[j] /\ Unreplaced(frozen, j, n)
  <2>1. CASE i = 1
    BY <1>1, <1>6, <2>1
  <2>2. CASE i # 1
    <3>1. i - 1 \in DOMAIN frozen /\ tables[i] = frozen[i - 1] /\ (i - 1) + 1 = i
      BY <1>1, <2>2
    <3>2. QED
      BY <1>4, <1>6, <3>1
  <2>3. QED
    BY <2>1, <2>2
<1>7. ASSUME n \in cur PROVE n \in Resident(m)
  <2>1. 1 \in DOMAIN tables
    BY <1>1
  <2>2. QED
    BY <1>1, <1>2, <1>3, <1>7, <2>1
<1>8. ASSUME \A o \in cur : ~(o.key = n.key /\ o.tranc_id = n.tranc_id),
             NEW j \in DOMAIN frozen, n \in frozen[j], Unreplaced(frozen, j, n)
      PROVE  n \in Resident(m)
  <2>1. j + 1 \in DOMAIN tables /\ tables[j + 1] = frozen[j]
    BY <1>1
  <2>2. Unreplaced(tables, j + 1, n)
    BY <1>4, <1>8
  <2>3. QED
    BY <1>2, <1>8, <2>1, <2>2
<1>9. QED
  BY <1>2, <1>6, <1>7, <1>8 DEF cur, frozen

\* A freeze is invisible.
LEMMA FrozenCurTableResident ==
    ASSUME NEW m \in MemTables
    PROVE  Resident(FrozenCurTable(m)) = Resident(m)
<1> DEFINE f == FrozenCurTable(m)
<1>1. f \in MemTables /\ f.current_table = {} /\ f.frozen_tables = TablesOf(m)
  BY FrozenCurTableType DEF FrozenCurTable, TablesOf
<1> HIDE DEF f
<1>2. \A n : n \in Resident(f) <=> n \in Resident(m)
  BY <1>1, ResidentBelow, ResidentParts
<1>3. QED
  BY <1>2 DEF f

\* A write replaces what has its key and its id, wherever it is, and joins the rest.
LEMMA MemPutAll_Resident ==
    ASSUME NEW m \in MemTables, NEW D \in SUBSET Keys, IsFiniteSet(D),
           NEW map \in [D -> Payload], NEW t \in Nat
    PROVE  Resident(MemPutAll_(m, map, t)) =
              {n \in Resident(m) : ~(n.key \in D /\ n.tranc_id = t)}
                 \cup {Node(k, map[k], t) : k \in D}
<1> DEFINE kept == {n \in m.current_table : ~(n.key \in D /\ n.tranc_id = t)}
           new  == {Node(k, map[k], t) : k \in D}
           w    == MemPutAll_(m, map, t)
<1>1. w \in MemTables /\ w = [m EXCEPT !.current_table = kept \cup new]
  BY MemPutAll_Type DEF MemPutAll_
<1>2. w.current_table = kept \cup new /\ w.frozen_tables = m.frozen_tables
  BY <1>1 DEF MemTables
<1>3. \A n \in new : n.key \in D /\ n.tranc_id = t
  BY DEF Node
<1>4. \A k \in D : \E n \in new : n.key = k /\ n.tranc_id = t
  <2>1. TAKE k \in D
  <2>2. Node(k, map[k], t) \in new
    OBVIOUS
  <2>3. Node(k, map[k], t).key = k /\ Node(k, map[k], t).tranc_id = t
    BY DEF Node
  <2>4. QED
    BY <2>2, <2>3
<1>5. \A n : n \in kept <=> n \in m.current_table /\ ~(n.key \in D /\ n.tranc_id = t)
  OBVIOUS
<1> HIDE DEF kept, new, w
<1>6. ASSUME NEW n
      PROVE  (\A o \in w.current_table : ~(o.key = n.key /\ o.tranc_id = n.tranc_id)) <=>
                /\ \A o \in m.current_table : ~(o.key = n.key /\ o.tranc_id = n.tranc_id)
                /\ ~(n.key \in D /\ n.tranc_id = t)
  BY <1>2, <1>3, <1>4, <1>5
<1>7. \A n : n \in Resident(w) <=>
         (n \in Resident(m) /\ ~(n.key \in D /\ n.tranc_id = t)) \/ n \in new
  <2>1. TAKE n
  <2>2. n \in w.current_table <=> (n \in m.current_table /\ ~(n.key \in D /\ n.tranc_id = t)) \/ n \in new
    BY <1>2, <1>5
  <2> DEFINE Below == \E i \in DOMAIN m.frozen_tables :
                         n \in m.frozen_tables[i] /\ Unreplaced(m.frozen_tables, i, n)
  <2>3. n \in Resident(w) <=>
           \/ n \in w.current_table
           \/ (\A o \in w.current_table : ~(o.key = n.key /\ o.tranc_id = n.tranc_id)) /\ Below
    BY <1>1, <1>2, ResidentBelow
  <2>4. n \in Resident(m) <=>
           \/ n \in m.current_table
           \/ (\A o \in m.current_table : ~(o.key = n.key /\ o.tranc_id = n.tranc_id)) /\ Below
    BY ResidentBelow
  <2> HIDE DEF Below
  <2>5. QED
    BY <1>6, <2>2, <2>3, <2>4
<1>8. QED
  BY <1>7 DEF w, new

\* A single write is a map of one key.
LEMMA MemPut_IsMemPutAll_ ==
    ASSUME NEW m \in MemTables, NEW k \in Keys, NEW v \in Payload, NEW t \in Nat
    PROVE  MemPut_(m, k, v, t) = MemPutAll_(m, [j \in {k} |-> v], t)
<1> DEFINE map == [j \in {k} |-> v]
<1>1. DOMAIN map = {k} /\ map[k] = v
  OBVIOUS
<1>2. {Node(j, map[j], t) : j \in DOMAIN map} = {Node(k, v, t)}
  BY <1>1
<1>3. {n \in m.current_table : ~(n.key \in DOMAIN map /\ n.tranc_id = t)} =
         {n \in m.current_table : ~(n.key = k /\ n.tranc_id = t)}
  BY <1>1
<1> HIDE DEF map
<1>4. QED
  BY <1>2, <1>3 DEF MemPut_, MemPutAll_, TablePut, map

\* MemTable::put adds its version to what is resident, in the place of one with its
\* key and id, whether or not it freezes the table.
LEMMA MemPutResident ==
    ASSUME NEW m \in MemTables, NEW k \in Keys, NEW v \in Payload, NEW t \in Nat,
           NEW map, map = [j \in {k} |-> v]
    PROVE  Resident(MemPut(m, k, v, t)) =
              {n \in Resident(m) : ~(n.key \in {k} /\ n.tranc_id = t)}
                 \cup {Node(j, map[j], t) : j \in {k}}
<1> DEFINE w == MemPut_(m, k, v, t)
<1>1. {k} \in SUBSET Keys /\ IsFiniteSet({k}) /\ map \in [{k} -> Payload]
  BY FS_Singleton
<1>2. w \in MemTables /\ w = MemPutAll_(m, map, t)
  BY MemPut_Type, MemPut_IsMemPutAll_
<1> HIDE DEF w
<1>3. Resident(w) = {n \in Resident(m) : ~(n.key \in {k} /\ n.tranc_id = t)}
                       \cup {Node(j, map[j], t) : j \in {k}}
  BY <1>1, <1>2, MemPutAll_Resident
<1>4. Resident(MemPut(m, k, v, t)) = Resident(w)
  BY <1>2, FrozenCurTableResident DEF MemPut, w
<1>5. QED
  BY <1>3, <1>4

\* A flush takes versions out, and of each key only such as are no newer than those
\* that stay.
LEMMA AfterFlushResident ==
    ASSUME NEW m \in MemTables, InOrder(m)
    PROVE  /\ Resident(AfterFlush(m)) \subseteq Resident(m)
           /\ \A n \in Resident(m) \ Resident(AfterFlush(m)), o \in Resident(AfterFlush(m)) :
                 n.key = o.key => n.tranc_id <= o.tranc_id
<1>1. CASE NothingToFlush(m)
  BY <1>1 DEF AfterFlush
<1>2. CASE ~NothingToFlush(m)
  <2> DEFINE f  == FreezeForFlush(m)
             w  == AfterFlush(m)
             tf == TablesOf(f)
             tw == TablesOf(w)
             last == Len(tf)
  <2>1. /\ f \in MemTables
        /\ f.frozen_tables \in Seq(Table)
        /\ f.frozen_tables # <<>>
    BY <1>2, FreezeForFlushType DEF MemTables
  <2>2. Resident(f) = Resident(m) /\ InOrder(f)
    BY FrozenCurTableResident, FrozenCurTableKeeps DEF FreezeForFlush
  <2>3. w \in MemTables
    BY AfterFlushType
  <2>4. /\ w.current_table = f.current_table
        /\ w.frozen_tables = SubSeq(f.frozen_tables, 1, Len(f.frozen_tables) - 1)
    <3>1. w = [f EXCEPT !.frozen_tables = SubSeq(f.frozen_tables, 1, Len(f.frozen_tables) - 1),
                        !.frozen_bytes  = f.frozen_bytes
                            - TableSize(f.frozen_tables[Len(f.frozen_tables)])]
      BY <1>2 DEF AfterFlush
    <3> HIDE DEF f, w
    <3>2. QED
      BY <2>1, <3>1 DEF MemTables
  <2>5. /\ DOMAIN tf = 1..last
        /\ last \in Nat /\ last > 1
        /\ DOMAIN tw = 1..(last - 1)
        /\ \A i \in DOMAIN tw : tw[i] = tf[i]
    <3> DEFINE len == Len(f.frozen_tables)
    <3>1. /\ len \in Nat /\ len # 0
          /\ DOMAIN f.frozen_tables = 1..len
          /\ last = len + 1 /\ DOMAIN tf = 1..(len + 1)
          /\ tf[1] = f.current_table
          /\ \A i \in DOMAIN tf : i # 1 => tf[i] = f.frozen_tables[i - 1]
      <4> HIDE DEF f
      <4>1. QED
        BY <2>1, TablesOfType
    <3>2. /\ Len(w.frozen_tables) = len - 1
          /\ \A i \in 1..(len - 1) : w.frozen_tables[i] = f.frozen_tables[i]
      <4> HIDE DEF f, w
      <4>1. QED
        BY <2>1, <2>4, <3>1
    <3>3. /\ DOMAIN tw = 1..((len - 1) + 1)
          /\ tw[1] = w.current_table
          /\ \A i \in DOMAIN tw : i # 1 => tw[i] = w.frozen_tables[i - 1]
      <4> HIDE DEF w, f
      <4>1. QED
        BY <2>3, <3>2, TablesOfType
    <3>4. DOMAIN tw = 1..(last - 1) /\ last > 1 /\ last \in Nat /\ DOMAIN tf = 1..last
      <4> HIDE DEF tf, tw, last, len
      <4>1. (len - 1) + 1 = last - 1
        BY <3>1
      <4>2. QED
        BY <3>1, <3>3, <4>1
    <3>5. ASSUME NEW i \in DOMAIN tw PROVE tw[i] = tf[i]
      <4> HIDE DEF tf, tw, last, len, f, w
      <4>1. i \in DOMAIN tf
        BY <3>4, <3>5
      <4>2. CASE i = 1
        BY <2>4, <3>1, <3>3, <4>2
      <4>3. CASE i # 1
        <5>1. i - 1 \in 1..(len - 1)
          BY <3>1, <3>3, <4>3
        <5>2. QED
          BY <3>1, <3>2, <3>3, <4>1, <4>3, <5>1
      <4>4. QED
        BY <4>2, <4>3
    <3>6. QED
      BY <3>4, <3>5
  <2>6. \A i, j \in DOMAIN tf : i < j => Above(tf[i], tf[j])
    BY <2>2 DEF InOrder, NewestTableFirst, Above
  <2>7. /\ \A n : n \in Resident(f) <=> \E i \in DOMAIN tf : n \in tf[i] /\ Unreplaced(tf, i, n)
        /\ \A n : n \in Resident(w) <=> \E i \in DOMAIN tw : n \in tw[i] /\ Unreplaced(tw, i, n)
    BY ResidentParts
  <2>8. \A i \in DOMAIN tf : \A o \in tf[i] : o.key \in Keys
    <3>1. \A i \in DOMAIN tf : tf[i] \in Table
      BY <2>1, TablesOfType
    <3>2. QED
      BY <3>1 DEF Table, Version
  <2> HIDE DEF f, w, tf, tw, last
  <2>9. ASSUME NEW n, NEW i \in DOMAIN tw PROVE Unreplaced(tw, i, n) <=> Unreplaced(tf, i, n)
    <3>1. \A j \in 1..(i - 1) : j \in DOMAIN tw
      BY <2>5
    <3>2. QED
      BY <2>5, <3>1 DEF Unreplaced
  <2>10. \A n \in Resident(w) : n \in Resident(f)
    <3>1. \A i \in DOMAIN tw : i \in DOMAIN tf
      BY <2>5
    <3>2. QED
      BY <2>5, <2>7, <2>9, <3>1
  <2>11. ASSUME NEW n \in Resident(f) \ Resident(w), NEW o \in Resident(w), n.key = o.key
         PROVE  n.tranc_id <= o.tranc_id
    <3>1. PICK i \in DOMAIN tf : n \in tf[i] /\ Unreplaced(tf, i, n)
      BY <2>7
    <3>2. i = last
      <4>1. ASSUME i # last PROVE FALSE
        <5>1. i \in DOMAIN tw
          BY <2>5, <4>1
        <5>2. QED
          BY <2>5, <2>7, <2>9, <3>1, <5>1
      <4>2. QED
        BY <4>1
    <3>3. PICK j \in DOMAIN tw : o \in tw[j]
      BY <2>7
    <3>4. j \in DOMAIN tf /\ j < i /\ o \in tf[j]
      BY <2>5, <3>2, <3>3
    <3>5. Above(tf[j], tf[i]) /\ o.key \in Keys
      BY <2>6, <2>8, <3>4
    <3>6. QED
      BY <2>11, <3>1, <3>4, <3>5 DEF Above
  <2>12. QED
    BY <2>2, <2>10, <2>11 DEF w
<1>3. QED
  BY <1>1, <1>2
=============================================================================
