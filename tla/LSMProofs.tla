----------------------------- MODULE LSMProofs ------------------------------
(***************************************************************************)
(* Theorems about LSM.tla, for every set of keys and values, every limit   *)
(* and every number of transactions: what the tables hold, the ids and     *)
(* turns of transactions, the store that the engine implements, the count  *)
(* of the frozen bytes, the log, what a transaction leaves in the tables,  *)
(* and two orders: of the commits in the log against the versions in       *)
(* memory, and of the tables, those on disk included, for keys no          *)
(* transaction writes.                                                     *)
(***************************************************************************)
EXTENDS LSMProps, MemTableProofs

-----------------------------------------------------------------------------
(* The engine *)

\* MemTable::get answers a version or nothing.
LEMMA MemGetType ==
    ASSUME NEW m \in MemTables, NEW k, NEW t
    PROVE  MemGet(m, k, t) \in Version \cup {NoNode}
<1>1. CASE \A i \in DOMAIN TablesOf(m) : Visible(TablesOf(m)[i], k, t) = {}
  BY <1>1, MemGetIsFirst
<1>2. CASE \E i \in DOMAIN TablesOf(m) : Visible(TablesOf(m)[i], k, t) # {}
  <2>1. PICK i \in DOMAIN TablesOf(m) :
           /\ Visible(TablesOf(m)[i], k, t) # {}
           /\ MemGet(m, k, t) = TableGet(TablesOf(m)[i], k, t)
    BY <1>2, MemGetIsFirst
  <2>2. TablesOf(m)[i] \in Table
    BY TablesOfType
  <2>3. QED
    BY <2>1, <2>2, TableGetIsNewest
<1>3. QED
  BY <1>1, <1>2

\* SST::get answers a version or nothing, or fails.
LEMMA SstGetType ==
    ASSUME NEW T \in Table \cup {NullSst}, NEW k, NEW t \in Nat
    PROVE  SstGet(T, k, t) \in Version \cup {NoNode, Failure}
<1>1. CASE T # NullSst /\ Visible(T, k, 0) # {}
  <2>1. T \in Table
    BY <1>1
  <2>2. Newest(Visible(T, k, 0)) \in Version
    BY <1>1, <2>1, TableGetIsNewest DEF TableGet
  <2>3. [Newest(Visible(T, k, 0)) EXCEPT !.tranc_id = t] \in Version
    BY <2>2 DEF Version
  <2>4. QED
    BY <2>3 DEF SstGet
<1>2. CASE T = NullSst \/ Visible(T, k, 0) = {}
  BY <1>2 DEF SstGet
<1>3. QED
  BY <1>1, <1>2

\* LSMEngine::get answers a version or nothing, or fails.
LEMMA EngineGetType ==
    ASSUME EngineTypeOK, NEW k, NEW t \in Nat
    PROVE  EngineGet(k, t) \in Version \cup {NoNode, Failure}
<1>1. MemGet(memtable, k, t) \in Version \cup {NoNode}
  BY MemGetType DEF EngineTypeOK
<1>2. SstGet_(k, t) \in Version \cup {NoNode, Failure}
  <2>1. CASE level_sst_ids = <<>>
    BY <2>1 DEF SstGet_
  <2>2. CASE level_sst_ids # <<>>
    <3>1. Head(level_sst_ids) \in DOMAIN ssts
      <4>1. Head(level_sst_ids) = level_sst_ids[1] /\ 1 \in DOMAIN level_sst_ids
        BY <2>2 DEF EngineTypeOK
      <4>2. QED
        BY <4>1 DEF EngineTypeOK
    <3>2. ssts[Head(level_sst_ids)] \in Table \cup {NullSst}
      BY <3>1 DEF EngineTypeOK
    <3>3. SstGet(ssts[Head(level_sst_ids)], k, t) \in Version \cup {NoNode, Failure}
      BY <3>2, SstGetType
    <3>4. QED
      BY <2>2, <3>3 DEF SstGet_
  <2>3. QED
    BY <2>1, <2>2
<1>3. QED
  BY <1>1, <1>2 DEF EngineGet

\* LSMEngine::flush keeps the types, and the file it adds to level 0 is open.
LEMMA FlushFromType ==
    ASSUME EngineTypeOK, NEW m \in MemTables, FlushFrom(m)
    PROVE  EngineTypeOK'
<1> DEFINE file == IF NothingToFlush(m) THEN NullSst ELSE FlushedTable(m)
<1>1. memtable' \in MemTables
  BY AfterFlushType DEF FlushFrom
<1>2. /\ next_sst_id \in Nat
      /\ next_sst_id' \in Nat
      /\ level_sst_ids' = <<next_sst_id>> \o level_sst_ids
  BY DEF FlushFrom, EngineTypeOK
<1>3. level_sst_ids' \in Seq(Nat)
  BY <1>2 DEF EngineTypeOK
<1>4. file \in Table \cup {NullSst}
  BY FlushedTableType
<1>5. ssts' = [id \in DOMAIN ssts \cup {next_sst_id} |->
                  IF id # next_sst_id THEN ssts[id] ELSE file]
  BY DEF FlushFrom
<1> HIDE DEF file
<1>6. DOMAIN ssts' = DOMAIN ssts \cup {next_sst_id}
  BY <1>5
<1>7. ssts' \in [DOMAIN ssts' -> Table \cup {NullSst}]
  BY <1>4, <1>5, <1>6 DEF EngineTypeOK
<1>8. \A i \in DOMAIN level_sst_ids' : level_sst_ids'[i] \in DOMAIN ssts'
  <2>1. TAKE i \in DOMAIN level_sst_ids'
  <2>2. CASE i = 1
    BY <1>2, <1>6, <2>2 DEF EngineTypeOK
  <2>3. CASE i # 1
    <3>1. i - 1 \in DOMAIN level_sst_ids /\ level_sst_ids'[i] = level_sst_ids[i - 1]
      BY <1>2, <2>3 DEF EngineTypeOK
    <3>2. QED
      BY <1>6, <3>1 DEF EngineTypeOK
  <2>4. QED
    BY <2>2, <2>3
<1>9. DOMAIN ssts' \subseteq Nat
  BY <1>2, <1>6 DEF EngineTypeOK
<1>10. QED
  BY <1>1, <1>2, <1>3, <1>7, <1>8, <1>9 DEF EngineTypeOK

\* So does the flush at the end of a write.
LEMMA FlushIfFullType ==
    ASSUME EngineTypeOK, NEW m \in MemTables, FlushIfFull(m)
    PROVE  EngineTypeOK'
<1>1. CASE FlushFrom(m)
  BY <1>1, FlushFromType
<1>2. CASE memtable' = m /\ UNCHANGED <<level_sst_ids, ssts, next_sst_id>>
  BY <1>2 DEF EngineTypeOK
<1>3. QED
  BY <1>1, <1>2 DEF FlushIfFull

\* LSMEngine::put and remove keep the types.
LEMMA EnginePutType ==
    ASSUME EngineTypeOK, NEW k \in Keys, NEW v \in Payload, NEW t \in Nat,
           EnginePut(k, v, t)
    PROVE  EngineTypeOK'
<1>1. MemPut(memtable, k, v, t) \in MemTables
  BY MemPutType DEF EngineTypeOK
<1>2. QED
  BY <1>1, FlushIfFullType DEF EnginePut

\* One turn of a batch keeps the types.
LEMMA EngineBatchTurnType ==
    ASSUME EngineTypeOK, NEW k \in Keys, NEW v \in Payload, NEW t \in Nat,
           NEW last, EngineBatchTurn(k, v, t, last)
    PROVE  EngineTypeOK'
<1>1. MemPut(memtable, k, v, t) \in MemTables
  BY MemPutType DEF EngineTypeOK
<1>2. CASE FlushIfFull(MemPut(memtable, k, v, t))
  BY <1>1, <1>2, FlushIfFullType
<1>3. CASE /\ memtable' = MemPut(memtable, k, v, t)
           /\ UNCHANGED <<level_sst_ids, ssts, next_sst_id>>
  BY <1>1, <1>3 DEF EngineTypeOK
<1>4. QED
  BY <1>2, <1>3 DEF EngineBatchTurn

\* LSMEngine::clear keeps the types.
LEMMA EngineClearType ==
    ASSUME EngineTypeOK, EngineClear
    PROVE  EngineTypeOK'
<1>1. memtable' \in MemTables
  BY AfterClearType DEF EngineTypeOK, EngineClear
<1>2. ssts' = [id \in {} |-> NullSst] /\ DOMAIN ssts' = {}
  BY DEF EngineClear
<1>3. ssts' \in [DOMAIN ssts' -> Table \cup {NullSst}]
  BY <1>2
<1>4. QED
  BY <1>1, <1>2, <1>3 DEF EngineTypeOK, EngineClear

-----------------------------------------------------------------------------
(* Transactions *)

\* map[k] = x keeps a map finite and its values in their set.
LEMMA BindType ==
    ASSUME NEW S, NEW f, IsMap(f, S), NEW k \in Keys, NEW x \in S
    PROVE  IsMap(Bind(f, k, x), S) /\ DOMAIN Bind(f, k, x) = DOMAIN f \cup {k}
<1>1. DOMAIN Bind(f, k, x) = DOMAIN f \cup {k}
  BY DEF Bind
<1>2. IsFiniteSet(DOMAIN f \cup {k})
  BY FS_AddElement DEF IsMap
<1>3. Bind(f, k, x) \in [DOMAIN f \cup {k} -> S]
  BY DEF Bind, IsMap
<1>4. QED
  BY <1>1, <1>2, <1>3 DEF IsMap

\* The maps of a new transaction.
LEMMA EmptyMapType ==
    ASSUME NEW S, NEW x
    PROVE  IsMap([k \in {} |-> x], S)
BY FS_EmptySet DEF IsMap

\* The four kinds of records of the log.
LEMMA RecordTypes ==
    ASSUME NEW t \in Nat, NEW k \in Keys, NEW v \in Payload
    PROVE  /\ Record(t, "CREATE") \in WalRecords
           /\ Record(t, "COMMIT") \in WalRecords
           /\ WriteRecord(t, "PUT", k, v) \in WalRecords
           /\ WriteRecord(t, "DELETE", k, v) \in WalRecords
BY DEF Record, WriteRecord, WalRecords, MarkRecords, WriteRecords

\* The context TranManager::new_tranc builds.
LEMMA NewTranType ==
    ASSUME NEW t \in Nat
    PROVE  IsTran(NewTran(t))
<1>1. <<Record(t, "CREATE")>> \in Seq(WalRecords)
  BY DEF Record, WalRecords, MarkRecords
<1>2. /\ IsMap([k \in {} |-> Empty], Payload)
      /\ IsMap([k \in {} |-> NoNode], Version \cup {NoNode})
  BY EmptyMapType
<1>3. QED
  BY <1>1, <1>2 DEF IsTran, NewTran

\* What an assignment to one field leaves of a context.
LEMMA TranUpdate ==
    ASSUME NEW tran, IsTran(tran)
    PROVE  /\ \A map : IsMap(map, Payload) => IsTran([tran EXCEPT !.temp_map = map])
           /\ \A map : IsMap(map, Version \cup {NoNode}) =>
                 /\ IsTran([tran EXCEPT !.read_map = map])
                 /\ IsTran([tran EXCEPT !.rollback_map = map])
           /\ \A ops \in Seq(WalRecords) :
                 /\ IsTran([tran EXCEPT !.operations = ops])
                 /\ IsTran([tran EXCEPT !.operations = ops, !.isCommited = TRUE])
           /\ IsTran([tran EXCEPT !.isAborted = TRUE])
<1>1. ASSUME NEW map, IsMap(map, Payload)
      PROVE  IsTran([tran EXCEPT !.temp_map = map])
  BY <1>1 DEF IsTran
<1>2. ASSUME NEW map, IsMap(map, Version \cup {NoNode})
      PROVE  /\ IsTran([tran EXCEPT !.read_map = map])
             /\ IsTran([tran EXCEPT !.rollback_map = map])
  BY <1>2 DEF IsTran
<1>3. ASSUME NEW ops \in Seq(WalRecords)
      PROVE  /\ IsTran([tran EXCEPT !.operations = ops])
             /\ IsTran([tran EXCEPT !.operations = ops, !.isCommited = TRUE])
  BY <1>3 DEF IsTran
<1>4. IsTran([tran EXCEPT !.isAborted = TRUE])
  BY DEF IsTran
<1>5. QED
  BY <1>1, <1>2, <1>3, <1>4

\* The transactions after one of them has got a new context.
LEMMA ActiveUpdate ==
    ASSUME TypeOK, NEW t \in DOMAIN activeTrans, NEW tran, IsTran(tran),
           activeTrans' = [activeTrans EXCEPT ![t] = tran]
    PROVE  /\ DOMAIN activeTrans' = DOMAIN activeTrans
           /\ DOMAIN activeTrans' \subseteq Nat
           /\ activeTrans'[t] = tran
           /\ \A s \in DOMAIN activeTrans' : IsTran(activeTrans'[s])
<1>1. DOMAIN activeTrans' = DOMAIN activeTrans
  OBVIOUS
<1>2. \A s \in DOMAIN activeTrans :
         activeTrans'[s] = IF s = t THEN tran ELSE activeTrans[s]
  OBVIOUS
<1>3. DOMAIN activeTrans \subseteq Nat /\ \A s \in DOMAIN activeTrans : IsTran(activeTrans[s])
  BY DEF TypeOK
<1>4. QED
  BY <1>1, <1>2, <1>3

\* The context after put or remove has recorded its operation.
LEMMA LoggedType ==
    ASSUME TypeOK, NEW t \in DOMAIN activeTrans, NEW k \in Keys, NEW v \in Payload
    PROVE  /\ IsTran(Logged(t, k, v))
           /\ Logged(t, k, v).temp_map = activeTrans[t].temp_map
           /\ Logged(t, k, v).rollback_map = activeTrans[t].rollback_map
<1> DEFINE tran == activeTrans[t]
           op   == IF v = Empty THEN "DELETE" ELSE "PUT"
           ops  == Append(tran.operations, WriteRecord(t, op, k, v))
<1>1. t \in Nat /\ IsTran(tran)
  BY DEF TypeOK
<1>2. WriteRecord(t, op, k, v) \in WalRecords
  BY <1>1, RecordTypes
<1>3. tran.operations \in Seq(WalRecords)
  BY <1>1 DEF IsTran
<1>4. ops \in Seq(WalRecords)
  <2> HIDE DEF op, tran
  <2>1. QED
    BY <1>2, <1>3
<1>5. Logged(t, k, v) = [tran EXCEPT !.operations = ops]
  BY DEF Logged
<1> HIDE DEF ops, op, tran
<1>6. IsTran(Logged(t, k, v))
  BY <1>1, <1>4, <1>5, TranUpdate
<1>7. Logged(t, k, v).temp_map = tran.temp_map /\ Logged(t, k, v).rollback_map = tran.rollback_map
  BY <1>1, <1>5 DEF IsTran
<1>8. QED
  BY <1>6, <1>7 DEF tran

\* Ids stay positive.
LEMMA TakeIdType ==
    ASSUME TypeOK, TakeId
    PROVE  nextTransactionId \in Nat /\ nextTransactionId' \in Nat \ {0}
BY DEF TypeOK, TakeId

-----------------------------------------------------------------------------
(* Type correctness *)

\* A new data directory has the types.
LEMMA InitType == Init => TypeOK
<1> SUFFICES ASSUME Init PROVE TypeOK
  OBVIOUS
<1>1. EngineTypeOK
  <2>1. NewMemTable \in MemTables
    BY EmptyTable DEF NewMemTable, MemTables
  <2>2. ssts = [id \in {} |-> NullSst] /\ DOMAIN ssts = {}
    BY DEF Init, EngineInit
  <2>3. ssts \in [DOMAIN ssts -> Table \cup {NullSst}]
    BY <2>2
  <2>4. QED
    BY <2>1, <2>2, <2>3 DEF Init, EngineInit, EngineTypeOK
<1>2. DOMAIN activeTrans = {}
  BY DEF Init
<1>3. wal \in Seq(WalRecords) /\ tranc_id_file \in Seq(Nat)
  BY DEF Init
<1>4. TodoTypeOK
  BY DEF Init, TodoTypeOK
<1>5. /\ nextTransactionId \in Nat \ {0}
      /\ max_flushed_tranc_id \in Nat
      /\ max_finished_tranc_id \in Nat
  BY DEF Init
<1>6. unlinked \in BOOLEAN
  BY DEF Init
<1>7. QED
  BY <1>1, <1>2, <1>3, <1>4, <1>5, <1>6 DEF TypeOK

\* A batch that is not at its last entry has entries left after this turn.
LEMMA TailLeft ==
    ASSUME NEW S, NEW s \in Seq(S), s # <<>>, Len(s) # 1
    PROVE  Tail(s) \in Seq(S) /\ Tail(s) # <<>>
<1>1. Len(s) \in Nat /\ Len(s) # 0
  OBVIOUS
<1>2. Tail(s) \in Seq(S) /\ Len(Tail(s)) = Len(s) - 1
  OBVIOUS
<1>3. Len(Tail(s)) # 0
  BY <1>1, <1>2
<1>4. QED
  BY <1>2, <1>3

\* The disjuncts of TypeOK a direct call can disturb.
LEMMA DirectCallType ==
    ASSUME TypeOK, DirectCall
    PROVE  TypeOK'
<1>1. ASSUME Get PROVE TypeOK'
  <2>1. EngineTypeOK'
    BY <1>1 DEF Get, TypeOK, EngineTypeOK, engineVars
  <2>2. nextTransactionId' \in Nat \ {0}
    BY <1>1, TakeIdType DEF Get
  <2>3. QED
    BY <1>1, <2>1, <2>2 DEF Get, TypeOK, TodoTypeOK
<1>2. ASSUME NEW k \in Keys, NEW v \in Payload, Put(k, v) PROVE TypeOK'
  <2>1. EngineTypeOK'
    BY <1>2, EnginePutType DEF Put, TypeOK
  <2>2. nextTransactionId' \in Nat \ {0}
    BY <1>2, TakeIdType DEF Put
  <2>3. QED
    BY <1>2, <2>1, <2>2 DEF Put, TypeOK, TodoTypeOK
<1>3. ASSUME NEW kvs \in Batches, StartBatch(kvs) PROVE TypeOK'
  <2>1. EngineTypeOK'
    BY <1>3 DEF StartBatch, TypeOK, EngineTypeOK, engineVars
  <2>2. nextTransactionId \in Nat /\ nextTransactionId' \in Nat \ {0}
    BY <1>3, TakeIdType DEF StartBatch
  <2>3. kvs \in Seq(Keys \X Payload) \ {<<>>}
    <3>1. PICK n \in 1..MaxBatch : kvs \in [1..n -> Keys \X Payload]
      BY DEF Batches
    <3>2. n \in Nat /\ n # 0
      BY <3>1, BoundsAssumption
    <3>3. kvs \in Seq(Keys \X Payload) /\ Len(kvs) = n
      BY <3>1, <3>2
    <3>4. kvs # <<>>
      BY <3>2, <3>3
    <3>5. QED
      BY <3>3, <3>4
  <2>4. TodoTypeOK'
    BY <1>3, <2>2, <2>3 DEF StartBatch, TodoTypeOK
  <2>5. QED
    BY <1>3, <2>1, <2>2, <2>4 DEF StartBatch, TypeOK
<1>4. ASSUME BatchTurn PROVE TypeOK'
  <2> DEFINE kv   == Head(todo.kvs)
             last == Len(todo.kvs) = 1
  <2>1. /\ todo \in [op : {"batch"}, kvs : Seq(Keys \X Payload) \ {<<>>}, tranc_id : Nat]
        /\ todo.op = "batch"
    BY <1>4 DEF BatchTurn, TypeOK, TodoTypeOK, Idle
  <2>2. todo.kvs \in Seq(Keys \X Payload) /\ todo.kvs # <<>> /\ todo.tranc_id \in Nat
    BY <2>1
  <2>3. kv \in Keys \X Payload
    BY <2>2
  <2>4. EngineBatchTurn(kv[1], kv[2], todo.tranc_id, last)
    BY <1>4 DEF BatchTurn
  <2>5. EngineTypeOK'
    <3>1. kv[1] \in Keys /\ kv[2] \in Payload
      BY <2>3
    <3> HIDE DEF kv, last
    <3>2. QED
      BY <2>2, <2>4, <3>1, EngineBatchTurnType DEF TypeOK
  <2>6. TodoTypeOK'
    <3>1. CASE last
      BY <1>4, <3>1 DEF BatchTurn, TodoTypeOK
    <3>2. CASE ~last
      <4>1. Tail(todo.kvs) \in Seq(Keys \X Payload) /\ Tail(todo.kvs) # <<>>
        BY <2>2, <3>2, TailLeft
      <4>2. todo' = [todo EXCEPT !.kvs = Tail(todo.kvs)]
        BY <1>4, <3>2 DEF BatchTurn
      <4>3. QED
        BY <2>1, <4>1, <4>2 DEF TodoTypeOK
    <3>3. QED
      BY <3>1, <3>2
  <2>7. QED
    BY <1>4, <2>5, <2>6 DEF BatchTurn, TypeOK, tranVars
<1>5. ASSUME Flush PROVE TypeOK'
  <2>1. EngineTypeOK'
    BY <1>5, FlushFromType DEF Flush, EngineFlush, TypeOK, EngineTypeOK
  <2>2. QED
    BY <1>5, <2>1 DEF Flush, TypeOK, TodoTypeOK, tranVars
<1>6. ASSUME StartFlushAll PROVE TypeOK'
  BY <1>6 DEF StartFlushAll, TypeOK, EngineTypeOK, TodoTypeOK, engineVars, tranVars
<1>7. ASSUME FlushAllTurn PROVE TypeOK'
  <2>1. EngineTypeOK'
    BY <1>7, FlushFromType DEF FlushAllTurn, FlushLoopTurn, EngineFlush, TypeOK, EngineTypeOK
  <2>2. max_flushed_tranc_id' \in Nat
    BY <1>7 DEF FlushAllTurn, FlushLoopTurn, Largest, FlushReturns, TypeOK
  <2>3. tranc_id_file' \in Seq(Nat)
    <3>1. nextTransactionId \in Nat /\ max_finished_tranc_id \in Nat
      BY DEF TypeOK
    <3>2. <<nextTransactionId, max_flushed_tranc_id', max_finished_tranc_id>> \in Seq(Nat)
      BY <2>2, <3>1
    <3>3. QED
      BY <1>7, <3>2 DEF FlushAllTurn, FlushLoopTurn, TypeOK
  <2>4. QED
    BY <1>7, <2>1, <2>2, <2>3 DEF FlushAllTurn, FlushLoopTurn, TypeOK, TodoTypeOK
<1>8. ASSUME EndFlushAll PROVE TypeOK'
  BY <1>8 DEF EndFlushAll, TypeOK, EngineTypeOK, TodoTypeOK, engineVars, tranVars
<1>9. QED
  BY <1>1, <1>2, <1>3, <1>4, <1>5, <1>6, <1>7, <1>8 DEF DirectCall

\* LSM::clear keeps the types.
LEMMA ClearType ==
    ASSUME TypeOK, Clear
    PROVE  TypeOK'
<1>1. EngineTypeOK'
  BY EngineClearType DEF Clear, TypeOK
<1>2. wal' \in Seq(WalRecords) /\ tranc_id_file' \in Seq(Nat)
  BY DEF Clear
<1>3. QED
  BY <1>1, <1>2 DEF Clear, TypeOK, TodoTypeOK

\* The calls that only give one transaction a new context.
LEMMA OnlyTranChanges ==
    ASSUME TypeOK, NEW t \in DOMAIN activeTrans, NEW tran, IsTran(tran),
           activeTrans' = [activeTrans EXCEPT ![t] = tran],
           todo' = Idle, EngineTypeOK', wal' \in Seq(WalRecords),
           max_finished_tranc_id' \in Nat,
           UNCHANGED <<nextTransactionId, max_flushed_tranc_id, tranc_id_file, unlinked>>
    PROVE  TypeOK'
<1>1. /\ DOMAIN activeTrans' \subseteq Nat
      /\ \A s \in DOMAIN activeTrans' : IsTran(activeTrans'[s])
  BY ActiveUpdate
<1>2. TodoTypeOK'
  BY DEF TodoTypeOK
<1>3. QED
  BY <1>1, <1>2 DEF TypeOK

\* TranManager::new_tranc keeps the types.
LEMMA BeginTranType ==
    ASSUME TypeOK, BeginTran
    PROVE  TypeOK'
<1> DEFINE t == nextTransactionId
<1>1. t \in Nat /\ t' \in Nat \ {0}
  BY TakeIdType DEF BeginTran
<1>2. activeTrans' = [s \in DOMAIN activeTrans \cup {t} |->
                         IF s = t THEN NewTran(t) ELSE activeTrans[s]]
  BY DEF BeginTran, Bind
<1>3. IsTran(NewTran(t))
  BY <1>1, NewTranType
<1>4. DOMAIN activeTrans' \subseteq Nat
  BY <1>1, <1>2 DEF TypeOK
<1>5. \A s \in DOMAIN activeTrans' : IsTran(activeTrans'[s])
  BY <1>2, <1>3 DEF TypeOK
<1>6. TodoTypeOK' /\ EngineTypeOK'
  BY DEF BeginTran, TodoTypeOK, TypeOK, EngineTypeOK, engineVars
<1>7. QED
  BY <1>1, <1>4, <1>5, <1>6 DEF BeginTran, TypeOK

\* TranContext::put and remove keep the types.
LEMMA TranWriteType ==
    ASSUME TypeOK, NEW t \in Open, NEW k \in Keys, NEW v \in Payload,
           TranWrite(t, k, v)
    PROVE  TypeOK'
<1> DEFINE logged == Logged(t, k, v)
           prev   == EngineGet(k, 0)
<1>1. t \in DOMAIN activeTrans /\ t \in Nat
  BY DEF Open, TypeOK
<1>2. IsTran(logged)
  BY <1>1, LoggedType
<1>3. IsMap(logged.temp_map, Payload) /\ IsMap(logged.rollback_map, Version \cup {NoNode})
  BY <1>2 DEF IsTran
<1>4. /\ todo' = Idle
      /\ wal' \in Seq(WalRecords)
      /\ max_finished_tranc_id' \in Nat
      /\ UNCHANGED <<nextTransactionId, max_flushed_tranc_id, tranc_id_file, unlinked>>
  BY DEF TranWrite, TypeOK
<1>5. CASE /\ activeTrans' = [activeTrans EXCEPT ![t] =
                 [logged EXCEPT !.temp_map = Bind(@, k, v)]]
           /\ UNCHANGED engineVars
  <2> DEFINE tran == [logged EXCEPT !.temp_map = Bind(logged.temp_map, k, v)]
  <2>1. IsTran(tran)
    <3> HIDE DEF logged
    <3>1. QED
      BY <1>2, <1>3, BindType, TranUpdate
  <2>2. EngineTypeOK'
    BY <1>5 DEF engineVars, TypeOK, EngineTypeOK
  <2>3. activeTrans' = [activeTrans EXCEPT ![t] = tran]
    BY <1>5
  <2> HIDE DEF tran
  <2>4. QED
    BY <1>1, <1>4, <2>1, <2>2, <2>3, OnlyTranChanges
<1>6. CASE /\ prev # Failure
           /\ activeTrans' = [activeTrans EXCEPT ![t] =
                 [logged EXCEPT !.rollback_map = Bind(@, k, prev)]]
           /\ EnginePut(k, v, t)
  <2> DEFINE tran == [logged EXCEPT !.rollback_map = Bind(logged.rollback_map, k, prev)]
  <2>1. prev \in Version \cup {NoNode}
    BY <1>6, EngineGetType DEF TypeOK
  <2>2. IsTran(tran)
    <3> HIDE DEF logged, prev
    <3>1. QED
      BY <1>2, <1>3, <2>1, BindType, TranUpdate
  <2>3. EngineTypeOK'
    BY <1>1, <1>6, EnginePutType DEF TypeOK
  <2>4. activeTrans' = [activeTrans EXCEPT ![t] = tran]
    BY <1>6
  <2> HIDE DEF tran
  <2>5. QED
    BY <1>1, <1>4, <2>2, <2>3, <2>4, OnlyTranChanges
<1>7. CASE /\ activeTrans' = [activeTrans EXCEPT ![t] = logged]
           /\ UNCHANGED engineVars
  <2>1. EngineTypeOK'
    BY <1>7 DEF engineVars, TypeOK, EngineTypeOK
  <2> HIDE DEF logged
  <2>2. QED
    BY <1>1, <1>2, <1>4, <1>7, <2>1, OnlyTranChanges
<1>8. QED
  BY <1>5, <1>6, <1>7 DEF TranWrite

\* TranContext::get keeps the types.
LEMMA TranGetType ==
    ASSUME TypeOK, NEW t \in Open, NEW k \in Keys, TranGet(t, k)
    PROVE  TypeOK'
<1> DEFINE read == EngineGet(k, t)
           tran == [activeTrans[t] EXCEPT !.read_map = Bind(activeTrans[t].read_map, k, read)]
<1>1. t \in DOMAIN activeTrans /\ t \in Nat /\ IsTran(activeTrans[t])
  BY DEF Open, TypeOK
<1>2. read \in Version \cup {NoNode}
  BY <1>1, EngineGetType DEF TranGet, TypeOK
<1>3. IsMap(Bind(activeTrans[t].read_map, k, read), Version \cup {NoNode})
  <2> HIDE DEF read
  <2>1. QED
    BY <1>1, <1>2, BindType DEF IsTran
<1>4. IsTran(tran)
  BY <1>1, <1>3, TranUpdate
<1>5. activeTrans' = [activeTrans EXCEPT ![t] = tran]
  BY DEF TranGet
<1>6. EngineTypeOK'
  BY DEF TranGet, engineVars, TypeOK, EngineTypeOK
<1> HIDE DEF tran
<1>7. QED
  BY <1>1, <1>4, <1>5, <1>6, OnlyTranChanges DEF TranGet, TypeOK

\* TranContext::commit keeps the types, on either way out.
LEMMA CommitType ==
    ASSUME TypeOK, NEW t \in Open, Commit(t)
    PROVE  TypeOK'
<1>1. t \in DOMAIN activeTrans /\ t \in Nat /\ IsTran(activeTrans[t])
  BY DEF Open, TypeOK
<1>2. CASE CommitSucceeds(t)
  <2> DEFINE ops  == Append(activeTrans[t].operations, Record(t, "COMMIT"))
             tran == [activeTrans[t] EXCEPT !.operations = ops, !.isCommited = TRUE]
             map  == activeTrans[t].temp_map
  <2>1. activeTrans[t].operations \in Seq(WalRecords) /\ Record(t, "COMMIT") \in WalRecords
    BY <1>1, RecordTypes DEF IsTran, Record, WalRecords, MarkRecords
  <2>2. ops \in Seq(WalRecords)
    BY <2>1
  <2>3. wal' \in Seq(WalRecords)
    <3>1. wal \in Seq(WalRecords)
      BY DEF TypeOK
    <3>2. wal' = IF unlinked THEN wal ELSE wal \o ops
      BY <1>2 DEF CommitSucceeds
    <3> HIDE DEF ops
    <3>3. QED
      BY <2>2, <3>1, <3>2
  <2>4. IsTran(tran)
    <3> HIDE DEF ops
    <3>1. QED
      BY <1>1, <2>2, TranUpdate
  <2>5. activeTrans' = [activeTrans EXCEPT ![t] = tran]
    BY <1>2 DEF CommitSucceeds
  <2>6. MemPutAll_(memtable, map, t) \in MemTables
    <3>1. /\ DOMAIN map \in SUBSET Keys
          /\ IsFiniteSet(DOMAIN map)
          /\ map \in [DOMAIN map -> Payload]
      BY <1>1 DEF IsTran, IsMap
    <3> HIDE DEF map
    <3>2. QED
      BY <1>1, <3>1, MemPutAll_Type DEF TypeOK, EngineTypeOK
  <2>7. EngineTypeOK'
    BY <1>2, <2>6 DEF CommitSucceeds, TypeOK, EngineTypeOK
  <2>8. max_finished_tranc_id' \in Nat
    BY <1>1, <1>2 DEF CommitSucceeds, Largest, TypeOK
  <2> HIDE DEF tran
  <2>9. QED
    BY <1>1, <1>2, <2>3, <2>4, <2>5, <2>7, <2>8, OnlyTranChanges DEF CommitSucceeds
<1>3. CASE CommitFails(t)
  <2>1. IsTran([activeTrans[t] EXCEPT !.isAborted = TRUE])
    BY <1>1, TranUpdate
  <2>2. activeTrans' = [activeTrans EXCEPT ![t] = [activeTrans[t] EXCEPT !.isAborted = TRUE]]
    BY <1>3 DEF CommitFails
  <2>3. EngineTypeOK'
    BY <1>3 DEF CommitFails, TypeOK, EngineTypeOK, engineVars
  <2>4. QED
    BY <1>1, <1>3, <2>1, <2>2, <2>3, OnlyTranChanges DEF CommitFails, TypeOK
<1>4. QED
  BY <1>2, <1>3 DEF Commit

\* TranContext::abort keeps the types.
LEMMA AbortType ==
    ASSUME TypeOK, NEW t \in Open, Abort(t)
    PROVE  TypeOK'
<1>1. t \in DOMAIN activeTrans /\ t \in Nat /\ IsTran(activeTrans[t])
  BY DEF Open, TypeOK
<1>2. EngineTypeOK'
  BY DEF Abort, TypeOK, EngineTypeOK, engineVars
<1>3. CASE /\ todo' = [op |-> "rollback", tranc_id |-> t,
                       keys |-> DOMAIN activeTrans[t].rollback_map]
           /\ UNCHANGED activeTrans
  <2>1. DOMAIN activeTrans[t].rollback_map \subseteq Keys
    BY <1>1 DEF IsTran, IsMap
  <2>2. TodoTypeOK'
    BY <1>1, <1>3, <2>1 DEF TodoTypeOK
  <2>3. QED
    BY <1>2, <1>3, <2>2 DEF Abort, TypeOK
<1>4. CASE /\ activeTrans' = [activeTrans EXCEPT ![t].isAborted = TRUE]
           /\ UNCHANGED todo
  <2>1. IsTran([activeTrans[t] EXCEPT !.isAborted = TRUE])
    BY <1>1, TranUpdate
  <2>2. activeTrans' = [activeTrans EXCEPT ![t] = [activeTrans[t] EXCEPT !.isAborted = TRUE]]
    BY <1>4
  <2>3. QED
    BY <1>1, <1>2, <1>4, <2>1, <2>2, OnlyTranChanges DEF Abort, TypeOK
<1>5. QED
  BY <1>3, <1>4 DEF Abort

\* A rollback is of a known transaction, and has keys of its rollback_map left.
LEMMA RollbackTodo ==
    ASSUME TypeOK, todo.op = "rollback"
    PROVE  /\ todo \in [op : {"rollback"}, keys : SUBSET Keys, tranc_id : DOMAIN activeTrans]
           /\ todo.tranc_id \in DOMAIN activeTrans
           /\ todo.tranc_id \in Nat
           /\ todo.keys \in SUBSET Keys
           /\ todo.keys \subseteq DOMAIN activeTrans[todo.tranc_id].rollback_map
           /\ IsTran(activeTrans[todo.tranc_id])
BY DEF TypeOK, TodoTypeOK, Idle

\* A turn of the rollback keeps the types: what it puts back is a version.
LEMMA RollbackTurnType ==
    ASSUME TypeOK, RollbackTurn
    PROVE  TypeOK'
<1> DEFINE t == todo.tranc_id
<1>1. /\ t \in Nat
      /\ todo \in [op : {"rollback"}, keys : SUBSET Keys, tranc_id : DOMAIN activeTrans]
      /\ todo.keys \in SUBSET Keys
      /\ todo.keys \subseteq DOMAIN activeTrans[t].rollback_map
      /\ IsTran(activeTrans[t])
  BY RollbackTodo DEF RollbackTurn
<1> DEFINE prev(k) == activeTrans[t].rollback_map[k]
<1>2. PICK k \in todo.keys :
         /\ IF prev(k) # NoNode
            THEN EnginePut(k, prev(k).value, prev(k).tranc_id)
            ELSE EnginePut(k, Empty, t)
         /\ todo' = [todo EXCEPT !.keys = @ \ {k}]
  BY DEF RollbackTurn
<1>3. k \in Keys /\ prev(k) \in Version \cup {NoNode}
  BY <1>1 DEF IsTran, IsMap
<1>4. EngineTypeOK'
  <2> HIDE DEF t
  <2>1. CASE prev(k) # NoNode
    <3>1. prev(k).value \in Payload /\ prev(k).tranc_id \in Nat
      BY <1>3, <2>1 DEF Version
    <3>2. QED
      BY <1>2, <1>3, <2>1, <3>1, EnginePutType DEF TypeOK
  <2>2. CASE prev(k) = NoNode
    <3>1. Empty \in Payload
      BY DEF Payload
    <3>2. QED
      BY <1>1, <1>2, <1>3, <2>2, <3>1, EnginePutType DEF TypeOK
  <2>3. QED
    BY <2>1, <2>2
<1>5. TodoTypeOK'
  <2>1. todo' \in [op : {"rollback"}, keys : SUBSET Keys, tranc_id : DOMAIN activeTrans]
    BY <1>1, <1>2
  <2>2. /\ todo'.keys \subseteq todo.keys
        /\ todo'.tranc_id = t
    BY <1>1, <1>2
  <2>3. UNCHANGED activeTrans
    BY DEF RollbackTurn, tranVars
  <2>4. QED
    BY <1>1, <2>1, <2>2, <2>3 DEF TodoTypeOK
<1>6. QED
  BY <1>4, <1>5 DEF RollbackTurn, tranVars, TypeOK

\* The end of the rollback keeps the types.
LEMMA EndRollbackType ==
    ASSUME TypeOK, EndRollback
    PROVE  TypeOK'
<1> DEFINE t == todo.tranc_id
<1>1. t \in DOMAIN activeTrans /\ IsTran(activeTrans[t])
  BY RollbackTodo DEF EndRollback
<1>2. IsTran([activeTrans[t] EXCEPT !.isAborted = TRUE])
  BY <1>1, TranUpdate
<1>3. activeTrans' = [activeTrans EXCEPT ![t] = [activeTrans[t] EXCEPT !.isAborted = TRUE]]
  BY DEF EndRollback
<1>4. EngineTypeOK'
  BY DEF EndRollback, TypeOK, EngineTypeOK, engineVars
<1>5. QED
  BY <1>1, <1>2, <1>3, <1>4, OnlyTranChanges DEF EndRollback, TypeOK

\* Every step keeps the types.
LEMMA TypeStep == TypeOK /\ [Next \/ Clear]_vars => TypeOK'
<1> SUFFICES ASSUME TypeOK, [Next \/ Clear]_vars PROVE TypeOK'
  OBVIOUS
<1>1. CASE DirectCall
  BY <1>1, DirectCallType
<1>2. CASE TranCall
  BY <1>2, BeginTranType, TranWriteType, TranGetType, CommitType, AbortType,
     RollbackTurnType, EndRollbackType DEF TranCall
<1>3. CASE Clear
  BY <1>3, ClearType
<1>4. CASE UNCHANGED vars
  BY <1>4 DEF vars, engineVars, tranVars, TypeOK, EngineTypeOK, TodoTypeOK
<1>5. QED
  BY <1>1, <1>2, <1>3, <1>4 DEF Next

\* Whatever calls are made in whatever order, and under every isolation level, the
\* fields of the store hold what their types promise: every file of level 0 is an
\* open one, every version is of a known key, the loop that is running has
\* something left to do and a rollback only restores what it has overwritten.
THEOREM TypeCorrect == SpecWithClear => []TypeOK
<1>1. Init => TypeOK
  BY InitType
<1>2. TypeOK /\ [Next \/ Clear]_vars => TypeOK'
  BY TypeStep
<1>3. QED
  BY <1>1, <1>2, PTL DEF SpecWithClear

-----------------------------------------------------------------------------
(* Version order *)

\* The tables are in order, and nothing in memory has an id above b.
OrderedUpTo(m, b) ==
    /\ InOrder(m)
    /\ TablesDistinct(m)
    /\ \A o \in VersionsIn(m) : o.tranc_id <= b

\* The inductive invariant behind VersionOrder, for the levels that check conflicts.
\* New ids are above everything in memory, and a running batch has the newest id
\* there is; so every write is either at the top or a commit, whose conflict check
\* has looked.
OrderInv ==
    /\ TypeOK
    /\ nextTransactionId - 1 <= MaxTrancId
    /\ OrderedUpTo(memtable, nextTransactionId - 1)
    /\ \A t \in DOMAIN activeTrans : t < nextTransactionId
    /\ todo.op = "batch" => /\ todo.tranc_id < nextTransactionId
                            /\ OrderedUpTo(memtable, todo.tranc_id)
    /\ todo.op # "rollback"

\* What is in memory are versions.
LEMMA VersionsInType ==
    ASSUME NEW m \in MemTables
    PROVE  VersionsIn(m) \subseteq Version
<1>1. \A i \in DOMAIN TablesOf(m) : TablesOf(m)[i] \in Table
  BY TablesOfType
<1>2. QED
  BY <1>1 DEF VersionsIn, Table

\* A bound on the ids in memory may be raised.
LEMMA OrderedWeaken ==
    ASSUME NEW m \in MemTables, NEW b \in Int, NEW c \in Int, b <= c, OrderedUpTo(m, b)
    PROVE  OrderedUpTo(m, c)
<1>1. \A o \in VersionsIn(m) : o.tranc_id \in Nat
  BY VersionsInType DEF Version
<1>2. \A o \in VersionsIn(m) : o.tranc_id <= c
  BY <1>1 DEF OrderedUpTo
<1>3. QED
  BY <1>2 DEF OrderedUpTo

\* A put of the greatest id keeps memory in order, up to that id.
LEMMA PutOrdered ==
    ASSUME NEW m \in MemTables, NEW k \in Keys, NEW v \in Payload, NEW t \in Nat,
           OrderedUpTo(m, t)
    PROVE  OrderedUpTo(MemPut(m, k, v, t), t)
<1>1. Node(k, v, t).tranc_id <= t
  BY DEF Node
<1>2. QED
  BY <1>1, MemPutKeeps DEF OrderedUpTo

\* A flush keeps memory in order.
LEMMA FlushFromOrdered ==
    ASSUME NEW m \in MemTables, NEW b, OrderedUpTo(m, b), FlushFrom(m)
    PROVE  OrderedUpTo(memtable', b)
<1>1. memtable' = AfterFlush(m)
  BY DEF FlushFrom
<1>2. OrderedUpTo(AfterFlush(m), b)
  BY AfterFlushKeeps DEF OrderedUpTo
<1>3. QED
  BY <1>1, <1>2

\* So does the flush at the end of a write.
LEMMA FlushIfFullOrdered ==
    ASSUME NEW m \in MemTables, NEW b, OrderedUpTo(m, b), FlushIfFull(m)
    PROVE  OrderedUpTo(memtable', b)
<1>1. CASE FlushFrom(m)
  BY <1>1, FlushFromOrdered
<1>2. CASE memtable' = m
  BY <1>2
<1>3. QED
  BY <1>1, <1>2 DEF FlushIfFull

\* Memory without versions is in order, up to any id.
LEMMA EmptyOrdered ==
    ASSUME NEW m \in MemTables, NEW b, m.current_table = {}, m.frozen_tables = <<>>
    PROVE  OrderedUpTo(m, b)
BY EmptyMemTable DEF OrderedUpTo

\* A commit that has found no conflict.
LEMMA CommitOrdered ==
    ASSUME NEW m \in MemTables, NEW D \in SUBSET Keys, IsFiniteSet(D),
           NEW map \in [D -> Payload], NEW t \in Nat, NEW b \in Int, t <= b,
           OrderedUpTo(m, b),
           \A k \in D : ~(MemGet(m, k, 0) # NoNode /\ MemGet(m, k, 0).tranc_id > t)
    PROVE  OrderedUpTo(MemPutAll_(m, map, t), b)
<1>1. InOrder(m) /\ TablesDistinct(m)
  BY DEF OrderedUpTo
<1>2. \A o \in VersionsIn(m) : o.key \in D => o.tranc_id <= t
  BY <1>1, NothingNewer
<1>3. \A n \in VersionsIn(MemPutAll_(m, map, t)) : n.tranc_id <= b
  BY MemPutAll_Keeps DEF OrderedUpTo
<1>4. QED
  BY <1>1, <1>2, <1>3, MemPutAll_Keeps DEF OrderedUpTo

\* The inductive invariant holds of a new data directory.
LEMMA InitOrder == Init => OrderInv
<1> SUFFICES ASSUME Init PROVE OrderInv
  OBVIOUS
<1>1. TypeOK
  BY InitType
<1>2. memtable.current_table = {} /\ memtable.frozen_tables = <<>>
  BY DEF Init, EngineInit, NewMemTable
<1>3. OrderedUpTo(memtable, nextTransactionId - 1)
  BY <1>1, <1>2, EmptyOrdered DEF TypeOK, EngineTypeOK
<1>4. DOMAIN activeTrans = {} /\ todo.op = "idle"
  BY DEF Init, Idle
<1>5. nextTransactionId - 1 <= MaxTrancId
  BY BoundsAssumption DEF Init
<1>6. QED
  BY <1>1, <1>3, <1>4, <1>5 DEF OrderInv

\* Every step keeps the inductive invariant, under the levels that check conflicts.
LEMMA OrderStep ==
    ASSUME ChecksConflicts, OrderInv, [Next \/ Clear]_vars
    PROVE  OrderInv'
<1> DEFINE next == nextTransactionId
<1>1. TypeOK'
  BY TypeStep DEF OrderInv
<1>2. /\ memtable \in MemTables
      /\ next \in Nat \ {0}
      /\ next - 1 <= MaxTrancId
      /\ DOMAIN activeTrans \subseteq Nat
      /\ OrderedUpTo(memtable, next - 1)
      /\ OrderedUpTo(memtable, next)
      /\ \A t \in DOMAIN activeTrans : t < next
      /\ todo.op # "rollback"
  <2>1. memtable \in MemTables /\ next \in Nat \ {0} /\ DOMAIN activeTrans \subseteq Nat
    BY DEF OrderInv, TypeOK, EngineTypeOK
  <2>2. OrderedUpTo(memtable, next - 1)
    BY DEF OrderInv
  <2>3. OrderedUpTo(memtable, next)
    BY <2>1, <2>2, OrderedWeaken
  <2>4. QED
    BY <2>1, <2>2, <2>3 DEF OrderInv
<1>3. memtable' \in MemTables
  BY <1>1 DEF TypeOK, EngineTypeOK
<1>4. ASSUME TakeId PROVE next' \in Nat \ {0} /\ next' - 1 = next /\ next' - 1 <= MaxTrancId
  <2>1. MaxTrancId \in Nat
    BY BoundsAssumption
  <2>2. QED
    BY <1>2, <1>4, <2>1 DEF TakeId
<1>5. ASSUME todo = Idle PROVE todo.op = "idle"
  BY <1>5 DEF Idle
<1> HIDE DEF next
<1>6. CASE Get
  <2>1. TakeId /\ UNCHANGED <<memtable, activeTrans, todo>>
    BY <1>6 DEF Get, engineVars
  <2>2. todo'.op = "idle"
    BY <1>5, <1>6 DEF Get
  <2>3. QED
    BY <1>1, <1>2, <1>4, <2>1, <2>2 DEF OrderInv, next
<1>7. ASSUME NEW k \in Keys, NEW v \in Payload, Put(k, v) PROVE OrderInv'
  <2>1. TakeId /\ EnginePut(k, v, next) /\ UNCHANGED <<activeTrans, todo>>
    BY <1>7 DEF Put, next
  <2>2. OrderedUpTo(memtable', next)
    BY <1>2, <2>1, PutOrdered, MemPutType, FlushIfFullOrdered DEF EnginePut
  <2>3. todo'.op = "idle"
    BY <1>5, <1>7 DEF Put
  <2>4. QED
    BY <1>1, <1>2, <1>4, <2>1, <2>2, <2>3 DEF OrderInv, next
<1>8. ASSUME NEW kvs \in Batches, StartBatch(kvs) PROVE OrderInv'
  <2>1. TakeId /\ UNCHANGED <<memtable, activeTrans>>
    BY <1>8 DEF StartBatch, engineVars
  <2>2. todo'.op = "batch" /\ todo'.tranc_id = next
    BY <1>8 DEF StartBatch, next
  <2>3. QED
    BY <1>1, <1>2, <1>4, <2>1, <2>2 DEF OrderInv, next
<1>9. CASE BatchTurn
  <2> DEFINE kv == Head(todo.kvs)
             m  == MemPut(memtable, kv[1], kv[2], todo.tranc_id)
             t  == todo.tranc_id
  <2>1. /\ todo \in [op : {"batch"}, kvs : Seq(Keys \X Payload) \ {<<>>}, tranc_id : Nat]
        /\ t < next
        /\ OrderedUpTo(memtable, t)
    BY <1>9 DEF BatchTurn, OrderInv, TypeOK, TodoTypeOK, Idle, next
  <2>2. kv[1] \in Keys /\ kv[2] \in Payload /\ t \in Nat
    <3>1. todo.kvs \in Seq(Keys \X Payload) /\ todo.kvs # <<>> /\ t \in Nat
      BY <2>1
    <3>2. kv \in Keys \X Payload
      BY <3>1
    <3>3. QED
      BY <3>1, <3>2
  <2>3. m \in MemTables /\ OrderedUpTo(m, t)
    <3> HIDE DEF kv, t
    <3>1. QED
      BY <1>2, <2>1, <2>2, PutOrdered, MemPutType DEF t
  <2>4. FlushIfFull(m) \/ memtable' = m
    BY <1>9 DEF BatchTurn, EngineBatchTurn
  <2>5. OrderedUpTo(memtable', t)
    <3> HIDE DEF m, t
    <3>1. QED
      BY <2>3, <2>4, FlushIfFullOrdered
  <2>6. OrderedUpTo(memtable', next - 1)
    <3>1. t <= next - 1 /\ t \in Int /\ next - 1 \in Int
      BY <1>2, <2>1, <2>2
    <3> HIDE DEF t
    <3>2. QED
      BY <1>3, <2>5, <3>1, OrderedWeaken
  <2>7. todo' = Idle \/ todo' = [todo EXCEPT !.kvs = Tail(todo.kvs)]
    BY <1>9 DEF BatchTurn
  <2>8. todo'.op # "rollback" /\ (todo'.op = "batch" => todo'.tranc_id = t)
    BY <2>1, <2>7 DEF Idle
  <2>9. UNCHANGED <<nextTransactionId, activeTrans>>
    BY <1>9 DEF BatchTurn, tranVars
  <2>10. QED
    BY <1>1, <1>2, <2>1, <2>5, <2>6, <2>8, <2>9 DEF OrderInv, next
<1>10. CASE Flush \/ FlushAllTurn
  <2>1. EngineFlush /\ UNCHANGED <<nextTransactionId, activeTrans, todo>>
    BY <1>10 DEF Flush, FlushAllTurn, FlushLoopTurn, tranVars
  <2>2. OrderedUpTo(memtable', next - 1)
    BY <1>2, <2>1, FlushFromOrdered DEF EngineFlush
  <2>3. todo.op \in {"idle", "flush_all"}
    BY <1>10 DEF Flush, FlushAllTurn, FlushLoopTurn, Idle
  <2>4. QED
    BY <1>1, <1>2, <2>1, <2>2, <2>3 DEF OrderInv, next
<1>11. CASE StartFlushAll \/ EndFlushAll
  <2>1. UNCHANGED <<memtable, nextTransactionId, activeTrans>>
    BY <1>11 DEF StartFlushAll, EndFlushAll, engineVars, tranVars
  <2>2. todo'.op \in {"idle", "flush_all"}
    BY <1>11 DEF StartFlushAll, EndFlushAll, Idle
  <2>3. QED
    BY <1>1, <1>2, <2>1, <2>2 DEF OrderInv, next
<1>12. CASE Clear
  <2>1. /\ memtable' = AfterClear(memtable)
        /\ UNCHANGED <<nextTransactionId, activeTrans, todo>>
    BY <1>12 DEF Clear, EngineClear
  <2>2. memtable'.current_table = {} /\ memtable'.frozen_tables = <<>>
    BY <2>1 DEF AfterClear
  <2>3. OrderedUpTo(memtable', next - 1)
    BY <1>3, <2>2, EmptyOrdered
  <2>4. todo'.op = "idle"
    BY <1>5, <1>12 DEF Clear
  <2>5. QED
    BY <1>1, <1>2, <2>1, <2>3, <2>4 DEF OrderInv, next
<1>13. CASE BeginTran
  <2>1. TakeId /\ UNCHANGED <<memtable, todo>>
    BY <1>13 DEF BeginTran, engineVars
  <2>2. todo'.op = "idle"
    BY <1>5, <1>13 DEF BeginTran
  <2>3. DOMAIN activeTrans' = DOMAIN activeTrans \cup {next}
    BY <1>13 DEF BeginTran, Bind, next
  <2>4. \A t \in DOMAIN activeTrans' : t < next'
    BY <1>2, <1>4, <2>1, <2>3
  <2>5. QED
    BY <1>1, <1>2, <1>4, <2>1, <2>2, <2>4 DEF OrderInv, next
<1>14. ASSUME NEW t \in Open, NEW k \in Keys, NEW v \in Payload, TranWrite(t, k, v)
       PROVE  OrderInv'
  <2>1. IsolationLevel # "READ_UNCOMMITTED"
    BY DEF ChecksConflicts
  <2>2. UNCHANGED <<memtable, nextTransactionId, todo>> /\ todo = Idle
    BY <1>14, <2>1 DEF TranWrite, engineVars
  <2>3. DOMAIN activeTrans' = DOMAIN activeTrans
    BY <1>14, <2>1 DEF TranWrite
  <2>4. QED
    BY <1>1, <1>2, <1>5, <2>2, <2>3 DEF OrderInv, next
<1>15. ASSUME NEW t \in Open, NEW k \in Keys, TranGet(t, k) PROVE OrderInv'
  <2>1. UNCHANGED <<memtable, nextTransactionId, todo>> /\ todo = Idle
    BY <1>15 DEF TranGet, engineVars
  <2>2. DOMAIN activeTrans' = DOMAIN activeTrans
    BY <1>15 DEF TranGet
  <2>3. QED
    BY <1>1, <1>2, <1>5, <2>1, <2>2 DEF OrderInv, next
<1>16. ASSUME NEW t \in Open, CommitSucceeds(t) PROVE OrderInv'
  <2> DEFINE map == activeTrans[t].temp_map
  <2>1. t \in DOMAIN activeTrans /\ t \in Nat /\ IsTran(activeTrans[t])
    BY DEF Open, OrderInv, TypeOK
  <2>2. /\ DOMAIN map \in SUBSET Keys
        /\ IsFiniteSet(DOMAIN map)
        /\ map \in [DOMAIN map -> Payload]
    BY <2>1 DEF IsTran, IsMap
  <2>3. \A k \in DOMAIN map :
           ~(MemGet(memtable, k, 0) # NoNode /\ MemGet(memtable, k, 0).tranc_id > t)
    BY <1>16 DEF CommitSucceeds, Conflicts, Conflict
  <2>4. t <= next - 1 /\ next - 1 \in Int
    BY <1>2, <2>1
  <2>5. memtable' = MemPutAll_(memtable, map, t)
    BY <1>16 DEF CommitSucceeds
  <2> HIDE DEF map
  <2>6. OrderedUpTo(memtable', next - 1)
    BY <1>2, <2>1, <2>2, <2>3, <2>4, <2>5, CommitOrdered
  <2>7. UNCHANGED <<nextTransactionId, todo>> /\ todo = Idle
    BY <1>16 DEF CommitSucceeds
  <2>8. DOMAIN activeTrans' = DOMAIN activeTrans
    BY <1>16 DEF CommitSucceeds
  <2>9. QED
    BY <1>1, <1>2, <1>5, <2>6, <2>7, <2>8 DEF OrderInv, next
<1>17. ASSUME NEW t \in Open, CommitFails(t) \/ Abort(t) PROVE OrderInv'
  <2>1. IsolationLevel # "READ_UNCOMMITTED"
    BY DEF ChecksConflicts
  <2>2. UNCHANGED <<memtable, nextTransactionId, todo>> /\ todo = Idle
    BY <1>17, <2>1 DEF CommitFails, Abort, engineVars
  <2>3. DOMAIN activeTrans' = DOMAIN activeTrans
    BY <1>17, <2>1 DEF CommitFails, Abort
  <2>4. QED
    BY <1>1, <1>2, <1>5, <2>2, <2>3 DEF OrderInv, next
<1>18. ~(RollbackTurn \/ EndRollback)
  BY <1>2 DEF RollbackTurn, EndRollback
<1>19. CASE UNCHANGED vars
  BY <1>1, <1>2, <1>19 DEF vars, engineVars, tranVars, OrderInv, next
<1>20. QED
  BY <1>6, <1>7, <1>8, <1>9, <1>10, <1>11, <1>12, <1>13, <1>14, <1>15, <1>16, <1>17,
     <1>18, <1>19 DEF Next, DirectCall, TranCall, Commit

\* Where commits are checked for conflicts, no call sequence brings a version into
\* memory above a newer one of its key.
THEOREM VersionsOrdered == ChecksConflicts => (SpecWithClear => []VersionOrder)
<1> SUFFICES ASSUME ChecksConflicts PROVE SpecWithClear => []VersionOrder
  OBVIOUS
<1>1. Init => OrderInv
  BY InitOrder
<1>2. OrderInv /\ [Next \/ Clear]_vars => OrderInv'
  BY OrderStep
<1>3. OrderInv => VersionOrder
  BY DEF OrderInv, OrderedUpTo, InOrder, VersionOrder, Tables
<1>4. QED
  BY <1>1, <1>2, <1>3, PTL DEF SpecWithClear

\* And then MemTable::get_, which stops at the first table with a visible version,
\* answers every reader with the newest version in memory that the reader may see.
THEOREM ReadersSeeNewest == ChecksConflicts => (SpecWithClear => []ReadsNewest)
<1> SUFFICES ASSUME ChecksConflicts PROVE SpecWithClear => []ReadsNewest
  OBVIOUS
<1>1. Init => OrderInv
  BY InitOrder
<1>2. OrderInv /\ [Next \/ Clear]_vars => OrderInv'
  BY OrderStep
<1>3. OrderInv => ReadsNewest
  <2>1. ASSUME OrderInv, NEW k \in Keys, NEW t \in 0..nextTransactionId
        PROVE  MemGet(memtable, k, t) = TableGet(Resident(memtable), k, t)
    <3>1. /\ memtable \in MemTables
          /\ InOrder(memtable)
          /\ TablesDistinct(memtable)
          /\ t \in Nat
      BY <2>1 DEF OrderInv, OrderedUpTo, TypeOK, EngineTypeOK
    <3>2. QED
      BY <3>1, OrderedReads
  <2>2. QED
    BY <2>1 DEF ReadsNewest
<1>4. QED
  BY <1>1, <1>2, <1>3, PTL DEF SpecWithClear

-----------------------------------------------------------------------------
(* Refinement *)

\* What is resident is in memory.
LEMMA ResidentInVersions ==
    ASSUME NEW m \in MemTables
    PROVE  Resident(m) \subseteq VersionsIn(m)
BY ResidentParts DEF VersionsIn

\* What a flush does to a memtable is to let old versions leave.
LEMMA FlushEvicts ==
    ASSUME NEW m \in MemTables, InOrder(m), memtable' \in {m, AfterFlush(m)}
    PROVE  Store!Retains(Resident(m))
<1>1. CASE memtable' = m
  BY <1>1 DEF Store!Retains
<1>2. CASE memtable' = AfterFlush(m)
  BY <1>2, AfterFlushResident DEF Store!Retains
<1>3. QED
  BY <1>1, <1>2

\* A direct write, with the flush it may bring about, is a Write.
LEMMA PutIsWrite ==
    ASSUME memtable \in MemTables, NEW k \in Keys, NEW v \in Payload, NEW t \in Nat,
           t <= MaxTrancId, OrderedUpTo(memtable, t),
           memtable' \in {MemPut(memtable, k, v, t), AfterFlush(MemPut(memtable, k, v, t))}
    PROVE  \E j \in Keys, u \in Payload, s \in 0..MaxTrancId : Store!Write(j, u, s)
<1> DEFINE m   == MemPut(memtable, k, v, t)
           map == [j \in {k} |-> v]
<1>1. m \in MemTables /\ OrderedUpTo(m, t)
  BY MemPutType, PutOrdered
<1>2. \A n \in Resident(memtable) : n.tranc_id <= t
  BY ResidentInVersions DEF OrderedUpTo
<1>3. Store!Applied(map, t) = Resident(m)
  <2>1. Store!Applied(map, t) =
           {n \in Resident(memtable) : ~(n.key \in {k} /\ n.tranc_id = t)}
              \cup {Node(j, map[j], t) : j \in {k}}
    BY DEF Store!Applied, Store!Node, Node
  <2>2. map = [j \in {k} |-> v]
    OBVIOUS
  <2> HIDE DEF map
  <2>3. Resident(m) = {n \in Resident(memtable) : ~(n.key \in {k} /\ n.tranc_id = t)}
                         \cup {Node(j, map[j], t) : j \in {k}}
    BY <2>2, MemPutResident
  <2>4. QED
    BY <2>1, <2>3
<1> HIDE DEF m, map
<1>4. Store!Retains(Resident(m))
  BY <1>1, FlushEvicts DEF OrderedUpTo, m
<1>5. Store!Write(k, v, t)
  BY <1>2, <1>3, <1>4 DEF Store!Write, map
<1>6. t \in 0..MaxTrancId
  BY BoundsAssumption
<1>7. QED
  BY <1>5, <1>6

\* A new data directory is an empty multi-version store.
LEMMA InitRefines == Init => Store!Init
<1> SUFFICES ASSUME Init PROVE Resident(memtable) = {}
  BY DEF Store!Init
<1>1. memtable \in MemTables
  BY InitType DEF TypeOK, EngineTypeOK
<1>2. memtable.current_table = {} /\ memtable.frozen_tables = <<>>
  BY DEF Init, EngineInit, NewMemTable
<1>3. QED
  BY <1>1, <1>2, EmptyMemTable, ResidentInVersions

\* Every step is a step of the multi-version store, or none.
LEMMA StepRefines ==
    ASSUME ChecksConflicts, OrderInv, OrderInv', [Next \/ Clear]_vars
    PROVE  [Store!Next]_(Resident(memtable))
<1>1. /\ memtable \in MemTables
      /\ memtable' \in MemTables
      /\ InOrder(memtable)
      /\ nextTransactionId \in Nat
      /\ nextTransactionId - 1 <= MaxTrancId
      /\ nextTransactionId' - 1 <= MaxTrancId
      /\ MaxTrancId \in Nat
  BY BoundsAssumption DEF OrderInv, OrderedUpTo, TypeOK, EngineTypeOK
<1>2. ASSUME UNCHANGED memtable PROVE UNCHANGED Resident(memtable)
  BY <1>2
<1>3. ASSUME memtable' \in {memtable, AfterFlush(memtable)} PROVE Store!Next
  BY <1>1, <1>3, FlushEvicts DEF Store!Next, Store!Evict
<1>4. ASSUME NEW k \in Keys, NEW v \in Payload, Put(k, v) PROVE Store!Next
  <2> DEFINE t == nextTransactionId
  <2>1. TakeId /\ EnginePut(k, v, t)
    BY <1>4 DEF Put
  <2>2. t \in Nat /\ t <= MaxTrancId
    BY <1>1, <2>1 DEF TakeId
  <2>3. OrderedUpTo(memtable, t)
    <3>1. OrderedUpTo(memtable, t - 1)
      BY DEF OrderInv
    <3>2. QED
      BY <1>1, <3>1, OrderedWeaken
  <2>4. memtable' \in {MemPut(memtable, k, v, t), AfterFlush(MemPut(memtable, k, v, t))}
    BY <2>1 DEF EnginePut, FlushIfFull, FlushFrom
  <2> HIDE DEF t
  <2>5. \E j \in Keys, u \in Payload, s \in 0..MaxTrancId : Store!Write(j, u, s)
    BY <1>1, <2>2, <2>3, <2>4, PutIsWrite
  <2>6. QED
    BY <2>5 DEF Store!Next, Store!Payload, Payload
<1>5. ASSUME BatchTurn PROVE Store!Next
  <2> DEFINE kv == Head(todo.kvs)
             k  == kv[1]
             v  == kv[2]
             t  == todo.tranc_id
  <2>1. /\ todo \in [op : {"batch"}, kvs : Seq(Keys \X Payload) \ {<<>>}, tranc_id : Nat]
        /\ t < nextTransactionId
        /\ OrderedUpTo(memtable, t)
    BY <1>5 DEF BatchTurn, OrderInv, TypeOK, TodoTypeOK, Idle
  <2>2. k \in Keys /\ v \in Payload /\ t \in Nat
    <3>1. todo.kvs \in Seq(Keys \X Payload) /\ todo.kvs # <<>> /\ t \in Nat
      BY <2>1
    <3>2. kv \in Keys \X Payload
      BY <3>1
    <3>3. QED
      BY <3>1, <3>2
  <2>3. t <= MaxTrancId
    <3> HIDE DEF t
    <3>1. QED
      BY <1>1, <2>1, <2>2
  <2>4. memtable' \in {MemPut(memtable, k, v, t), AfterFlush(MemPut(memtable, k, v, t))}
    BY <1>5 DEF BatchTurn, EngineBatchTurn, FlushIfFull, FlushFrom
  <2> HIDE DEF k, v, t
  <2>5. \E j \in Keys, u \in Payload, s \in 0..MaxTrancId : Store!Write(j, u, s)
    BY <1>1, <2>1, <2>2, <2>3, <2>4, PutIsWrite
  <2>6. QED
    BY <2>5 DEF Store!Next, Store!Payload, Payload
<1>6. ASSUME Flush \/ FlushAllTurn PROVE Store!Next
  BY <1>3, <1>6 DEF Flush, FlushAllTurn, FlushLoopTurn, EngineFlush, FlushFrom
<1>7. ASSUME Clear PROVE Store!Next
  <2>1. memtable' = AfterClear(memtable)
    BY <1>7 DEF Clear, EngineClear
  <2>2. Resident(memtable)' = {}
    <3>1. memtable'.current_table = {} /\ memtable'.frozen_tables = <<>>
      BY <2>1 DEF AfterClear
    <3>2. QED
      BY <1>1, <3>1, EmptyMemTable, ResidentInVersions
  <2>3. QED
    BY <2>2 DEF Store!Next, Store!Evict, Store!Retains
<1>8. ASSUME NEW t \in Open, CommitSucceeds(t) PROVE Store!Next
  <2> DEFINE map == activeTrans[t].temp_map
  <2>1. /\ t \in DOMAIN activeTrans /\ t \in Nat /\ t < nextTransactionId
        /\ IsTran(activeTrans[t])
    BY DEF Open, OrderInv, TypeOK
  <2>2. /\ DOMAIN map \in SUBSET Keys
        /\ IsFiniteSet(DOMAIN map)
        /\ map \in [DOMAIN map -> Payload]
    BY <2>1 DEF IsTran, IsMap
  <2>3. \A k \in DOMAIN map :
           ~(MemGet(memtable, k, 0) # NoNode /\ MemGet(memtable, k, 0).tranc_id > t)
    BY <1>8 DEF CommitSucceeds, Conflicts, Conflict
  <2>4. memtable' = MemPutAll_(memtable, map, t)
    BY <1>8 DEF CommitSucceeds
  <2> HIDE DEF map
  <2>5. \A n \in Resident(memtable) : n.key \in DOMAIN map => n.tranc_id <= t
    BY <1>1, <2>1, <2>2, <2>3, NothingNewer, ResidentInVersions
  <2>6. Resident(memtable)' = Store!Applied(map, t)
    <3>1. Resident(MemPutAll_(memtable, map, t)) =
             {n \in Resident(memtable) : ~(n.key \in DOMAIN map /\ n.tranc_id = t)}
                \cup {Node(k, map[k], t) : k \in DOMAIN map}
      BY <1>1, <2>1, <2>2, MemPutAll_Resident
    <3>2. QED
      BY <2>4, <3>1 DEF Store!Applied, Store!Node, Node
  <2>7. Store!Commit(map, t)
    BY <2>5, <2>6 DEF Store!Commit
  <2>8. t \in 0..MaxTrancId
    BY <1>1, <2>1
  <2>9. QED
    BY <2>2, <2>7, <2>8 DEF Store!Next, Store!Payload, Payload
<1>9. ASSUME \/ Get
             \/ \E kvs \in Batches : StartBatch(kvs)
             \/ StartFlushAll
             \/ EndFlushAll
             \/ BeginTran
             \/ \E t \in Open, k \in Keys, v \in Payload : TranWrite(t, k, v)
             \/ \E t \in Open, k \in Keys : TranGet(t, k)
             \/ \E t \in Open : CommitFails(t) \/ Abort(t)
             \/ UNCHANGED vars
      PROVE  UNCHANGED memtable
  <2>1. IsolationLevel # "READ_UNCOMMITTED"
    BY DEF ChecksConflicts
  <2>2. QED
    BY <1>9, <2>1 DEF Get, StartBatch, StartFlushAll, EndFlushAll, BeginTran, TranWrite,
       TranGet, CommitFails, Abort, vars, engineVars
<1>10. ~(RollbackTurn \/ EndRollback)
  BY DEF OrderInv, RollbackTurn, EndRollback
<1>11. QED
  BY <1>2, <1>4, <1>5, <1>6, <1>7, <1>8, <1>9, <1>10 DEF Next, DirectCall, TranCall, Commit

\* The tables in memory, for all their freezing and flushing, implement one
\* multi-version store.
THEOREM MemoryImplementsStore == ChecksConflicts => (SpecWithClear => ImplementsStore)
<1> SUFFICES ASSUME ChecksConflicts PROVE SpecWithClear => ImplementsStore
  OBVIOUS
<1>1. Init => OrderInv
  BY InitOrder
<1>2. OrderInv /\ [Next \/ Clear]_vars => OrderInv'
  BY OrderStep
<1>3. Init => Store!Init
  BY InitRefines
<1>4. OrderInv /\ OrderInv' /\ [Next \/ Clear]_vars => [Store!Next]_(Resident(memtable))
  BY StepRefines
<1>5. QED
  BY <1>1, <1>2, <1>3, <1>4, PTL DEF SpecWithClear, ImplementsStore, Store!Spec


-----------------------------------------------------------------------------
(* Frozen bytes *)

TableSizes == [T \in Table |-> TableSize(T)]

\* frozen_bytes is the size of the frozen tables.
Counted(m) == m.frozen_bytes = Total(Weigh(TableSizes, m.frozen_tables))

LEMMA TableSizesType == TableSizes \in [Table -> Int]
BY TableSizeType DEF TableSizes

\* TotalSize, unfolded, is the total of the sizes.
LEMMA TotalSizeIsTotal ==
    ASSUME NEW s \in Seq(Table)
    PROVE  TotalSize(s) = Total(Weigh(TableSizes, s))
<1> DEFINE w == Weigh(TableSizes, s)
           IsSize(f) == f = [i \in 0..Len(s) |->
                                IF i = 0 THEN 0 ELSE f[i - 1] + TableSize(s[i])]
<1>1. w \in Seq(Int) /\ Len(w) = Len(s)
  BY TableSizesType, WeighType
<1>2. \A i \in 1..Len(s) : w[i] = TableSize(s[i])
  <2>1. \A i \in 1..Len(s) : s[i] \in Table
    OBVIOUS
  <2>2. QED
    BY <2>1 DEF Weigh, TableSizes
<1>3. ASSUME NEW f PROVE IsSum(f, w) <=> IsSize(f)
  <2>1. \A i \in 0..Len(s) : (IF i = 0 THEN 0 ELSE f[i - 1] + w[i])
                                = (IF i = 0 THEN 0 ELSE f[i - 1] + TableSize(s[i]))
    BY <1>2
  <2>2. [i \in 0..Len(s) |-> IF i = 0 THEN 0 ELSE f[i - 1] + w[i]]
           = [i \in 0..Len(s) |-> IF i = 0 THEN 0 ELSE f[i - 1] + TableSize(s[i])]
    BY <2>1
  <2> HIDE DEF w
  <2>3. QED
    BY <1>1, <2>2 DEF IsSum
<1> HIDE DEF w, IsSize
<1> DEFINE g == CHOOSE f : IsSize(f)
<1>4. IsSize(g)
  BY <1>1, <1>3, SumExists
<1>5. g[Len(s)] = Total(w)
  <2>1. IsSum(g, w)
    BY <1>3, <1>4
  <2> HIDE DEF g
  <2>2. QED
    BY <1>1, <2>1, TotalIs
<1>6. QED
  BY <1>5 DEF w, IsSize, TotalSize

\* frozen_cur_table_ adds the size of the table it freezes.
LEMMA FreezeCounted ==
    ASSUME NEW m \in MemTables, Counted(m)
    PROVE  Counted(FrozenCurTable(m))
<1> DEFINE frozen == m.frozen_tables
<1>1. m.current_table \in Table /\ frozen \in Seq(Table)
  BY DEF MemTables
<1>2. TableSizes[m.current_table] = TableSize(m.current_table)
  BY <1>1 DEF TableSizes
<1>3. Total(Weigh(TableSizes, <<m.current_table>> \o frozen))
         = TableSize(m.current_table) + Total(Weigh(TableSizes, frozen))
  BY <1>1, <1>2, TableSizesType, WeighPrepend
<1>4. m.frozen_bytes \in Int /\ TableSize(m.current_table) \in Int
  BY <1>1, TableSizeType DEF MemTables
<1>5. /\ FrozenCurTable(m).frozen_tables = <<m.current_table>> \o frozen
      /\ FrozenCurTable(m).frozen_bytes = m.frozen_bytes + TableSize(m.current_table)
  BY DEF FrozenCurTable
<1> DEFINE total == Total(Weigh(TableSizes, frozen))
<1>6. m.frozen_bytes = total
  BY DEF Counted
<1> HIDE DEF total
<1>7. m.frozen_bytes + TableSize(m.current_table) = TableSize(m.current_table) + total
  BY <1>4, <1>6
<1>8. QED
  BY <1>3, <1>5, <1>7 DEF Counted, total

\* MemTable::put touches the current table, and freezes it at most.
LEMMA PutCounted ==
    ASSUME NEW m \in MemTables, Counted(m),
           NEW k \in Keys, NEW v \in Payload, NEW t \in Nat
    PROVE  Counted(MemPut(m, k, v, t))
<1>1. MemPut_(m, k, v, t) \in MemTables
  BY MemPut_Type
<1>2. Counted(MemPut_(m, k, v, t))
  BY DEF MemPut_, Counted, MemTables
<1>3. QED
  BY <1>1, <1>2, FreezeCounted DEF MemPut

\* flush_last subtracts the size of the table that leaves.
LEMMA AfterFlushCounted ==
    ASSUME NEW m \in MemTables, Counted(m)
    PROVE  Counted(AfterFlush(m))
<1>1. CASE NothingToFlush(m)
  BY <1>1 DEF AfterFlush
<1>2. CASE ~NothingToFlush(m)
  <2> DEFINE f    == FreezeForFlush(m)
             all  == f.frozen_tables
             rest == Total(Weigh(TableSizes, Front(all)))
             size == TableSize(Last(all))
  <2>1. f \in MemTables /\ all # <<>> /\ all \in Seq(Table) /\ f.frozen_bytes \in Int
    BY <1>2, FreezeForFlushType DEF MemTables
  <2>2. Counted(f)
    BY FreezeCounted DEF FreezeForFlush
  <2>3. /\ AfterFlush(m).frozen_tables = Front(all)
        /\ AfterFlush(m).frozen_bytes = f.frozen_bytes - size
    <3>1. AfterFlush(m) =
            [f EXCEPT !.frozen_tables = SubSeq(all, 1, Len(all) - 1),
                      !.frozen_bytes  = f.frozen_bytes - TableSize(all[Len(all)])]
      BY <1>2 DEF AfterFlush
    <3> HIDE DEF f
    <3>2. QED
      BY <2>1, <3>1 DEF MemTables, Front, Last
  <2> HIDE DEF all, f
  <2>4. Last(all) \in Table /\ Front(all) \in Seq(Table)
    BY <2>1, FrontOf
  <2>5. TableSizes[Last(all)] = size /\ size \in Nat
    BY <2>4, TableSizeType DEF TableSizes
  <2>6. Total(Weigh(TableSizes, all)) = rest + TableSizes[Last(all)]
    BY <2>1, TableSizesType, WeighFront
  <2>7. rest \in Int
    <3> DEFINE w == Weigh(TableSizes, Front(all))
    <3>1. w \in Seq(Int)
      BY <2>4, TableSizesType, WeighType
    <3> HIDE DEF w
    <3>2. PICK g \in [0..Len(w) -> Int] : IsSum(g, w)
      BY <3>1, SumExists
    <3>3. QED
      BY <3>1, <3>2, TotalIs DEF w
  <2>8. f.frozen_bytes = rest + size
    BY <2>2, <2>5, <2>6 DEF Counted, all
  <2> HIDE DEF rest, size
  <2>9. f.frozen_bytes - size = rest
    BY <2>5, <2>7, <2>8
  <2>10. QED
    BY <2>3, <2>9 DEF Counted, rest
<1>3. QED
  BY <1>1, <1>2

\* LSMEngine::flush, and what follows every write.
LEMMA FlushIfFullCounted ==
    ASSUME NEW m \in MemTables, Counted(m), FlushFrom(m) \/ FlushIfFull(m)
    PROVE  Counted(memtable')
BY AfterFlushCounted DEF FlushIfFull, FlushFrom

-----------------------------------------------------------------------------
(* What a step does to the engine *)

\* A write to the current table, with the freeze and the flush it may bring about.
EngineWrite(k, v, t) ==
    \/ FlushIfFull(MemPut(memtable, k, v, t))
    \/ /\ memtable' = MemPut(memtable, k, v, t)
       /\ UNCHANGED <<level_sst_ids, ssts, next_sst_id>>

\* The id of a put or of the batch that is running.
DirectId(t) ==
    \/ TakeId /\ todo = Idle /\ t = nextTransactionId
    \/ UNCHANGED nextTransactionId /\ todo.op = "batch" /\ t = todo.tranc_id

\* The levels that keep their writes aside until they commit.
WritesAside == IsolationLevel # "READ_UNCOMMITTED"

\* An engine write is a put, a turn of a batch, or a write or a rollback under
\* READ_UNCOMMITTED.
DirectWrite ==
    \E k \in Keys, v \in Payload, t \in Nat :
        /\ EngineWrite(k, v, t)
        /\ WritesAside /\ todo.op # "rollback" =>
              DirectId(t) /\ UNCHANGED <<activeTrans, wal, unlinked>>

\* A turn of a batch writes the head of what is left.
LEMMA BatchHead ==
    ASSUME TypeOK, todo.op = "batch"
    PROVE  /\ Head(todo.kvs)[1] \in Keys
           /\ Head(todo.kvs)[2] \in Payload
           /\ todo.tranc_id \in Nat
<1>1. todo \in [op : {"batch"}, kvs : Seq(Keys \X Payload) \ {<<>>}, tranc_id : Nat]
  BY DEF TypeOK, TodoTypeOK, Idle
<1>2. todo.kvs \in Seq(Keys \X Payload) /\ todo.kvs # <<>> /\ todo.tranc_id \in Nat
  BY <1>1
<1>3. Head(todo.kvs) \in Keys \X Payload
  BY <1>2
<1>4. QED
  BY <1>2, <1>3

\* What RollbackTurn puts back.
LEMMA RollbackPrev ==
    ASSUME TypeOK, todo.op = "rollback", NEW k \in todo.keys
    PROVE  LET prev == activeTrans[todo.tranc_id].rollback_map[k]
           IN  /\ k \in Keys /\ todo.tranc_id \in Nat
               /\ prev # NoNode => prev.value \in Payload /\ prev.tranc_id \in Nat
<1>1. /\ todo \in [op : {"rollback"}, keys : SUBSET Keys, tranc_id : DOMAIN activeTrans]
      /\ todo.keys \subseteq DOMAIN activeTrans[todo.tranc_id].rollback_map
  BY DEF TypeOK, TodoTypeOK, Idle
<1>2. /\ k \in Keys /\ todo.tranc_id \in DOMAIN activeTrans /\ todo.tranc_id \in Nat
      /\ k \in DOMAIN activeTrans[todo.tranc_id].rollback_map
      /\ IsTran(activeTrans[todo.tranc_id])
  BY <1>1 DEF TypeOK
<1>3. activeTrans[todo.tranc_id].rollback_map[k] \in Version \cup {NoNode}
  BY <1>2 DEF IsTran, IsMap
<1>4. QED
  BY <1>2, <1>3 DEF Version

\* Every step of the calls but clear, by what it does to the engine.
LEMMA EngineSteps ==
    ASSUME TypeOK, Next
    PROVE  \/ UNCHANGED engineVars
           \/ EngineFlush /\ UNCHANGED <<nextTransactionId, activeTrans, wal, unlinked, todo>>
           \/ DirectWrite
           \/ \E t \in Open : CommitSucceeds(t)
<1>1. CASE DirectCall
  <2>1. CASE Get \/ StartFlushAll \/ EndFlushAll \/ \E kvs \in Batches : StartBatch(kvs)
    BY <2>1 DEF Get, StartFlushAll, EndFlushAll, StartBatch
  <2>2. CASE Flush \/ FlushAllTurn
    BY <2>2 DEF Flush, FlushAllTurn, FlushLoopTurn, tranVars
  <2>3. ASSUME NEW k \in Keys, NEW v \in Payload, Put(k, v) PROVE DirectWrite
    <3>1. nextTransactionId \in Nat
      BY DEF TypeOK
    <3>2. EngineWrite(k, v, nextTransactionId)
      BY <2>3 DEF Put, EnginePut, EngineWrite
    <3>3. DirectId(nextTransactionId) /\ UNCHANGED <<activeTrans, wal, unlinked>>
      BY <2>3 DEF Put, DirectId
    <3>4. QED
      BY <3>1, <3>2, <3>3 DEF DirectWrite
  <2>4. CASE BatchTurn
    <3> DEFINE kv == Head(todo.kvs)
    <3>1. kv[1] \in Keys /\ kv[2] \in Payload /\ todo.tranc_id \in Nat
      BY <2>4, BatchHead DEF BatchTurn
    <3>2. EngineWrite(kv[1], kv[2], todo.tranc_id)
      BY <2>4 DEF BatchTurn, EngineBatchTurn, EngineWrite
    <3>3. DirectId(todo.tranc_id) /\ UNCHANGED <<activeTrans, wal, unlinked>>
      BY <2>4 DEF BatchTurn, DirectId, tranVars
    <3> HIDE DEF kv
    <3>4. QED
      BY <3>1, <3>2, <3>3 DEF DirectWrite
  <2>5. QED
    BY <1>1, <2>1, <2>2, <2>3, <2>4 DEF DirectCall
<1>2. CASE TranCall
  <2>1. CASE \/ BeginTran \/ EndRollback
             \/ \E t \in Open, k \in Keys : TranGet(t, k)
             \/ \E t \in Open : CommitFails(t) \/ Abort(t)
    BY <2>1 DEF BeginTran, EndRollback, TranGet, CommitFails, Abort
  <2>2. ASSUME NEW t \in Open, NEW k \in Keys, NEW v \in Payload, TranWrite(t, k, v)
        PROVE  UNCHANGED engineVars \/ DirectWrite
    <3>1. CASE UNCHANGED engineVars
      BY <3>1
    <3>2. CASE ~WritesAside /\ EnginePut(k, v, t)
      <4>1. t \in Nat
        BY DEF Open, TypeOK
      <4>2. QED
        BY <3>2, <4>1 DEF EnginePut, EngineWrite, DirectWrite
    <3>3. QED
      BY <2>2, <3>1, <3>2 DEF TranWrite, WritesAside
  <2>3. CASE RollbackTurn
    <3>1. PICK k \in todo.keys :
            LET prev == activeTrans[todo.tranc_id].rollback_map[k]
            IN  IF prev # NoNode
                THEN EnginePut(k, prev.value, prev.tranc_id)
                ELSE EnginePut(k, Empty, todo.tranc_id)
      BY <2>3 DEF RollbackTurn
    <3>2. \E v \in Payload, t \in Nat : EnginePut(k, v, t)
      <4> DEFINE prev == activeTrans[todo.tranc_id].rollback_map[k]
      <4>1. /\ todo.tranc_id \in Nat
            /\ prev # NoNode => prev.value \in Payload /\ prev.tranc_id \in Nat
        BY <2>3, RollbackPrev DEF RollbackTurn
      <4>2. Empty \in Payload
        BY DEF Payload
      <4> HIDE DEF prev
      <4>3. QED
        BY <3>1, <4>1, <4>2 DEF prev
    <3>3. k \in Keys
      BY <2>3, RollbackPrev DEF RollbackTurn
    <3>4. QED
      BY <2>3, <3>2, <3>3 DEF EnginePut, EngineWrite, DirectWrite, RollbackTurn
  <2>4. QED
    BY <1>2, <2>1, <2>2, <2>3 DEF TranCall, Commit
<1>3. QED
  BY <1>1, <1>2 DEF Next

-----------------------------------------------------------------------------
(* Frozen bytes, along every behaviour *)

LEMMA CountedStep ==
    ASSUME TypeOK, Counted(memtable), [Next]_vars
    PROVE  Counted(memtable')
<1>0. memtable \in MemTables
  BY DEF TypeOK, EngineTypeOK
<1>1. CASE UNCHANGED engineVars
  BY <1>1 DEF engineVars
<1>2. CASE EngineFlush
  BY <1>0, <1>2, FlushIfFullCounted DEF EngineFlush
<1>3. CASE DirectWrite
  <2>1. PICK k \in Keys, v \in Payload, t \in Nat : EngineWrite(k, v, t)
    BY <1>3 DEF DirectWrite
  <2> DEFINE m == MemPut(memtable, k, v, t)
  <2>2. m \in MemTables /\ Counted(m)
    BY <1>0, MemPutType, PutCounted
  <2>3. FlushIfFull(m) \/ memtable' = m
    BY <2>1 DEF EngineWrite
  <2> HIDE DEF m
  <2>4. QED
    BY <2>2, <2>3, FlushIfFullCounted
<1>4. CASE \E t \in Open : CommitSucceeds(t)
  <2>1. PICK t \in Open : memtable' = MemPutAll_(memtable, activeTrans[t].temp_map, t)
    BY <1>4 DEF CommitSucceeds
  <2>2. /\ memtable'.frozen_tables = memtable.frozen_tables
        /\ memtable'.frozen_bytes = memtable.frozen_bytes
    BY <1>0, <2>1 DEF MemPutAll_, MemTables
  <2>3. QED
    BY <2>2 DEF Counted
<1>5. CASE UNCHANGED vars
  BY <1>5 DEF vars, engineVars
<1>6. QED
  BY <1>1, <1>2, <1>3, <1>4, <1>5, EngineSteps

\* Whatever calls are made under whatever level, until clear is called, frozen_bytes is
\* the size of the frozen tables: frozen_cur_table_ adds what flush_last subtracts.
THEOREM FrozenBytesCounted == Spec => []FrozenBytesExact
<1>1. Init => TypeOK /\ Counted(memtable)
  <2>1. ASSUME Init PROVE Counted(memtable)
    <3>1. memtable.frozen_tables = <<>> /\ memtable.frozen_bytes = 0
      BY <2>1 DEF Init, EngineInit, NewMemTable
    <3>2. Weigh(TableSizes, <<>>) = <<>>
      BY DEF Weigh
    <3>3. QED
      BY <3>1, <3>2, TotalEmpty DEF Counted
  <2>2. QED
    BY <2>1, InitType
<1>2. TypeOK /\ Counted(memtable) /\ [Next]_vars => TypeOK' /\ Counted(memtable)'
  BY TypeStep, CountedStep DEF Counted
<1>3. TypeOK /\ Counted(memtable) => FrozenBytesExact
  <2>1. ASSUME TypeOK PROVE memtable.frozen_tables \in Seq(Table)
    BY <2>1 DEF TypeOK, EngineTypeOK, MemTables
  <2>2. QED
    BY <2>1, TotalSizeIsTotal DEF Counted, FrozenBytesExact
<1>4. QED
  BY <1>1, <1>2, <1>3, PTL DEF Spec

-----------------------------------------------------------------------------
(* What a step does to the transactions and the log *)

\* What a transaction will log, has written, and whether it is through, stay as they are.
SameTrans ==
    /\ DOMAIN activeTrans' = DOMAIN activeTrans
    /\ \A t \in DOMAIN activeTrans :
          /\ activeTrans'[t].operations = activeTrans[t].operations
          /\ activeTrans'[t].temp_map = activeTrans[t].temp_map
          /\ activeTrans'[t].isCommited = activeTrans[t].isCommited

OnlyOneChanges(t) ==
    /\ DOMAIN activeTrans' = DOMAIN activeTrans
    /\ \A s \in DOMAIN activeTrans \ {t} : activeTrans'[s] = activeTrans[s]

\* TranContext::put and remove, on the context.
Recorded(t, k, v) ==
    /\ OnlyOneChanges(t)
    /\ \E op \in {"PUT", "DELETE"} :
          activeTrans'[t].operations = Append(activeTrans[t].operations, WriteRecord(t, op, k, v))
    /\ activeTrans'[t].temp_map = IF WritesAside THEN Bind(activeTrans[t].temp_map, k, v)
                                  ELSE activeTrans[t].temp_map
    /\ activeTrans'[t].isCommited = activeTrans[t].isCommited
    /\ UNCHANGED <<wal, unlinked, nextTransactionId>>

\* TranContext::commit, on the context and the log.
Committed(t) ==
    LET operations == Append(activeTrans[t].operations, Record(t, "COMMIT"))
    IN  /\ OnlyOneChanges(t)
        /\ activeTrans'[t].operations = operations
        /\ activeTrans'[t].temp_map = activeTrans[t].temp_map
        /\ activeTrans'[t].isCommited
        /\ wal' = IF unlinked THEN wal ELSE wal \o operations
        /\ UNCHANGED <<unlinked, nextTransactionId>>

\* TranManager::new_tranc, on the contexts.
Begun ==
    /\ TakeId
    /\ DOMAIN activeTrans' = DOMAIN activeTrans \cup {nextTransactionId}
    /\ activeTrans'[nextTransactionId] = NewTran(nextTransactionId)
    /\ \A s \in DOMAIN activeTrans \ {nextTransactionId} : activeTrans'[s] = activeTrans[s]
    /\ UNCHANGED <<wal, unlinked>>

\* A change of one context that leaves these three fields alone.
LEMMA SideChange ==
    ASSUME TypeOK, NEW t \in DOMAIN activeTrans, NEW tran,
           activeTrans' = [activeTrans EXCEPT ![t] = tran],
           tran.operations = activeTrans[t].operations,
           tran.temp_map = activeTrans[t].temp_map,
           tran.isCommited = activeTrans[t].isCommited
    PROVE  SameTrans
BY DEF SameTrans

LEMMA TranWriteRecorded ==
    ASSUME TypeOK, NEW t \in Open, NEW k \in Keys, NEW v \in Payload, TranWrite(t, k, v)
    PROVE  Recorded(t, k, v)
<1> DEFINE logged == Logged(t, k, v)
           prev   == EngineGet(k, 0)
<1>1. t \in DOMAIN activeTrans /\ IsTran(activeTrans[t])
  BY DEF Open, TypeOK
<1>2. /\ IsTran(logged)
      /\ logged.temp_map = activeTrans[t].temp_map
      /\ logged.isCommited = activeTrans[t].isCommited
      /\ \E op \in {"PUT", "DELETE"} :
            logged.operations = Append(activeTrans[t].operations, WriteRecord(t, op, k, v))
  BY <1>1, LoggedType DEF Logged, IsTran
<1>3. UNCHANGED <<wal, unlinked, nextTransactionId>>
  BY DEF TranWrite
<1>4. \E tran :
         /\ activeTrans' = [activeTrans EXCEPT ![t] = tran]
         /\ tran.operations = logged.operations
         /\ tran.isCommited = logged.isCommited
         /\ tran.temp_map = IF WritesAside THEN Bind(logged.temp_map, k, v)
                            ELSE logged.temp_map
  <2>1. CASE WritesAside
    <3> DEFINE tran == [logged EXCEPT !.temp_map = Bind(logged.temp_map, k, v)]
    <3>1. activeTrans' = [activeTrans EXCEPT ![t] = tran]
      BY <2>1 DEF TranWrite, WritesAside
    <3> HIDE DEF logged
    <3>2. /\ tran.operations = logged.operations
          /\ tran.isCommited = logged.isCommited
          /\ tran.temp_map = Bind(logged.temp_map, k, v)
      BY <1>2 DEF IsTran
    <3> HIDE DEF tran
    <3>3. QED
      BY <2>1, <3>1, <3>2
  <2>2. CASE ~WritesAside
    <3>1. \/ activeTrans' = [activeTrans EXCEPT ![t] =
                [logged EXCEPT !.rollback_map = Bind(logged.rollback_map, k, prev)]]
          \/ activeTrans' = [activeTrans EXCEPT ![t] = logged]
      BY <2>2 DEF TranWrite, WritesAside
    <3> HIDE DEF logged, prev
    <3> DEFINE tran == [logged EXCEPT !.rollback_map = Bind(logged.rollback_map, k, prev)]
    <3>2. /\ tran.operations = logged.operations
          /\ tran.isCommited = logged.isCommited
          /\ tran.temp_map = logged.temp_map
      BY <1>2 DEF IsTran
    <3>3. CASE activeTrans' = [activeTrans EXCEPT ![t] = logged]
      BY <2>2, <3>3
    <3>4. CASE activeTrans' = [activeTrans EXCEPT ![t] = tran]
      <4> HIDE DEF tran
      <4>1. QED
        BY <2>2, <3>2, <3>4
    <3>5. QED
      BY <3>1, <3>3, <3>4
  <2>3. QED
    BY <2>1, <2>2
<1> HIDE DEF logged
<1>5. QED
  BY <1>1, <1>2, <1>3, <1>4 DEF Recorded, OnlyOneChanges

LEMMA CommitCommitted ==
    ASSUME TypeOK, NEW t \in Open, CommitSucceeds(t)
    PROVE  Committed(t)
<1> DEFINE ops  == Append(activeTrans[t].operations, Record(t, "COMMIT"))
           tran == [activeTrans[t] EXCEPT !.operations = ops, !.isCommited = TRUE]
<1>1. t \in DOMAIN activeTrans /\ IsTran(activeTrans[t])
  BY DEF Open, TypeOK
<1>2. /\ activeTrans' = [activeTrans EXCEPT ![t] = tran]
      /\ wal' = IF unlinked THEN wal ELSE wal \o ops
      /\ UNCHANGED <<unlinked, nextTransactionId>>
  BY DEF CommitSucceeds
<1>3. /\ tran.operations = ops
      /\ tran.temp_map = activeTrans[t].temp_map
      /\ tran.isCommited
  <2> HIDE DEF ops
  <2>1. QED
    BY <1>1 DEF IsTran
<1> HIDE DEF tran
<1>4. QED
  BY <1>1, <1>2, <1>3 DEF Committed, OnlyOneChanges

\* Every step, by what it does to the contexts and the log.
LEMMA TranSteps ==
    ASSUME TypeOK, [Next \/ Clear]_vars
    PROVE  \/ SameTrans /\ UNCHANGED <<wal, unlinked>>
           \/ SameTrans /\ Clear
           \/ Begun /\ BeginTran
           \/ \E t \in Open, k \in Keys, v \in Payload : Recorded(t, k, v) /\ TranWrite(t, k, v)
           \/ \E t \in Open : Committed(t) /\ CommitSucceeds(t)
<1>1. CASE UNCHANGED <<activeTrans, wal, unlinked>>
  BY <1>1 DEF SameTrans
<1>2. CASE Clear
  BY <1>2 DEF Clear, SameTrans
<1>3. CASE BeginTran
  BY <1>3 DEF BeginTran, Begun, Bind
<1>4. ASSUME NEW t \in Open, NEW k \in Keys, NEW v \in Payload, TranWrite(t, k, v)
      PROVE  Recorded(t, k, v)
  BY <1>4, TranWriteRecorded
<1>5. ASSUME NEW t \in Open, CommitSucceeds(t) PROVE Committed(t)
  BY <1>5, CommitCommitted
<1>6. \A t \in DOMAIN activeTrans : IsTran(activeTrans[t])
  BY DEF TypeOK
<1>7. ASSUME NEW t \in Open, CommitFails(t) \/ Abort(t)
      PROVE  SameTrans /\ UNCHANGED <<wal, unlinked>>
  <2>1. UNCHANGED <<wal, unlinked>>
    BY <1>7 DEF CommitFails, Abort
  <2>2. UNCHANGED activeTrans \/ activeTrans' = [activeTrans EXCEPT ![t].isAborted = TRUE]
    BY <1>7 DEF CommitFails, Abort
  <2>3. QED
    BY <1>6, <2>1, <2>2, SideChange DEF Open, SameTrans, IsTran
<1>8. ASSUME NEW t \in Open, NEW k \in Keys, TranGet(t, k)
      PROVE  SameTrans /\ UNCHANGED <<wal, unlinked>>
  <2>1. UNCHANGED <<wal, unlinked>>
    BY <1>8 DEF TranGet
  <2>2. activeTrans' = [activeTrans EXCEPT ![t].read_map = Bind(@, k, EngineGet(k, t))]
    BY <1>8 DEF TranGet
  <2>3. QED
    BY <1>6, <2>1, <2>2, SideChange DEF Open, SameTrans, IsTran
<1>9. CASE EndRollback
  <2>1. todo.tranc_id \in DOMAIN activeTrans
    BY <1>9 DEF EndRollback, TypeOK, TodoTypeOK, Idle
  <2>2. activeTrans' = [activeTrans EXCEPT ![todo.tranc_id].isAborted = TRUE]
    BY <1>9 DEF EndRollback
  <2>3. UNCHANGED <<wal, unlinked>>
    BY <1>9 DEF EndRollback
  <2>4. QED
    BY <1>6, <2>1, <2>2, <2>3, SideChange DEF SameTrans, IsTran
<1>10. CASE RollbackTurn \/ UNCHANGED vars
  BY <1>1, <1>10 DEF RollbackTurn, tranVars, vars
<1>11. CASE DirectCall
  <2>1. UNCHANGED <<activeTrans, wal, unlinked>>
    BY <1>11 DEF DirectCall, Get, Put, StartBatch, BatchTurn, Flush, StartFlushAll,
                 FlushAllTurn, FlushLoopTurn, EndFlushAll, tranVars
  <2>2. QED
    BY <1>1, <2>1
<1>12. QED
  BY <1>2, <1>3, <1>4, <1>5, <1>7, <1>8, <1>9, <1>10, <1>11
  DEF Next, TranCall, Commit, Begun

-----------------------------------------------------------------------------
(* The log holds whole transactions *)

\* The records ops of t are in the log, right behind position b, and no other of t is.
Block(log, ops, t, b) ==
    /\ b + Len(ops) <= Len(log)
    /\ \A j \in 1..Len(ops) : log[b + j] = ops[j]
    /\ \A i \in DOMAIN log : log[i].tranc_id = t => i \in (b + 1)..(b + Len(ops))

\* What a transaction collects begins with its one CREATE record.
OwnRecords(ops, t) ==
    /\ ops # <<>> /\ ops[1] = Record(t, "CREATE")
    /\ \A j \in DOMAIN ops : ops[j].tranc_id = t /\ (ops[j].op = "CREATE" => j = 1)

\* The inductive invariant behind WalWhole.
LogInv ==
    /\ \A t \in DOMAIN activeTrans :
          t < nextTransactionId /\ OwnRecords(activeTrans[t].operations, t)
    /\ unlinked => wal = <<>>
    /\ \A i \in DOMAIN wal :
          wal[i].tranc_id \in DOMAIN activeTrans /\ activeTrans[wal[i].tranc_id].isCommited
    /\ \A t \in DOMAIN activeTrans :
          activeTrans[t].isCommited =>
             unlinked \/ \E b \in Nat : Block(wal, activeTrans[t].operations, t, b)

\* Records of others behind a block leave it a block.
LEMMA BlockStays ==
    ASSUME NEW log \in Seq(WalRecords), NEW more \in Seq(WalRecords),
           NEW ops \in Seq(WalRecords), NEW t, NEW b \in Nat, Block(log, ops, t, b),
           \A j \in DOMAIN more : more[j].tranc_id # t
    PROVE  Block(log \o more, ops, t, b)
<1> DEFINE all == log \o more
<1>1. /\ Len(all) = Len(log) + Len(more) /\ Len(log) \in Nat /\ Len(more) \in Nat
      /\ Len(ops) \in Nat /\ DOMAIN all = 1..Len(all) /\ DOMAIN log = 1..Len(log)
      /\ DOMAIN more = 1..Len(more)
      /\ \A i \in 1..Len(all) : all[i] = IF i <= Len(log) THEN log[i] ELSE more[i - Len(log)]
  BY ConcatProperties
<1> HIDE DEF all
<1>2. b + Len(ops) <= Len(all)
  BY <1>1 DEF Block
<1>3. ASSUME NEW j \in 1..Len(ops) PROVE all[b + j] = ops[j]
  <2>1. b + Len(ops) <= Len(log) /\ log[b + j] = ops[j]
    BY DEF Block
  <2>2. b + j \in 1..Len(all) /\ b + j <= Len(log)
    BY <1>1, <2>1
  <2>3. QED
    BY <1>1, <2>1, <2>2
<1>4. ASSUME NEW i \in DOMAIN all, all[i].tranc_id = t PROVE i \in (b + 1)..(b + Len(ops))
  <2>1. CASE i <= Len(log)
    <3>1. i \in DOMAIN log /\ log[i].tranc_id = t
      BY <1>1, <1>4, <2>1
    <3>2. QED
      BY <3>1 DEF Block
  <2>2. CASE ~(i <= Len(log))
    <3>1. i - Len(log) \in DOMAIN more /\ all[i] = more[i - Len(log)]
      BY <1>1, <2>2
    <3>2. QED
      BY <1>4, <3>1
  <2>3. QED
    BY <2>1, <2>2
<1>5. QED
  BY <1>2, <1>3, <1>4 DEF Block, all

\* What is appended to a log that has nothing of t is a block of t.
LEMMA BlockAppended ==
    ASSUME NEW log \in Seq(WalRecords), NEW ops \in Seq(WalRecords), NEW t,
           \A i \in DOMAIN log : log[i].tranc_id # t
    PROVE  Block(log \o ops, ops, t, Len(log))
<1> DEFINE all == log \o ops
<1>1. /\ Len(all) = Len(log) + Len(ops) /\ Len(log) \in Nat /\ Len(ops) \in Nat
      /\ DOMAIN all = 1..Len(all) /\ DOMAIN log = 1..Len(log)
      /\ \A i \in 1..Len(all) : all[i] = IF i <= Len(log) THEN log[i] ELSE ops[i - Len(log)]
  BY ConcatProperties
<1> HIDE DEF all
<1>2. ASSUME NEW j \in 1..Len(ops) PROVE all[Len(log) + j] = ops[j]
  <2>1. /\ Len(log) + j \in 1..Len(all) /\ ~(Len(log) + j <= Len(log))
        /\ (Len(log) + j) - Len(log) = j
    BY <1>1
  <2>2. QED
    BY <1>1, <2>1
<1>3. ASSUME NEW i \in DOMAIN all, all[i].tranc_id = t
      PROVE  i \in (Len(log) + 1)..(Len(log) + Len(ops))
  <2>1. ~(i <= Len(log))
    BY <1>1, <1>3
  <2>2. QED
    BY <1>1, <2>1
<1>4. QED
  BY <1>1, <1>2, <1>3 DEF Block, all

\* A transaction's records after one more that is not a CREATE.
LEMMA OwnRecordsAppend ==
    ASSUME NEW ops \in Seq(WalRecords), NEW t, OwnRecords(ops, t),
           NEW r \in WalRecords, r.tranc_id = t, r.op # "CREATE"
    PROVE  OwnRecords(Append(ops, r), t) /\ Append(ops, r) \in Seq(WalRecords)
<1> DEFINE all == Append(ops, r)
<1>1. /\ all \in Seq(WalRecords) /\ Len(all) = Len(ops) + 1 /\ Len(ops) \in Nat
      /\ DOMAIN all = 1..Len(all) /\ DOMAIN ops = 1..Len(ops)
      /\ \A i \in 1..Len(ops) : all[i] = ops[i]
      /\ all[Len(ops) + 1] = r
  OBVIOUS
<1>2. 1 \in 1..Len(ops)
  BY <1>1 DEF OwnRecords
<1> HIDE DEF all
<1>3. all # <<>> /\ all[1] = Record(t, "CREATE")
  BY <1>1, <1>2 DEF OwnRecords
<1>4. \A j \in DOMAIN all : j \in DOMAIN ops \/ j = Len(ops) + 1
  BY <1>1
<1>5. QED
  BY <1>1, <1>3, <1>4 DEF OwnRecords, all

\* Ids are given out one by one.
LEMMA IdGrows ==
    ASSUME TypeOK, [Next \/ Clear]_vars
    PROVE  nextTransactionId' = nextTransactionId \/ TakeId
<1>1. CASE DirectCall
  BY <1>1 DEF DirectCall, Get, Put, StartBatch, BatchTurn, Flush, StartFlushAll, FlushAllTurn,
              FlushLoopTurn, EndFlushAll, tranVars
<1>2. CASE TranCall
  BY <1>2 DEF TranCall, BeginTran, TranWrite, TranGet, Commit, CommitSucceeds, CommitFails,
              Abort, RollbackTurn, EndRollback, tranVars
<1>3. CASE Clear \/ UNCHANGED vars
  BY <1>3 DEF Clear, vars, tranVars
<1>4. QED
  BY <1>1, <1>2, <1>3 DEF Next

\* Nothing of an open transaction is in the log.
LEMMA OpenUnlogged ==
    ASSUME LogInv, NEW t \in Open
    PROVE  \A i \in DOMAIN wal : wal[i].tranc_id # t
BY DEF LogInv, Open

LEMMA InitLog == Init => LogInv
<1> SUFFICES ASSUME Init PROVE LogInv
  OBVIOUS
<1>1. DOMAIN activeTrans = {} /\ wal = <<>>
  BY DEF Init
<1>2. QED
  BY <1>1 DEF LogInv

\* What a step may do to the contexts and the log.
TranShape ==
    \/ SameTrans /\ UNCHANGED <<wal, unlinked>>
    \/ SameTrans /\ Clear
    \/ Begun
    \/ \E t \in Open, k \in Keys, v \in Payload : Recorded(t, k, v)
    \/ \E t \in Open : Committed(t)

LEMMA LogKept ==
    ASSUME TypeOK, LogInv, TranShape, nextTransactionId' = nextTransactionId \/ TakeId
    PROVE  LogInv'
<1> DEFINE ops(t) == activeTrans[t].operations
<1>1. /\ \A t \in DOMAIN activeTrans :
            /\ t \in Nat /\ t < nextTransactionId
            /\ ops(t) \in Seq(WalRecords) /\ OwnRecords(ops(t), t)
      /\ wal \in Seq(WalRecords) /\ nextTransactionId \in Nat
  BY DEF TypeOK, IsTran, LogInv
<1>2. nextTransactionId' = nextTransactionId \/ nextTransactionId' = nextTransactionId + 1
  BY DEF TakeId
<1>3. \A t \in DOMAIN activeTrans : t < nextTransactionId'
  BY <1>1, <1>2
<1>4. CASE SameTrans /\ UNCHANGED <<wal, unlinked>>
  <2>1. \A t \in DOMAIN activeTrans' : t < nextTransactionId' /\ OwnRecords(ops(t)', t)
    BY <1>1, <1>3, <1>4 DEF SameTrans
  <2>2. QED
    BY <1>4, <2>1 DEF SameTrans, LogInv
<1>5. CASE SameTrans /\ Clear
  <2>1. \A t \in DOMAIN activeTrans' : t < nextTransactionId' /\ OwnRecords(ops(t)', t)
    BY <1>1, <1>3, <1>5 DEF SameTrans
  <2>2. wal' = <<>> /\ unlinked'
    BY <1>5 DEF Clear
  <2>3. QED
    BY <2>1, <2>2 DEF LogInv
<1>6. CASE Begun
  <2> DEFINE new == nextTransactionId
  <2>1. /\ DOMAIN activeTrans' = DOMAIN activeTrans \cup {new}
        /\ activeTrans'[new] = NewTran(new)
        /\ \A s \in DOMAIN activeTrans \ {new} : activeTrans'[s] = activeTrans[s]
        /\ nextTransactionId' = new + 1
        /\ UNCHANGED <<wal, unlinked>>
    BY <1>6 DEF Begun, TakeId
  <2>2. new \notin DOMAIN activeTrans /\ new < nextTransactionId'
    BY <1>1, <2>1
  <2>3. /\ NewTran(new).operations = <<Record(new, "CREATE")>>
        /\ NewTran(new).isCommited = FALSE
    BY DEF NewTran
  <2>4. OwnRecords(<<Record(new, "CREATE")>>, new)
    BY DEF OwnRecords, Record
  <2> HIDE DEF new
  <2>5. \A t \in DOMAIN activeTrans' : t < nextTransactionId' /\ OwnRecords(ops(t)', t)
    BY <1>1, <1>3, <2>1, <2>2, <2>3, <2>4
  <2>6. \A t \in DOMAIN activeTrans : activeTrans'[t] = activeTrans[t]
    BY <2>1, <2>2
  <2>7. ~activeTrans'[new].isCommited
    BY <2>1, <2>3
  <2>8. QED
    BY <2>1, <2>5, <2>6, <2>7 DEF LogInv
<1>7. ASSUME NEW t \in Open, NEW k \in Keys, NEW v \in Payload, Recorded(t, k, v)
      PROVE  LogInv'
  <2>1. /\ t \in DOMAIN activeTrans /\ ~activeTrans[t].isCommited
        /\ DOMAIN activeTrans' = DOMAIN activeTrans
        /\ \A s \in DOMAIN activeTrans \ {t} : activeTrans'[s] = activeTrans[s]
        /\ ~activeTrans'[t].isCommited
        /\ UNCHANGED <<wal, unlinked>>
    BY <1>7 DEF Open, Recorded, OnlyOneChanges
  <2>2. OwnRecords(ops(t)', t)
    <3>1. PICK op \in {"PUT", "DELETE"} : ops(t)' = Append(ops(t), WriteRecord(t, op, k, v))
      BY <1>7 DEF Recorded
    <3>2. /\ WriteRecord(t, op, k, v) \in WalRecords
          /\ WriteRecord(t, op, k, v).tranc_id = t
          /\ WriteRecord(t, op, k, v).op # "CREATE"
      BY <1>1, <2>1, RecordTypes DEF WriteRecord
    <3>3. QED
      BY <1>1, <2>1, <3>1, <3>2, OwnRecordsAppend
  <2>3. \A s \in DOMAIN activeTrans' : s < nextTransactionId' /\ OwnRecords(ops(s)', s)
    BY <1>1, <1>3, <2>1, <2>2
  <2>4. \A i \in DOMAIN wal : wal[i].tranc_id # t
    BY OpenUnlogged
  <2>5. \A i \in DOMAIN wal :
           wal[i].tranc_id \in DOMAIN activeTrans' /\ activeTrans'[wal[i].tranc_id].isCommited
    BY <2>1, <2>4 DEF LogInv
  <2>6. \A s \in DOMAIN activeTrans' :
           activeTrans'[s].isCommited =>
              unlinked' \/ \E b \in Nat : Block(wal', activeTrans'[s].operations, s, b)
    BY <2>1 DEF LogInv
  <2>7. QED
    BY <2>1, <2>3, <2>5, <2>6 DEF LogInv
<1>8. ASSUME NEW t \in Open, Committed(t) PROVE LogInv'
  <2> DEFINE all == Append(ops(t), Record(t, "COMMIT"))
  <2>1. /\ t \in DOMAIN activeTrans
        /\ DOMAIN activeTrans' = DOMAIN activeTrans
        /\ \A s \in DOMAIN activeTrans \ {t} : activeTrans'[s] = activeTrans[s]
        /\ activeTrans'[t].isCommited
        /\ ops(t)' = all
        /\ wal' = IF unlinked THEN wal ELSE wal \o all
        /\ UNCHANGED unlinked
    BY <1>8 DEF Open, Committed, OnlyOneChanges
  <2>2. OwnRecords(all, t) /\ all \in Seq(WalRecords)
    <3>1. /\ Record(t, "COMMIT") \in WalRecords
          /\ Record(t, "COMMIT").tranc_id = t
          /\ Record(t, "COMMIT").op # "CREATE"
      BY <1>1, <2>1 DEF Record, WalRecords, MarkRecords
    <3>2. QED
      BY <1>1, <2>1, <3>1, OwnRecordsAppend
  <2>3. \A s \in DOMAIN activeTrans' : s < nextTransactionId' /\ OwnRecords(ops(s)', s)
    BY <1>1, <1>3, <2>1, <2>2
  <2>4. \A i \in DOMAIN wal : wal[i].tranc_id # t
    BY OpenUnlogged
  <2>5. CASE unlinked
    <3>1. wal = <<>> /\ wal' = <<>> /\ unlinked'
      BY <2>1, <2>5 DEF LogInv
    <3>2. QED
      BY <2>3, <3>1 DEF LogInv
  <2>6. CASE ~unlinked
    <3> HIDE DEF all
    <3>1. wal' = wal \o all /\ ~unlinked'
      BY <2>1, <2>6
    <3>2. \A i \in DOMAIN wal' :
             \/ i \in DOMAIN wal /\ wal'[i] = wal[i]
             \/ wal'[i].tranc_id = t
      <4>1. /\ Len(wal) \in Nat /\ Len(all) \in Nat /\ DOMAIN wal = 1..Len(wal)
            /\ DOMAIN all = 1..Len(all) /\ DOMAIN wal' = 1..(Len(wal) + Len(all))
            /\ \A i \in 1..(Len(wal) + Len(all)) :
                  wal'[i] = IF i <= Len(wal) THEN wal[i] ELSE all[i - Len(wal)]
        BY <1>1, <2>2, <3>1, ConcatProperties
      <4>2. \A i \in 1..(Len(wal) + Len(all)) :
               i \in 1..Len(wal) \/ (~(i <= Len(wal)) /\ i - Len(wal) \in 1..Len(all))
        BY <4>1
      <4>3. QED
        BY <2>2, <4>1, <4>2 DEF OwnRecords
    <3>3. \A i \in DOMAIN wal' :
             wal'[i].tranc_id \in DOMAIN activeTrans' /\ activeTrans'[wal'[i].tranc_id].isCommited
      BY <2>1, <2>4, <3>2 DEF LogInv
    <3>4. ASSUME NEW s \in DOMAIN activeTrans', activeTrans'[s].isCommited
          PROVE  \E b \in Nat : Block(wal', activeTrans'[s].operations, s, b)
      <4>1. CASE s = t
        <5>1. Block(wal \o all, all, t, Len(wal)) /\ Len(wal) \in Nat
          BY <1>1, <2>2, <2>4, BlockAppended
        <5>2. QED
          BY <2>1, <3>1, <4>1, <5>1
      <4>2. CASE s # t
        <5>1. s \in DOMAIN activeTrans /\ activeTrans'[s] = activeTrans[s]
          BY <2>1, <4>2
        <5>2. PICK b \in Nat : Block(wal, ops(s), s, b)
          BY <2>6, <3>4, <5>1 DEF LogInv
        <5>3. \A j \in DOMAIN all : all[j].tranc_id # s
          BY <2>2, <4>2 DEF OwnRecords
        <5>4. Block(wal \o all, ops(s), s, b)
          BY <1>1, <2>2, <5>1, <5>2, <5>3, BlockStays
        <5>5. QED
          BY <3>1, <5>1, <5>4
      <4>3. QED
        BY <4>1, <4>2
    <3>5. QED
      BY <2>3, <3>1, <3>3, <3>4 DEF LogInv
  <2>7. QED
    BY <2>5, <2>6
<1>9. QED
  BY <1>4, <1>5, <1>6, <1>7, <1>8 DEF TranShape

LEMMA LogStep ==
    ASSUME TypeOK, LogInv, [Next \/ Clear]_vars
    PROVE  LogInv'
<1>1. TranShape
  BY TranSteps DEF TranShape
<1>2. QED
  BY <1>1, IdGrows, LogKept

\* A block that begins with the CREATE record and has no other is what WalWhole asks for.
LEMMA LogGivesWhole == TypeOK /\ LogInv => WalWhole
<1> SUFFICES ASSUME TypeOK, LogInv, NEW i \in DOMAIN wal
             PROVE  LET t == wal[i].tranc_id
                    IN  /\ t \in DOMAIN activeTrans
                        /\ activeTrans[t].isCommited
                        /\ wal[i].op = "CREATE" => LoggedFrom(i, t)
                        /\ \E j \in 1..i : wal[j] = Record(t, "CREATE")
  BY DEF WalWhole
<1> DEFINE t   == wal[i].tranc_id
           ops == activeTrans[t].operations
<1>1. t \in DOMAIN activeTrans /\ activeTrans[t].isCommited
  BY DEF LogInv
<1>2. /\ wal \in Seq(WalRecords) /\ ops \in Seq(WalRecords)
      /\ Len(wal) \in Nat /\ Len(ops) \in Nat /\ i \in Nat /\ ~unlinked
  BY <1>1 DEF TypeOK, IsTran, LogInv
<1>3. OwnRecords(ops, t)
  BY <1>1 DEF LogInv
<1>4. PICK b \in Nat : Block(wal, ops, t, b)
  BY <1>1, <1>2 DEF LogInv
<1>5. /\ b + Len(ops) <= Len(wal) /\ i \in (b + 1)..(b + Len(ops))
      /\ \A j \in 1..Len(ops) : wal[b + j] = ops[j]
  BY <1>4 DEF Block
<1> HIDE DEF ops
<1>6. i - b \in 1..Len(ops) /\ 1 \in 1..Len(ops) /\ b + (i - b) = i
  BY <1>2, <1>5
<1>7. wal[i] = ops[i - b] /\ wal[b + 1] = Record(t, "CREATE") /\ b + 1 \in 1..i
  BY <1>2, <1>3, <1>5, <1>6 DEF OwnRecords
<1>8. ASSUME wal[i].op = "CREATE" PROVE LoggedFrom(i, t)
  <2>1. i - b = 1
    BY <1>2, <1>3, <1>6, <1>7, <1>8 DEF OwnRecords
  <2>2. i = b + 1 /\ i + Len(ops) - 1 = b + Len(ops) /\ i + Len(ops) - 1 <= Len(wal)
    <3> DEFINE n == Len(ops)
               l == Len(wal)
    <3>1. i \in Nat /\ b \in Nat /\ n \in Nat /\ l \in Nat /\ b + n <= l
      BY <1>2, <1>5
    <3> HIDE DEF n, l
    <3>2. i = b + 1 /\ i + n - 1 = b + n /\ i + n - 1 <= l
      BY <2>1, <3>1
    <3>3. QED
      BY <3>2 DEF n, l
  <2>3. SubSeq(wal, i, i + Len(ops) - 1) = ops
    <3>1. /\ \A j \in i..(i + Len(ops) - 1) : wal[j] \in WalRecords
          /\ Len(SubSeq(wal, i, i + Len(ops) - 1)) = Len(ops)
          /\ \A j \in 1..Len(ops) : SubSeq(wal, i, i + Len(ops) - 1)[j] = wal[b + j]
          /\ SubSeq(wal, i, i + Len(ops) - 1) \in Seq(WalRecords)
      BY <1>2, <1>5, <2>2, SubSeqProperties
    <3>2. QED
      BY <1>2, <1>5, <3>1, SeqEqual
  <2>4. QED
    BY <2>2, <2>3 DEF LoggedFrom, ops
<1>9. QED
  BY <1>1, <1>7, <1>8

\* Under every level, with clear too, the log holds committed transactions only, each
\* in one piece: commit writes its records in one call of WAL::log, after the last of
\* them is there.
THEOREM LogHoldsWholes == SpecWithClear => []WalWhole
<1>1. Init => TypeOK /\ LogInv
  BY InitType, InitLog
<1>2. TypeOK /\ LogInv /\ [Next \/ Clear]_vars => TypeOK' /\ LogInv'
  BY TypeStep, LogStep
<1>3. QED
  BY <1>1, <1>2, LogGivesWhole, PTL DEF SpecWithClear

-----------------------------------------------------------------------------
(* The tables after a step *)

\* The tables in memory.
TablesIn(m) == {TablesOf(m)[i] : i \in DOMAIN TablesOf(m)}

LEMMA TablesInParts ==
    ASSUME NEW m \in MemTables
    PROVE  /\ m.current_table \in TablesIn(m)
           /\ \A i \in DOMAIN m.frozen_tables : m.frozen_tables[i] \in TablesIn(m)
           /\ \A T \in TablesIn(m) :
                 T = m.current_table \/ \E i \in DOMAIN m.frozen_tables : T = m.frozen_tables[i]
<1> DEFINE tables == TablesOf(m)
           frozen == m.frozen_tables
<1>1. /\ DOMAIN tables = 1..(Len(frozen) + 1)
      /\ DOMAIN frozen = 1..Len(frozen)
      /\ Len(frozen) \in Nat
      /\ tables[1] = m.current_table
      /\ \A i \in DOMAIN frozen : tables[i + 1] = frozen[i]
      /\ \A i \in DOMAIN tables :
            i # 1 => i - 1 \in DOMAIN frozen /\ tables[i] = frozen[i - 1]
  BY TablesOfType DEF MemTables
<1>2. \A T : T \in TablesIn(m) <=> \E i \in DOMAIN tables : T = tables[i]
  BY DEF TablesIn
<1> HIDE DEF tables, frozen
<1>3. m.current_table \in TablesIn(m)
  <2>1. 1 \in DOMAIN tables
    BY <1>1
  <2>2. QED
    BY <1>1, <1>2, <2>1
<1>4. ASSUME NEW i \in DOMAIN frozen PROVE frozen[i] \in TablesIn(m)
  <2>1. i + 1 \in DOMAIN tables /\ tables[i + 1] = frozen[i]
    BY <1>1
  <2>2. QED
    BY <1>2, <2>1
<1>5. ASSUME NEW T \in TablesIn(m)
      PROVE  T = m.current_table \/ \E i \in DOMAIN frozen : T = frozen[i]
  <2>1. PICK i \in DOMAIN tables : T = tables[i]
    BY <1>2
  <2>2. CASE i = 1
    BY <1>1, <2>1, <2>2
  <2>3. CASE i # 1
    BY <1>1, <2>1, <2>3
  <2>4. QED
    BY <2>2, <2>3
<1>6. QED
  BY <1>3, <1>4, <1>5 DEF frozen

\* A freeze adds the empty table.
LEMMA TablesAfterFreeze ==
    ASSUME NEW m \in MemTables
    PROVE  TablesIn(FrozenCurTable(m)) \subseteq TablesIn(m) \cup {{}}
<1> DEFINE f == FrozenCurTable(m)
<1>1. f \in MemTables /\ f.current_table = {} /\ f.frozen_tables = TablesOf(m)
  BY FrozenCurTableType DEF FrozenCurTable, TablesOf
<1> HIDE DEF f
<1>2. QED
  BY <1>1, TablesInParts DEF f, TablesIn

\* A put adds the current table with one more version.
LEMMA TablesAfterPut ==
    ASSUME NEW m \in MemTables, NEW k \in Keys, NEW v \in Payload, NEW t \in Nat
    PROVE  TablesIn(MemPut(m, k, v, t))
              \subseteq TablesIn(m) \cup {{}, TablePut(m.current_table, k, v, t)}
<1> DEFINE w == MemPut_(m, k, v, t)
<1>1. /\ w \in MemTables /\ w.current_table = TablePut(m.current_table, k, v, t)
      /\ w.frozen_tables = m.frozen_tables
  BY MemPut_Type DEF MemPut_, MemTables
<1>2. MemPut(m, k, v, t) \in {w, FrozenCurTable(w)}
  BY DEF MemPut
<1> HIDE DEF w
<1>3. TablesIn(w) \subseteq TablesIn(m) \cup {TablePut(m.current_table, k, v, t)}
  BY <1>1, TablesInParts
<1>4. QED
  BY <1>1, <1>2, <1>3, TablesAfterFreeze

\* A commit replaces the current table.
LEMMA TablesAfterCommit ==
    ASSUME NEW m \in MemTables, NEW D \in SUBSET Keys, IsFiniteSet(D),
           NEW map \in [D -> Payload], NEW t \in Nat
    PROVE  TablesIn(MemPutAll_(m, map, t))
              \subseteq TablesIn(m) \cup {MemPutAll_(m, map, t).current_table}
<1> DEFINE w == MemPutAll_(m, map, t)
<1>1. w \in MemTables /\ w.frozen_tables = m.frozen_tables
  BY MemPutAll_Type DEF MemPutAll_, MemTables
<1> HIDE DEF w
<1>2. QED
  BY <1>1, TablesInParts DEF w

\* flush_last moves a table out and adds none but the empty one.
LEMMA TablesAfterFlush ==
    ASSUME NEW m \in MemTables
    PROVE  /\ TablesIn(AfterFlush(m)) \subseteq TablesIn(m) \cup {{}}
           /\ ~NothingToFlush(m) => FlushedTable(m) \in TablesIn(m) \cup {{}}
<1>1. CASE NothingToFlush(m)
  BY <1>1 DEF AfterFlush
<1>2. CASE ~NothingToFlush(m)
  <2> DEFINE f == FreezeForFlush(m)
             n == Len(f.frozen_tables)
             w == AfterFlush(m)
  <2>1. /\ f \in MemTables
        /\ f.frozen_tables \in Seq(Table)
        /\ f.frozen_tables # <<>>
    BY <1>2, FreezeForFlushType DEF MemTables
  <2>2. TablesIn(f) \subseteq TablesIn(m) \cup {{}}
    BY TablesAfterFreeze DEF FreezeForFlush
  <2>3. w = [f EXCEPT !.frozen_tables = SubSeq(f.frozen_tables, 1, n - 1),
                      !.frozen_bytes  = f.frozen_bytes - TableSize(f.frozen_tables[n])]
    BY <1>2 DEF AfterFlush
  <2>4. w \in MemTables
    BY AfterFlushType
  <2>5. FlushedTable(m) = f.frozen_tables[n]
    BY DEF FlushedTable
  <2> HIDE DEF f, w
  <2>6. /\ w.current_table = f.current_table
        /\ w.frozen_tables = SubSeq(f.frozen_tables, 1, n - 1)
    BY <2>1, <2>3 DEF MemTables
  <2>7. \A i \in DOMAIN w.frozen_tables :
           i \in DOMAIN f.frozen_tables /\ w.frozen_tables[i] = f.frozen_tables[i]
    BY <2>1, <2>6
  <2>8. n \in DOMAIN f.frozen_tables
    BY <2>1
  <2>9. TablesIn(w) \subseteq TablesIn(f)
    BY <2>1, <2>4, <2>6, <2>7, TablesInParts
  <2>10. f.frozen_tables[n] \in TablesIn(f)
    BY <2>1, <2>8, TablesInParts
  <2>11. QED
    BY <2>2, <2>5, <2>9, <2>10 DEF w
<1>3. QED
  BY <1>1, <1>2

\* The tables after a flush of m, and after the end of a write that made m.
LEMMA AllAfterFlush ==
    ASSUME TypeOK, NEW m \in MemTables,
           \/ FlushFrom(m) \/ FlushIfFull(m)
           \/ memtable' = m /\ UNCHANGED <<level_sst_ids, ssts, next_sst_id>>
    PROVE  AllTables' \subseteq TablesIn(m) \cup SstTables \cup {{}}
<1>1. AllTables' = TablesIn(memtable') \cup SstTables'
  BY DEF AllTables, TablesIn, Tables
<1>2. CASE memtable' = m /\ UNCHANGED ssts
  <2>1. SstTables' = SstTables
    BY <1>2 DEF SstTables
  <2>2. QED
    BY <1>1, <1>2, <2>1
<1>3. CASE FlushFrom(m)
  <2> DEFINE file == IF NothingToFlush(m) THEN NullSst ELSE FlushedTable(m)
  <2>1. TablesIn(memtable') \subseteq TablesIn(m) \cup {{}}
    BY <1>3, TablesAfterFlush DEF FlushFrom
  <2>2. ssts' = [id \in DOMAIN ssts \cup {next_sst_id} |->
                    IF id # next_sst_id THEN ssts[id] ELSE file]
    BY <1>3 DEF FlushFrom
  <2>3. file \in TablesIn(m) \cup {{}, NullSst}
    BY TablesAfterFlush
  <2> HIDE DEF file
  <2>4. SstTables' \subseteq SstTables \cup ({file} \ {NullSst})
    BY <2>2 DEF SstTables
  <2>5. QED
    BY <1>1, <2>1, <2>3, <2>4
<1>4. QED
  BY <1>2, <1>3 DEF FlushIfFull

\* The ids in all tables have been given out, the one of a running batch to no
\* transaction, and no rollback runs.
IdInv ==
    /\ \A T \in AllTables : \A n \in T : n.tranc_id < nextTransactionId
    /\ todo.op = "batch" => /\ todo.tranc_id < nextTransactionId
                            /\ todo.tranc_id \notin DOMAIN activeTrans
    /\ todo.op # "rollback"

\* The current table after the commit of t.
AppliedTable(t) == MemPutAll_(memtable, activeTrans[t].temp_map, t).current_table

\* No table but a changed current one is new.
LEMMA TableSteps ==
    ASSUME WritesAside, TypeOK, LogInv, IdInv, [Next \/ Clear]_vars
    PROVE  /\ memtable.current_table \in AllTables
           /\ \/ AllTables' \subseteq AllTables \cup {{}} /\ ~\E t \in Open : CommitSucceeds(t)
              \/ \E k \in Keys, v \in Payload, t \in Nat :
                    /\ t \notin DOMAIN activeTrans /\ t < nextTransactionId'
                    /\ AllTables' \subseteq
                          AllTables \cup {{}, TablePut(memtable.current_table, k, v, t)}
                    /\ UNCHANGED <<activeTrans, wal, unlinked>>
              \/ \E t \in Open :
                    /\ CommitSucceeds(t) /\ Committed(t)
                    /\ AllTables' \subseteq AllTables \cup {AppliedTable(t)}
<1>0. memtable \in MemTables /\ nextTransactionId \in Nat
  BY DEF TypeOK, EngineTypeOK
<1>1. AllTables = TablesIn(memtable) \cup SstTables
  BY DEF AllTables, TablesIn, Tables
<1>2. memtable.current_table \in AllTables
  BY <1>0, <1>1, TablesInParts
<1>3. ASSUME NEW t \in Open, CommitSucceeds(t)
      PROVE  Committed(t) /\ AllTables' \subseteq AllTables \cup {AppliedTable(t)}
  <2> DEFINE map == activeTrans[t].temp_map
  <2>1. t \in Nat /\ IsTran(activeTrans[t])
    BY DEF Open, TypeOK
  <2>2. /\ DOMAIN map \in SUBSET Keys /\ IsFiniteSet(DOMAIN map)
        /\ map \in [DOMAIN map -> Payload]
    BY <2>1 DEF IsTran, IsMap
  <2>3. memtable' = MemPutAll_(memtable, map, t) /\ UNCHANGED ssts
    BY <1>3 DEF CommitSucceeds
  <2>4. AppliedTable(t) = MemPutAll_(memtable, map, t).current_table
    BY DEF AppliedTable
  <2> HIDE DEF map
  <2>5. TablesIn(memtable') \subseteq TablesIn(memtable) \cup {AppliedTable(t)}
    BY <1>0, <2>1, <2>2, <2>3, <2>4, TablesAfterCommit
  <2>6. AllTables' = TablesIn(memtable') \cup SstTables'
    BY DEF AllTables, TablesIn, Tables
  <2>7. SstTables' = SstTables
    BY <2>3 DEF SstTables
  <2>8. QED
    BY <1>1, <1>3, <2>5, <2>6, <2>7, CommitCommitted
<1>4. CASE \E t \in Open : CommitSucceeds(t)
  BY <1>2, <1>3, <1>4
<1>5. CASE DirectWrite
  <2>1. PICK k \in Keys, v \in Payload, t \in Nat :
          EngineWrite(k, v, t) /\ DirectId(t) /\ UNCHANGED <<activeTrans, wal, unlinked>>
    BY <1>5 DEF DirectWrite, IdInv
  <2>2. t \notin DOMAIN activeTrans /\ t < nextTransactionId'
    <3>1. CASE TakeId /\ t = nextTransactionId
      <4>1. nextTransactionId' = t + 1
        BY <3>1 DEF TakeId
      <4>2. \A s \in DOMAIN activeTrans : s < t
        BY <3>1 DEF LogInv
      <4>3. QED
        BY <1>0, <3>1, <4>1, <4>2
    <3>2. CASE UNCHANGED nextTransactionId /\ todo.op = "batch" /\ t = todo.tranc_id
      BY <3>2 DEF IdInv
    <3>3. QED
      BY <2>1, <3>1, <3>2 DEF DirectId
  <2> DEFINE m == MemPut(memtable, k, v, t)
  <2>3. m \in MemTables
    BY <1>0, MemPutType
  <2>4. AllTables' \subseteq TablesIn(m) \cup SstTables \cup {{}}
    <3>1. \/ FlushIfFull(m)
          \/ memtable' = m /\ UNCHANGED <<level_sst_ids, ssts, next_sst_id>>
      BY <2>1 DEF EngineWrite
    <3> HIDE DEF m
    <3>2. QED
      BY <2>3, <3>1, AllAfterFlush
  <2>5. TablesIn(m) \subseteq
           TablesIn(memtable) \cup {{}, TablePut(memtable.current_table, k, v, t)}
    BY <1>0, TablesAfterPut
  <2>6. AllTables' \subseteq AllTables \cup {{}, TablePut(memtable.current_table, k, v, t)}
    BY <1>1, <2>4, <2>5
  <2> HIDE DEF m
  <2>7. QED
    BY <1>2, <2>1, <2>2, <2>6
<1>6. CASE (UNCHANGED <<memtable, ssts>> \/ EngineFlush) /\ ~\E t \in Open : CommitSucceeds(t)
  <2>1. CASE UNCHANGED <<memtable, ssts>>
    <3>1. AllTables' = AllTables
      BY <2>1 DEF AllTables, Tables, SstTables
    <3>2. QED
      BY <1>2, <1>6, <3>1
  <2>2. CASE EngineFlush
    <3>1. AllTables' \subseteq TablesIn(memtable) \cup SstTables \cup {{}}
      BY <1>0, <2>2, AllAfterFlush DEF EngineFlush
    <3>2. QED
      BY <1>1, <1>2, <1>6, <3>1
  <2>3. QED
    BY <1>6, <2>1, <2>2
<1>7. CASE Clear /\ ~\E t \in Open : CommitSucceeds(t)
  <2>1. /\ memtable'.current_table = {} /\ memtable'.frozen_tables = <<>>
        /\ ssts' = [id \in {} |-> NullSst]
        /\ memtable' = AfterClear(memtable)
    BY <1>7 DEF Clear, EngineClear, AfterClear
  <2>2. memtable' \in MemTables
    BY <1>0, <2>1, AfterClearType
  <2>3. TablesIn(memtable') \subseteq {{}}
    BY <2>1, <2>2, TablesInParts
  <2>4. AllTables' = TablesIn(memtable') \cup SstTables'
    BY DEF AllTables, TablesIn, Tables
  <2>5. SstTables' = {}
    BY <2>1 DEF SstTables
  <2>6. QED
    BY <1>2, <1>7, <2>3, <2>4, <2>5
<1>8. CASE UNCHANGED vars /\ ~\E t \in Open : CommitSucceeds(t)
  BY <1>6, <1>8 DEF vars, engineVars
<1>9. QED
  BY <1>4, <1>5, <1>6, <1>7, <1>8, EngineSteps DEF engineVars

\* No step brings an id into a table that has not been given out.
LEMMA IdStep ==
    ASSUME WritesAside, TypeOK, LogInv, IdInv, [Next \/ Clear]_vars
    PROVE  IdInv'
<1>0. /\ nextTransactionId \in Nat
      /\ \A T \in AllTables : \A n \in T : n.tranc_id \in Nat /\ n.tranc_id < nextTransactionId
      /\ \A t \in DOMAIN activeTrans : t \in Nat /\ t < nextTransactionId
  <2>1. \A T \in AllTables : T \in Table
    <3>1. \A i \in DOMAIN Tables : Tables[i] \in Table
      BY TablesOfType DEF Tables, TypeOK, EngineTypeOK
    <3>2. SstTables \subseteq Table
      BY DEF SstTables, TypeOK, EngineTypeOK
    <3>3. QED
      BY <3>1, <3>2 DEF AllTables
  <2>2. \A T \in AllTables : \A n \in T : n.tranc_id \in Nat
    BY <2>1 DEF Table, Version
  <2>3. QED
    BY <2>2 DEF IdInv, LogInv, TypeOK
<1>1. nextTransactionId' = nextTransactionId \/ nextTransactionId' = nextTransactionId + 1
  BY IdGrows DEF TakeId
<1>2. \A n \in Nat : n < nextTransactionId => n < nextTransactionId'
  BY <1>0, <1>1
<1>3. \A T \in AllTables' : \A n \in T : n.tranc_id < nextTransactionId'
  <2>1. CASE AllTables' \subseteq AllTables \cup {{}}
    BY <1>0, <1>2, <2>1
  <2>2. ASSUME NEW k \in Keys, NEW v \in Payload, NEW t \in Nat, t < nextTransactionId',
               AllTables' \subseteq AllTables \cup {{}, TablePut(memtable.current_table, k, v, t)},
               memtable.current_table \in AllTables
        PROVE  \A T \in AllTables' : \A n \in T : n.tranc_id < nextTransactionId'
    <3>1. \A n \in TablePut(memtable.current_table, k, v, t) :
             n \in memtable.current_table \/ n.tranc_id = t
      BY DEF TablePut, Node
    <3>2. QED
      BY <1>0, <1>2, <2>2, <3>1
  <2>3. ASSUME NEW t \in Open, AllTables' \subseteq AllTables \cup {AppliedTable(t)},
               memtable.current_table \in AllTables
        PROVE  \A T \in AllTables' : \A n \in T : n.tranc_id < nextTransactionId'
    <3>1. \A n \in AppliedTable(t) : n \in memtable.current_table \/ n.tranc_id = t
      <4>1. memtable \in MemTables
        BY DEF TypeOK, EngineTypeOK
      <4>2. QED
        BY <4>1 DEF AppliedTable, MemPutAll_, Node, MemTables
    <3>2. t \in DOMAIN activeTrans
      BY DEF Open
    <3>3. QED
      BY <1>0, <1>2, <2>3, <3>1, <3>2
  <2>4. QED
    BY <2>1, <2>2, <2>3, TableSteps
<1>4. /\ todo'.op = "batch" => /\ todo'.tranc_id < nextTransactionId'
                               /\ todo'.tranc_id \notin DOMAIN activeTrans'
      /\ todo'.op # "rollback"
  <2>1. CASE UNCHANGED <<todo, activeTrans>> \/ todo' \in {Idle, [op |-> "flush_all"]}
    <3>1. todo.op = "batch" => todo.tranc_id \in Nat
      BY BatchHead
    <3>2. QED
      BY <1>2, <2>1, <3>1 DEF IdInv, Idle
  <2>2. ASSUME NEW kvs \in Batches, StartBatch(kvs)
        PROVE  /\ todo'.op = "batch" /\ todo'.tranc_id < nextTransactionId'
               /\ todo'.tranc_id \notin DOMAIN activeTrans'
    <3>1. /\ todo' = [op |-> "batch", kvs |-> kvs, tranc_id |-> nextTransactionId]
          /\ nextTransactionId' = nextTransactionId + 1 /\ UNCHANGED activeTrans
      BY <2>2 DEF StartBatch, TakeId
    <3>2. QED
      BY <1>0, <3>1
  <2>3. CASE BatchTurn
    <3>1. /\ todo.op = "batch" /\ UNCHANGED <<nextTransactionId, activeTrans>>
          /\ todo' = Idle \/ todo' = [todo EXCEPT !.kvs = Tail(todo.kvs)]
      BY <2>3 DEF BatchTurn, tranVars
    <3>2. todo \in [op : {"batch"}, kvs : Seq(Keys \X Payload) \ {<<>>}, tranc_id : Nat]
      BY <3>1 DEF TypeOK, TodoTypeOK, Idle
    <3>3. todo' = Idle \/ (todo'.op = "batch" /\ todo'.tranc_id = todo.tranc_id)
      BY <3>1, <3>2
    <3>4. QED
      BY <3>1, <3>3 DEF IdInv, Idle
  <2>4. CASE Get \/ Flush \/ StartFlushAll \/ FlushAllTurn \/ EndFlushAll \/ Clear
    BY <2>1, <2>4 DEF Get, Flush, StartFlushAll, FlushAllTurn, FlushLoopTurn, EndFlushAll,
                      Clear, tranVars
  <2>5. CASE \E k \in Keys, v \in Payload : Put(k, v)
    BY <2>1, <2>5 DEF Put
  <2>6. CASE TranCall
    <3>1. CASE todo = Idle /\ todo' = todo
      BY <2>1, <3>1
    <3>2. todo = Idle /\ todo' = todo
      <4>1. ~RollbackTurn /\ ~EndRollback
        BY DEF RollbackTurn, EndRollback, IdInv
      <4>2. QED
        BY <2>6, <4>1 DEF TranCall, BeginTran, TranWrite, TranGet, Commit, CommitSucceeds,
                          CommitFails, Abort, WritesAside
    <3>3. QED
      BY <3>1, <3>2
  <2>7. CASE UNCHANGED vars
    BY <2>1, <2>7 DEF vars, tranVars
  <2>8. QED
    BY <2>2, <2>3, <2>4, <2>5, <2>6, <2>7 DEF Next, DirectCall
<1>5. QED
  BY <1>3, <1>4 DEF IdInv

-----------------------------------------------------------------------------
(* Atomicity *)

\* The writes of a transaction, as its commit applies them.
WritesOfTran(t) ==
    {Node(k, activeTrans[t].temp_map[k], t) : k \in DOMAIN activeTrans[t].temp_map}

\* A put under another id leaves the writes of a transaction alone.
LEMMA PutLeavesOthers ==
    ASSUME NEW T, NEW k, NEW v, NEW t, NEW s, s # t
    PROVE  WritesOf(TablePut(T, k, v, t), s) = WritesOf(T, s)
BY DEF WritesOf, TablePut, Node

\* A commit leaves the writes of the others alone; of its own there are those of
\* temp_map, if there were none before.
LEMMA CommitLeavesOthers ==
    ASSUME TypeOK, NEW t \in DOMAIN activeTrans
    PROVE  /\ \A s : s # t => WritesOf(AppliedTable(t), s) = WritesOf(memtable.current_table, s)
           /\ WritesOf(memtable.current_table, t) = {}
                 => WritesOf(AppliedTable(t), t) = WritesOfTran(t)
<1> DEFINE map == activeTrans[t].temp_map
           T   == memtable.current_table
<1>1. AppliedTable(t) = {n \in T : ~(n.key \in DOMAIN map /\ n.tranc_id = t)} \cup WritesOfTran(t)
  <2>1. memtable \in MemTables
    BY DEF TypeOK, EngineTypeOK
  <2>2. QED
    BY <2>1 DEF AppliedTable, MemPutAll_, MemTables, WritesOfTran
<1>2. \A n \in WritesOfTran(t) : n.tranc_id = t
  BY DEF WritesOfTran, Node
<1> HIDE DEF map, T
<1>3. \A s : s # t => WritesOf(AppliedTable(t), s) = WritesOf(T, s)
  BY <1>1, <1>2 DEF WritesOf
<1>4. WritesOf(T, t) = {} => WritesOf(AppliedTable(t), t) = WritesOfTran(t)
  BY <1>1, <1>2 DEF WritesOf
<1>5. QED
  BY <1>3, <1>4 DEF T

LEMMA AtomicityStep ==
    ASSUME WritesAside, TypeOK, LogInv, IdInv, Atomicity, [Next \/ Clear]_vars
    PROVE  Atomicity'
<1>1. SUFFICES ASSUME NEW s \in DOMAIN activeTrans', NEW T \in AllTables',
                      WritesOf(T, s) # {}
               PROVE  activeTrans'[s].isCommited /\ WritesOf(T, s) = WritesOfTran(s)'
  BY DEF Atomicity, WritesOfTran
<1>2. \A t \in DOMAIN activeTrans : \A U \in AllTables :
         WritesOf(U, t) # {} => activeTrans[t].isCommited /\ WritesOf(U, t) = WritesOfTran(t)
  BY DEF Atomicity, WritesOfTran
<1>3. \A U, t : U = {} => WritesOf(U, t) = {}
  BY DEF WritesOf
<1>4. CASE \E k \in Keys, v \in Payload, t \in Nat :
              /\ t \notin DOMAIN activeTrans
              /\ memtable.current_table \in AllTables
              /\ AllTables' \subseteq
                    AllTables \cup {{}, TablePut(memtable.current_table, k, v, t)}
              /\ UNCHANGED activeTrans
  <2>1. PICK k \in Keys, v \in Payload, t \in Nat :
              /\ t \notin DOMAIN activeTrans
              /\ memtable.current_table \in AllTables
              /\ AllTables' \subseteq
                    AllTables \cup {{}, TablePut(memtable.current_table, k, v, t)}
              /\ UNCHANGED activeTrans
    BY <1>4
  <2>2. s \in DOMAIN activeTrans /\ s # t
    BY <1>1, <2>1
  <2>3. \E U \in AllTables : WritesOf(T, s) = WritesOf(U, s)
    BY <1>1, <1>3, <2>1, <2>2, PutLeavesOthers
  <2>4. WritesOfTran(s)' = WritesOfTran(s)
    BY <2>1 DEF WritesOfTran
  <2>5. QED
    BY <1>1, <1>2, <2>1, <2>2, <2>3, <2>4
<1>5. ASSUME NEW t \in Open, Committed(t), memtable.current_table \in AllTables,
             AllTables' \subseteq AllTables \cup {AppliedTable(t)}
      PROVE  activeTrans'[s].isCommited /\ WritesOf(T, s) = WritesOfTran(s)'
  <2>1. /\ t \in DOMAIN activeTrans /\ ~activeTrans[t].isCommited
        /\ DOMAIN activeTrans' = DOMAIN activeTrans
        /\ \A u \in DOMAIN activeTrans \ {t} : activeTrans'[u] = activeTrans[u]
        /\ activeTrans'[t].temp_map = activeTrans[t].temp_map
        /\ activeTrans'[t].isCommited
    BY <1>5 DEF Open, Committed, OnlyOneChanges
  <2>2. \A u \in DOMAIN activeTrans : WritesOfTran(u)' = WritesOfTran(u)
    BY <2>1 DEF WritesOfTran
  <2>3. \A U \in AllTables : WritesOf(U, t) = {}
    BY <1>2, <2>1
  <2>4. CASE s = t
    <3>1. WritesOf(AppliedTable(t), t) = WritesOfTran(t)
      BY <1>5, <2>1, <2>3, CommitLeavesOthers
    <3>2. T = AppliedTable(t)
      BY <1>1, <1>5, <2>3, <2>4
    <3>3. QED
      BY <2>1, <2>2, <2>4, <3>1, <3>2
  <2>5. CASE s # t
    <3>1. WritesOf(AppliedTable(t), s) = WritesOf(memtable.current_table, s)
      BY <2>1, <2>5, CommitLeavesOthers
    <3>2. \E U \in AllTables : WritesOf(T, s) = WritesOf(U, s)
      BY <1>5, <3>1
    <3>3. s \in DOMAIN activeTrans /\ activeTrans'[s] = activeTrans[s]
      BY <2>1, <2>5
    <3>4. QED
      BY <1>1, <1>2, <2>2, <3>2, <3>3
  <2>6. QED
    BY <2>4, <2>5
<1>6. CASE AllTables' \subseteq AllTables \cup {{}} /\ ~\E t \in Open : CommitSucceeds(t)
  <2>1. T \in AllTables
    BY <1>1, <1>3, <1>6
  <2>2. CASE SameTrans
    <3>1. s \in DOMAIN activeTrans /\ WritesOfTran(s)' = WritesOfTran(s)
      BY <2>2 DEF SameTrans, WritesOfTran
    <3>2. QED
      BY <1>1, <1>2, <2>1, <2>2, <3>1 DEF SameTrans
  <2>3. CASE Begun
    <3>1. s # nextTransactionId
      <4>1. \E n \in T : n.tranc_id = s
        BY <1>1 DEF WritesOf
      <4>2. \A n \in T : n.tranc_id < nextTransactionId
        BY <2>1 DEF IdInv
      <4>3. nextTransactionId \in Nat
        BY DEF TypeOK
      <4>4. QED
        BY <4>1, <4>2, <4>3
    <3>2. s \in DOMAIN activeTrans /\ activeTrans'[s] = activeTrans[s]
      BY <2>3, <3>1 DEF Begun
    <3>3. QED
      BY <1>1, <1>2, <2>1, <3>2 DEF WritesOfTran
  <2>4. CASE \E t \in Open, k \in Keys, v \in Payload : Recorded(t, k, v)
    <3>1. PICK t \in Open, k \in Keys, v \in Payload : Recorded(t, k, v)
      BY <2>4
    <3>2. s \in DOMAIN activeTrans /\ s # t
      BY <1>1, <1>2, <2>1, <3>1 DEF Recorded, OnlyOneChanges, Open
    <3>3. activeTrans'[s] = activeTrans[s]
      BY <3>1, <3>2 DEF Recorded, OnlyOneChanges
    <3>4. QED
      BY <1>1, <1>2, <2>1, <3>2, <3>3 DEF WritesOfTran
  <2>5. QED
    BY <1>6, <2>2, <2>3, <2>4, TranSteps
<1>7. QED
  BY <1>4, <1>5, <1>6, TableSteps

LEMMA InitAtomic == Init => IdInv /\ Atomicity
<1> SUFFICES ASSUME Init PROVE IdInv /\ Atomicity
  OBVIOUS
<1>1. DOMAIN activeTrans = {} /\ todo.op = "idle"
  BY DEF Init, Idle
<1>2. SstTables = {}
  BY DEF Init, EngineInit, SstTables
<1>3. TablesIn(memtable) \subseteq {{}}
  <2>1. memtable \in MemTables
    BY InitType DEF TypeOK, EngineTypeOK
  <2>2. memtable.current_table = {} /\ memtable.frozen_tables = <<>>
    BY DEF Init, EngineInit, NewMemTable
  <2>3. DOMAIN memtable.frozen_tables = {}
    BY <2>2
  <2>4. QED
    BY <2>1, <2>2, <2>3, TablesInParts
<1>4. AllTables \subseteq {{}}
  BY <1>2, <1>3 DEF AllTables, TablesIn, Tables
<1>5. QED
  BY <1>1, <1>4 DEF IdInv, Atomicity

\* The inductive invariant behind Atomicity.
AtomInv == TypeOK /\ LogInv /\ IdInv /\ Atomicity

LEMMA InitAtomInv == Init => AtomInv
BY InitType, InitLog, InitAtomic DEF AtomInv

LEMMA AtomStep ==
    ASSUME WritesAside, AtomInv, [Next \/ Clear]_vars
    PROVE  AtomInv'
<1>1. TypeOK'
  BY TypeStep DEF AtomInv
<1>2. LogInv'
  BY LogStep DEF AtomInv
<1>3. IdInv'
  BY IdStep DEF AtomInv
<1>4. Atomicity'
  BY AtomicityStep DEF AtomInv
<1>5. QED
  BY <1>1, <1>2, <1>3, <1>4 DEF AtomInv

\* Under every level but READ_UNCOMMITTED, whatever other calls freeze, flush or clear:
\* every table in memory or on disk has all the writes of a transaction or none, and
\* only those of committed ones.
THEOREM AllOrNothing == WritesAside => (SpecWithClear => []Atomicity)
<1> SUFFICES ASSUME WritesAside PROVE SpecWithClear => []Atomicity
  OBVIOUS
<1>1. AtomInv /\ [Next \/ Clear]_vars => AtomInv'
  BY AtomStep
<1>2. AtomInv => Atomicity
  BY DEF AtomInv
<1>3. QED
  BY <1>1, <1>2, InitAtomInv, PTL DEF SpecWithClear

-----------------------------------------------------------------------------
(* The log is ahead of the tables *)

WritesKey(r, k) == r.op \in {"PUT", "DELETE"} /\ r.key = k

\* The records of a transaction write the keys of its map, the last one of each key the
\* value in the map.
Matches(ops, map) ==
    /\ \A k \in DOMAIN map : \E j \in DOMAIN ops :
          /\ WritesKey(ops[j], k) /\ ops[j].value = map[k]
          /\ \A i \in DOMAIN ops : WritesKey(ops[i], k) => i <= j
    /\ \A j \in DOMAIN ops : \A k \in Keys : WritesKey(ops[j], k) => k \in DOMAIN map

RecordsInv ==
    \A t \in DOMAIN activeTrans : Matches(activeTrans[t].operations, activeTrans[t].temp_map)

\* One more write, in the records and in the map.
LEMMA MatchesWrite ==
    ASSUME NEW ops \in Seq(WalRecords), NEW map, Matches(ops, map),
           NEW t \in Nat, NEW op \in {"PUT", "DELETE"}, NEW k \in Keys, NEW v \in Payload
    PROVE  Matches(Append(ops, WriteRecord(t, op, k, v)), Bind(map, k, v))
<1> DEFINE r   == WriteRecord(t, op, k, v)
           all == Append(ops, r)
           new == Bind(map, k, v)
<1>1. /\ Len(all) = Len(ops) + 1 /\ Len(ops) \in Nat
      /\ DOMAIN all = 1..Len(all) /\ DOMAIN ops = 1..Len(ops)
      /\ \A i \in 1..Len(ops) : all[i] = ops[i]
      /\ all[Len(ops) + 1] = r
  OBVIOUS
<1>2. /\ r.value = v /\ WritesKey(r, k) /\ \A j : j # k => ~WritesKey(r, j)
  BY DEF WritesKey, WriteRecord
<1>3. /\ DOMAIN new = DOMAIN map \cup {k} /\ new[k] = v
      /\ \A j \in DOMAIN map : j # k => new[j] = map[j]
  BY DEF Bind
<1> HIDE DEF r, all, new
<1>4. /\ \A i \in DOMAIN all : i \in DOMAIN ops \/ i = Len(ops) + 1
      /\ \A i \in DOMAIN all : i <= Len(ops) + 1
      /\ \A i \in DOMAIN ops : i \in DOMAIN all
      /\ Len(ops) + 1 \in DOMAIN all
  BY <1>1
<1>5. ASSUME NEW j \in DOMAIN new
      PROVE  \E p \in DOMAIN all : /\ WritesKey(all[p], j) /\ all[p].value = new[j]
                                   /\ \A i \in DOMAIN all : WritesKey(all[i], j) => i <= p
  <2>1. CASE j = k
    BY <1>1, <1>2, <1>3, <1>4, <2>1
  <2>2. CASE j # k
    <3>1. j \in DOMAIN map /\ new[j] = map[j]
      BY <1>3, <1>5, <2>2
    <3>2. PICK p \in DOMAIN ops : /\ WritesKey(ops[p], j) /\ ops[p].value = map[j]
                                  /\ \A i \in DOMAIN ops : WritesKey(ops[i], j) => i <= p
      BY <3>1 DEF Matches
    <3>3. p \in DOMAIN all /\ WritesKey(all[p], j) /\ all[p].value = new[j]
      BY <1>1, <1>4, <3>1, <3>2
    <3>4. \A i \in DOMAIN all : WritesKey(all[i], j) => i <= p
      BY <1>1, <1>2, <1>4, <2>2, <3>2
    <3>5. QED
      BY <3>3, <3>4
  <2>3. QED
    BY <2>1, <2>2
<1>6. ASSUME NEW p \in DOMAIN all, NEW j \in Keys, WritesKey(all[p], j) PROVE j \in DOMAIN new
  BY <1>1, <1>2, <1>3, <1>4, <1>6 DEF Matches
<1>7. QED
  BY <1>5, <1>6 DEF Matches, all, new, r

\* The COMMIT record writes nothing.
LEMMA MatchesMark ==
    ASSUME NEW ops \in Seq(WalRecords), NEW map, Matches(ops, map), NEW t
    PROVE  Matches(Append(ops, Record(t, "COMMIT")), map)
<1> DEFINE r   == Record(t, "COMMIT")
           all == Append(ops, r)
<1>1. /\ Len(all) = Len(ops) + 1 /\ Len(ops) \in Nat
      /\ DOMAIN all = 1..Len(all) /\ DOMAIN ops = 1..Len(ops)
      /\ \A i \in 1..Len(ops) : all[i] = ops[i]
      /\ all[Len(ops) + 1] = r
  OBVIOUS
<1>2. \A j : ~WritesKey(r, j)
  BY DEF WritesKey, Record
<1> HIDE DEF r, all
<1>3. /\ \A i \in DOMAIN all : i \in DOMAIN ops \/ i = Len(ops) + 1
      /\ \A i \in DOMAIN ops : i \in DOMAIN all /\ all[i] = ops[i]
  BY <1>1
<1>4. \A i \in DOMAIN all : \A j : WritesKey(all[i], j) => i \in DOMAIN ops /\ all[i] = ops[i]
  BY <1>1, <1>2, <1>3
<1>5. QED
  BY <1>3, <1>4 DEF Matches, all, r

LEMMA MatchesNew ==
    ASSUME NEW t
    PROVE  Matches(NewTran(t).operations, NewTran(t).temp_map)
<1>1. /\ NewTran(t).operations = <<Record(t, "CREATE")>>
      /\ DOMAIN NewTran(t).temp_map = {}
  BY DEF NewTran
<1>2. \A j \in DOMAIN <<Record(t, "CREATE")>> : \A k : ~WritesKey(<<Record(t, "CREATE")>>[j], k)
  BY DEF WritesKey, Record
<1>3. QED
  BY <1>1, <1>2 DEF Matches

LEMMA RecordsKept ==
    ASSUME WritesAside, TypeOK, RecordsInv, TranShape
    PROVE  RecordsInv'
<1>0. \A t \in DOMAIN activeTrans : t \in Nat /\ activeTrans[t].operations \in Seq(WalRecords)
  BY DEF TypeOK, IsTran
<1>1. CASE SameTrans
  BY <1>1 DEF SameTrans, RecordsInv
<1>2. CASE Begun
  BY <1>2, MatchesNew DEF Begun, RecordsInv
<1>3. ASSUME NEW t \in Open, NEW k \in Keys, NEW v \in Payload, Recorded(t, k, v)
      PROVE  RecordsInv'
  <2>1. PICK op \in {"PUT", "DELETE"} :
           activeTrans'[t].operations
              = Append(activeTrans[t].operations, WriteRecord(t, op, k, v))
    BY <1>3 DEF Recorded
  <2>2. activeTrans'[t].temp_map = Bind(activeTrans[t].temp_map, k, v)
    BY <1>3 DEF Recorded
  <2>3. t \in DOMAIN activeTrans
    BY DEF Open
  <2>4. Matches(activeTrans'[t].operations, activeTrans'[t].temp_map)
    BY <1>0, <2>1, <2>2, <2>3, MatchesWrite DEF RecordsInv
  <2>5. QED
    BY <1>3, <2>4 DEF Recorded, OnlyOneChanges, RecordsInv
<1>4. ASSUME NEW t \in Open, Committed(t) PROVE RecordsInv'
  <2>1. /\ activeTrans'[t].operations = Append(activeTrans[t].operations, Record(t, "COMMIT"))
        /\ activeTrans'[t].temp_map = activeTrans[t].temp_map
    BY <1>4 DEF Committed
  <2>2. t \in DOMAIN activeTrans
    BY DEF Open
  <2>3. Matches(activeTrans'[t].operations, activeTrans'[t].temp_map)
    BY <1>0, <2>1, <2>2, MatchesMark DEF RecordsInv
  <2>4. QED
    BY <1>4, <2>3 DEF Committed, OnlyOneChanges, RecordsInv
<1>5. QED
  BY <1>1, <1>2, <1>3, <1>4 DEF TranShape

LEMMA RecordsStep ==
    ASSUME WritesAside, TypeOK, RecordsInv, [Next \/ Clear]_vars
    PROVE  RecordsInv'
<1>1. TranShape
  BY TranSteps DEF TranShape
<1>2. QED
  BY <1>1, RecordsKept

LEMMA GivesWriteAhead == AtomInv /\ RecordsInv /\ ~unlinked => WriteAhead
<1> SUFFICES ASSUME AtomInv, RecordsInv, ~unlinked,
                    NEW t \in DOMAIN activeTrans, NEW T \in AllTables, NEW n \in WritesOf(T, t)
             PROVE  \E i \in LogWrites(t, n.key) :
                       /\ wal[i].value = n.value
                       /\ \A j \in LogWrites(t, n.key) : j <= i
  BY DEF WriteAhead
<1> DEFINE ops == activeTrans[t].operations
           map == activeTrans[t].temp_map
<1>1. activeTrans[t].isCommited /\ n \in WritesOfTran(t)
  BY DEF AtomInv, Atomicity, WritesOfTran
<1>2. n.key \in DOMAIN map /\ n.value = map[n.key]
  BY <1>1 DEF WritesOfTran, Node
<1>3. /\ wal \in Seq(WalRecords) /\ ops \in Seq(WalRecords) /\ OwnRecords(ops, t)
  BY DEF AtomInv, TypeOK, IsTran, LogInv
<1>4. PICK b \in Nat : Block(wal, ops, t, b)
  BY <1>1 DEF AtomInv, LogInv
<1> HIDE DEF ops, map
<1>5. PICK j \in DOMAIN ops : /\ WritesKey(ops[j], n.key) /\ ops[j].value = map[n.key]
                              /\ \A i \in DOMAIN ops : WritesKey(ops[i], n.key) => i <= j
  BY <1>2 DEF RecordsInv, Matches, ops, map
<1>6. /\ b + Len(ops) <= Len(wal) /\ Len(ops) \in Nat /\ Len(wal) \in Nat
      /\ DOMAIN ops = 1..Len(ops) /\ DOMAIN wal = 1..Len(wal)
      /\ \A i \in 1..Len(ops) : wal[b + i] = ops[i]
      /\ \A i \in DOMAIN wal : wal[i].tranc_id = t => i \in (b + 1)..(b + Len(ops))
  BY <1>3, <1>4 DEF Block
<1>7. b + j \in LogWrites(t, n.key)
  <2>1. b + j \in DOMAIN wal /\ wal[b + j] = ops[j]
    <3>1. j \in 1..Len(ops)
      BY <1>6
    <3>2. wal[b + j] = ops[j]
      BY <1>6, <3>1
    <3>3. b + Len(ops) <= Len(wal) /\ Len(ops) \in Nat /\ Len(wal) \in Nat
      BY <1>6
    <3>4. b + j \in 1..Len(wal)
      BY <3>1, <3>3
    <3>5. QED
      BY <1>6, <3>2, <3>4
  <2>2. ops[j].tranc_id = t
    BY <1>3 DEF OwnRecords
  <2>3. QED
    BY <1>5, <2>1, <2>2 DEF LogWrites, WritesKey
<1>8. ASSUME NEW i \in LogWrites(t, n.key) PROVE i <= b + j
  <2>1. i \in DOMAIN wal /\ wal[i].tranc_id = t /\ WritesKey(wal[i], n.key)
    BY <1>8 DEF LogWrites, WritesKey
  <2>2. i \in (b + 1)..(b + Len(ops)) /\ Len(ops) \in Nat
    BY <1>6, <2>1
  <2>3. i - b \in 1..Len(ops) /\ b + (i - b) = i
    BY <2>2
  <2>4. i - b \in DOMAIN ops /\ wal[i] = ops[i - b]
    BY <1>6, <2>3
  <2>5. i - b <= j
    BY <1>5, <2>1, <2>4
  <2>6. i \in Int /\ j \in Int
    BY <1>6, <2>2
  <2>7. QED
    BY <2>5, <2>6
<1>9. wal[b + j].value = n.value
  BY <1>2, <1>5, <1>6
<1>10. QED
  BY <1>7, <1>8, <1>9

\* As long as clear is not called, every version a transaction has brought into a table
\* can be replayed: the last record of its key in the log has its value.
THEOREM LogIsAhead == WritesAside => (Spec => []WriteAhead)
<1> SUFFICES ASSUME WritesAside PROVE Spec => []WriteAhead
  OBVIOUS
<1> DEFINE Inv == AtomInv /\ RecordsInv /\ ~unlinked
<1>1. Init => Inv
  <2>1. Init => RecordsInv /\ ~unlinked
    BY DEF Init, RecordsInv
  <2>2. QED
    BY <2>1, InitAtomInv
<1>2. Inv /\ [Next]_vars => Inv'
  <2>1. ASSUME AtomInv, RecordsInv, [Next]_vars PROVE AtomInv' /\ RecordsInv'
    <3>1. TypeOK
      BY <2>1 DEF AtomInv
    <3>2. QED
      BY <2>1, <3>1, AtomStep, RecordsStep
  <2>2. ASSUME ~unlinked, [Next]_vars PROVE ~unlinked'
    <3>1. CASE DirectCall
      BY <2>2, <3>1 DEF DirectCall, Get, Put, StartBatch, BatchTurn, Flush, StartFlushAll,
                        FlushAllTurn, FlushLoopTurn, EndFlushAll, tranVars
    <3>2. CASE TranCall
      BY <2>2, <3>2 DEF TranCall, BeginTran, TranWrite, TranGet, Commit, CommitSucceeds,
                        CommitFails, Abort, RollbackTurn, EndRollback, tranVars
    <3>3. CASE UNCHANGED vars
      BY <2>2, <3>3 DEF vars, tranVars
    <3>4. QED
      BY <2>2, <3>1, <3>2, <3>3 DEF Next
  <2>3. QED
    BY <2>1, <2>2
<1>3. Inv => WriteAhead
  BY GivesWriteAhead
<1> HIDE DEF Inv
<1>4. QED
  BY <1>1, <1>2, <1>3, PTL DEF Spec

-----------------------------------------------------------------------------
(* The order of commits *)

\* A step brings a version of a transaction into memory only by its commit.
LEMMA MemorySteps ==
    ASSUME WritesAside, TypeOK, LogInv, IdInv, [Next \/ Clear]_vars
    PROVE  \/ \A n \in VersionsIn(memtable') :
                 n \in VersionsIn(memtable) \/ n.tranc_id \notin DOMAIN activeTrans
           \/ \E t \in Open : CommitSucceeds(t)
<1>0. memtable \in MemTables /\ nextTransactionId \in Nat
  BY DEF TypeOK, EngineTypeOK
<1>1. CASE DirectWrite
  <2>1. PICK k \in Keys, v \in Payload, t \in Nat : EngineWrite(k, v, t) /\ DirectId(t)
    BY <1>1 DEF DirectWrite, IdInv
  <2>2. t \notin DOMAIN activeTrans
    <3>1. CASE t = nextTransactionId
      BY <1>0, <3>1 DEF LogInv
    <3>2. CASE todo.op = "batch" /\ t = todo.tranc_id
      BY <3>2 DEF IdInv
    <3>3. QED
      BY <2>1, <3>1, <3>2 DEF DirectId
  <2> DEFINE m == MemPut(memtable, k, v, t)
  <2>3. m \in MemTables /\ VersionsIn(m) \subseteq VersionsIn(memtable) \cup {Node(k, v, t)}
    BY <1>0, MemPutType, MemPutKeeps
  <2>4. memtable' = m \/ memtable' = AfterFlush(m)
    BY <2>1 DEF EngineWrite, FlushIfFull, FlushFrom
  <2> HIDE DEF m
  <2>5. VersionsIn(memtable') \subseteq VersionsIn(m)
    BY <2>3, <2>4, AfterFlushKeeps
  <2>6. Node(k, v, t).tranc_id = t
    BY DEF Node
  <2>7. QED
    BY <2>2, <2>3, <2>5, <2>6
<1>2. CASE UNCHANGED memtable
  BY <1>2
<1>3. CASE EngineFlush
  BY <1>0, <1>3, AfterFlushKeeps DEF EngineFlush, FlushFrom
<1>4. CASE Clear
  <2>1. memtable' = AfterClear(memtable)
    BY <1>4 DEF Clear, EngineClear
  <2>2. memtable' \in MemTables
    BY <1>0, <2>1, AfterClearType
  <2>3. memtable'.current_table = {} /\ memtable'.frozen_tables = <<>>
    BY <2>1 DEF AfterClear
  <2>4. \A n : n \notin VersionsIn(memtable')
    BY <2>2, <2>3, VersionsInParts
  <2>5. QED
    BY <2>4
<1>5. QED
  BY <1>1, <1>2, <1>3, <1>4, EngineSteps DEF engineVars, vars

\* Nothing in memory that the commit of t finds under its keys is newer than t.
LEMMA CommitIsNewest ==
    ASSUME ChecksConflicts, OrderInv, NEW t \in Open, CommitSucceeds(t)
    PROVE  \A n \in VersionsIn(memtable) :
              n.key \in DOMAIN activeTrans[t].temp_map => n.tranc_id <= t
<1> DEFINE map == activeTrans[t].temp_map
<1>1. t \in DOMAIN activeTrans /\ t \in Nat /\ IsTran(activeTrans[t])
  BY DEF Open, OrderInv, TypeOK
<1>2. DOMAIN map \in SUBSET Keys
  BY <1>1 DEF IsTran, IsMap
<1>3. \A k \in DOMAIN map :
         ~(MemGet(memtable, k, 0) # NoNode /\ MemGet(memtable, k, 0).tranc_id > t)
  BY DEF CommitSucceeds, Conflicts, Conflict
<1>4. memtable \in MemTables /\ InOrder(memtable)
  BY DEF OrderInv, OrderedUpTo, TypeOK, EngineTypeOK
<1> HIDE DEF map
<1>5. QED
  BY <1>1, <1>2, <1>3, <1>4, NothingNewer DEF map

\* The versions a commit of t leaves in memory.
LEMMA CommitVersions ==
    ASSUME TypeOK, NEW t \in Open, CommitSucceeds(t)
    PROVE  \A n \in VersionsIn(memtable') : n \in VersionsIn(memtable) \/ n.tranc_id = t
<1> DEFINE map == activeTrans[t].temp_map
<1>1. t \in Nat /\ IsTran(activeTrans[t]) /\ memtable \in MemTables
  BY DEF Open, TypeOK, EngineTypeOK
<1>2. /\ DOMAIN map \in SUBSET Keys /\ IsFiniteSet(DOMAIN map)
      /\ map \in [DOMAIN map -> Payload]
  BY <1>1 DEF IsTran, IsMap
<1>3. memtable' = MemPutAll_(memtable, map, t)
  BY DEF CommitSucceeds
<1> HIDE DEF map
<1>4. QED
  BY <1>1, <1>2, <1>3, MemPutAll_Keeps

\* In a log with records ops of t behind it, the records of the others are where they
\* were, and those of t are in ops.
LEMMA AppendedWrites ==
    ASSUME NEW log \in Seq(WalRecords), NEW ops \in Seq(WalRecords), NEW t,
           \A i \in DOMAIN ops : ops[i].tranc_id = t
    PROVE  \A i \in DOMAIN (log \o ops) :
              \/ i \in DOMAIN log /\ (log \o ops)[i] = log[i]
              \/ /\ (log \o ops)[i].tranc_id = t
                 /\ i \notin DOMAIN log
                 /\ \E p \in DOMAIN ops : (log \o ops)[i] = ops[p]
<1>1. /\ Len(log \o ops) = Len(log) + Len(ops)
      /\ DOMAIN (log \o ops) = 1..Len(log \o ops)
      /\ \A i \in 1..Len(log \o ops) :
            (log \o ops)[i] = IF i <= Len(log) THEN log[i] ELSE ops[i - Len(log)]
      /\ DOMAIN log = 1..Len(log) /\ DOMAIN ops = 1..Len(ops)
      /\ Len(log) \in Nat /\ Len(ops) \in Nat
  OBVIOUS
<1> DEFINE all == log \o ops
<1> HIDE DEF all
<1>2. SUFFICES ASSUME NEW i \in DOMAIN all, i \notin DOMAIN log
               PROVE  \E p \in DOMAIN ops : all[i] = ops[p]
  BY <1>1 DEF all
<1>3. i - Len(log) \in DOMAIN ops /\ all[i] = ops[i - Len(log)]
  BY <1>1, <1>2 DEF all
<1>4. QED
  BY <1>3

Writes(log, t, k) == \E i \in DOMAIN log : log[i].tranc_id = t /\ WritesKey(log[i], k)

\* CommitOrder, of a log and the versions in memory: what the log replays out of order
\* has left memory.
LogOrdered(log, versions) ==
    \A i, j \in DOMAIN log : \A k \in Keys :
        /\ i < j
        /\ log[i].op = "COMMIT" /\ log[j].op = "COMMIT"
        /\ log[j].tranc_id < log[i].tranc_id
        /\ Writes(log, log[i].tranc_id, k)
        /\ Writes(log, log[j].tranc_id, k)
        => \A n \in versions : ~(n.key = k /\ n.tranc_id = log[i].tranc_id)

LEMMA GivesCommitOrder == LogOrdered(wal, VersionsIn(memtable)) => CommitOrder
<1> SUFFICES ASSUME LogOrdered(wal, VersionsIn(memtable)),
                    NEW i \in Commits, NEW j \in Commits, NEW k \in Keys,
                    i < j, wal[j].tranc_id < wal[i].tranc_id,
                    LogWrites(wal[i].tranc_id, k) # {}, LogWrites(wal[j].tranc_id, k) # {}
             PROVE  \A p \in DOMAIN Tables : \A n \in Tables[p] :
                       ~(n.key = k /\ n.tranc_id = wal[i].tranc_id)
  BY DEF CommitOrder
<1>1. Writes(wal, wal[i].tranc_id, k) /\ Writes(wal, wal[j].tranc_id, k)
  BY DEF LogWrites, Writes, WritesKey
<1>2. \A n \in VersionsIn(memtable) : ~(n.key = k /\ n.tranc_id = wal[i].tranc_id)
  BY <1>1 DEF LogOrdered, Commits
<1>3. QED
  BY <1>2 DEF VersionsIn, Tables

\* A smaller set of versions is in order too, as far as the log has written them.
LEMMA LogOrderedLess ==
    ASSUME NEW log, NEW old, NEW new, LogOrdered(log, old),
           \A n \in new : n \in old \/ \A i \in DOMAIN log : n.tranc_id # log[i].tranc_id
    PROVE  LogOrdered(log, new)
BY DEF LogOrdered

\* Transaction t adds its records ops, which write the keys of D, to the log, and puts
\* its versions over the old ones, none of which is newer at a key of D.
CommitAdds(log, ops, t, D, old, new) ==
    /\ \A i \in DOMAIN log : log[i].tranc_id # t
    /\ \A i \in DOMAIN ops : ops[i].tranc_id = t
    /\ \A i \in DOMAIN ops : \A k \in Keys : WritesKey(ops[i], k) => k \in D
    /\ \A n \in old : n.tranc_id \in Nat /\ (n.key \in D => n.tranc_id <= t)
    /\ \A n \in new : n \in old \/ n.tranc_id = t

\* What a commit adds to the log: the greater ids it passes are gone from memory.
LEMMA LogOrderedCommit ==
    ASSUME NEW log \in Seq(WalRecords), NEW ops \in Seq(WalRecords), NEW t \in Nat,
           NEW D, NEW old, NEW new, CommitAdds(log, ops, t, D, old, new), LogOrdered(log, old)
    PROVE  LogOrdered(log \o ops, new)
<1>0. /\ \A i \in DOMAIN log : log[i].tranc_id # t
      /\ \A i \in DOMAIN ops : ops[i].tranc_id = t
      /\ \A i \in DOMAIN ops : \A k \in Keys : WritesKey(ops[i], k) => k \in D
      /\ \A n \in old : n.tranc_id \in Nat /\ (n.key \in D => n.tranc_id <= t)
      /\ \A n \in new : n \in old \/ n.tranc_id = t
  BY DEF CommitAdds
<1> DEFINE all == log \o ops
<1>1. \A i \in DOMAIN all :
         \/ i \in DOMAIN log /\ all[i] = log[i] /\ all[i].tranc_id # t
         \/ /\ all[i].tranc_id = t /\ i \notin DOMAIN log
            /\ \E p \in DOMAIN ops : all[i] = ops[p]
  BY <1>0, AppendedWrites
<1>2. DOMAIN log = 1..Len(log) /\ DOMAIN all = 1..Len(all) /\ Len(log) \in Nat /\ Len(all) \in Nat
  OBVIOUS
<1> HIDE DEF all
<1>3. ASSUME NEW s, NEW k, s # t, Writes(all, s, k) PROVE Writes(log, s, k)
  BY <1>1, <1>3 DEF Writes
<1>4. ASSUME NEW k \in Keys, Writes(all, t, k) PROVE k \in D
  <2>1. PICK i \in DOMAIN all : all[i].tranc_id = t /\ WritesKey(all[i], k)
    BY <1>4 DEF Writes
  <2>2. PICK p \in DOMAIN ops : all[i] = ops[p]
    BY <1>1, <2>1
  <2>3. QED
    BY <1>0, <2>1, <2>2
<1>5. SUFFICES ASSUME NEW i \in DOMAIN all, NEW j \in DOMAIN all, NEW k \in Keys, i < j,
                      all[i].op = "COMMIT", all[j].op = "COMMIT",
                      all[j].tranc_id < all[i].tranc_id,
                      Writes(all, all[i].tranc_id, k), Writes(all, all[j].tranc_id, k),
                      NEW n \in new, n.key = k, n.tranc_id = all[i].tranc_id
               PROVE  FALSE
  BY DEF LogOrdered, all
<1>6. all[i].tranc_id # t /\ i \in DOMAIN log /\ all[i] = log[i]
  <2>1. CASE all[i].tranc_id = t
    <3>1. i \notin DOMAIN log
      BY <1>1, <2>1
    <3>2. j \notin DOMAIN log
      BY <1>2, <1>5, <3>1
    <3>3. all[j].tranc_id = t
      BY <1>1, <3>2
    <3>4. QED
      BY <1>5, <2>1, <3>3
  <2>2. QED
    BY <1>1, <2>1
<1>7. n \in old
  BY <1>0, <1>5, <1>6
<1>8. Writes(log, all[i].tranc_id, k)
  BY <1>3, <1>5, <1>6
<1>9. CASE all[j].tranc_id = t
  <2>1. k \in D
    BY <1>4, <1>5, <1>9
  <2>2. n.tranc_id <= t /\ n.tranc_id \in Nat
    BY <1>0, <1>5, <1>7, <2>1
  <2>3. t < n.tranc_id
    BY <1>5, <1>9
  <2>4. QED
    BY <2>2, <2>3
<1>10. CASE all[j].tranc_id # t
  <2>1. j \in DOMAIN log /\ all[j] = log[j]
    BY <1>1, <1>10
  <2>2. Writes(log, all[j].tranc_id, k)
    BY <1>3, <1>5, <1>10
  <2>3. QED
    BY <1>5, <1>6, <1>7, <1>8, <2>1, <2>2 DEF LogOrdered
<1>11. QED
  BY <1>9, <1>10

LEMMA LogOrderStep ==
    ASSUME ChecksConflicts, AtomInv, OrderInv, RecordsInv,
           LogOrdered(wal, VersionsIn(memtable)), [Next \/ Clear]_vars
    PROVE  LogOrdered(wal, VersionsIn(memtable))'
<1> DEFINE old == VersionsIn(memtable)
           new == VersionsIn(memtable')
<1>1. WritesAside /\ TypeOK /\ LogInv /\ IdInv
  BY DEF ChecksConflicts, WritesAside, AtomInv
<1>2. CASE wal' = <<>>
  BY <1>2 DEF LogOrdered
<1>3. CASE UNCHANGED wal /\ ~\E t \in Open : CommitSucceeds(t)
  <2>1. \A n \in new : n \in old \/ n.tranc_id \notin DOMAIN activeTrans
    BY <1>1, <1>3, MemorySteps
  <2>2. \A i \in DOMAIN wal : wal[i].tranc_id \in DOMAIN activeTrans
    BY <1>1 DEF LogInv
  <2> HIDE DEF old, new
  <2>3. \A n \in new : n \in old \/ \A i \in DOMAIN wal : n.tranc_id # wal[i].tranc_id
    BY <2>1, <2>2
  <2>4. LogOrdered(wal, old)
    BY DEF old
  <2>5. LogOrdered(wal, new)
    BY <2>3, <2>4, LogOrderedLess
  <2>6. QED
    BY <1>3, <2>5 DEF new
<1>4. ASSUME NEW t \in Open, CommitSucceeds(t) PROVE LogOrdered(wal, VersionsIn(memtable))'
  <2> DEFINE ops == Append(activeTrans[t].operations, Record(t, "COMMIT"))
             D   == DOMAIN activeTrans[t].temp_map
  <2>1. t \in DOMAIN activeTrans /\ t \in Nat /\ IsTran(activeTrans[t]) /\ wal \in Seq(WalRecords)
    BY <1>1 DEF Open, TypeOK
  <2>2. unlinked => wal = <<>>
    BY <1>1 DEF LogInv
  <2>3. wal' = IF unlinked THEN wal ELSE wal \o ops
    BY <1>4 DEF CommitSucceeds
  <2>4. \A i \in DOMAIN wal : wal[i].tranc_id # t
    BY <1>1, OpenUnlogged
  <2>5. \A n \in old : n.key \in D => n.tranc_id <= t
    BY <1>4, CommitIsNewest
  <2>6. \A n \in old : n.tranc_id \in Nat
    BY <1>1, VersionsInType DEF Version, TypeOK, EngineTypeOK
  <2>7. \A n \in new : n \in old \/ n.tranc_id = t
    BY <1>1, <1>4, CommitVersions
  <2>8. Matches(ops, activeTrans[t].temp_map)
    BY <2>1, MatchesMark DEF RecordsInv, IsTran
  <2>9. ops \in Seq(WalRecords) /\ \A i \in DOMAIN ops : ops[i].tranc_id = t
    <3>1. activeTrans[t].operations \in Seq(WalRecords)
      BY <2>1 DEF IsTran
    <3>2. Record(t, "COMMIT") \in WalRecords /\ Record(t, "COMMIT").tranc_id = t
      BY <2>1 DEF Record, WalRecords, MarkRecords
    <3>3. \A i \in DOMAIN activeTrans[t].operations : activeTrans[t].operations[i].tranc_id = t
      BY <1>1, <2>1 DEF LogInv, OwnRecords
    <3>4. QED
      BY <3>1, <3>2, <3>3
  <2> HIDE DEF ops, old, new
  <2>10. \A i \in DOMAIN ops : \A k \in Keys : WritesKey(ops[i], k) => k \in D
    BY <2>8 DEF Matches
  <2>11. LogOrdered(wal, old)
    BY DEF old
  <2> HIDE DEF D
  <2>12. LogOrdered(wal \o ops, new)
    <3>1. \A n \in old : n.tranc_id \in Nat /\ (n.key \in D => n.tranc_id <= t)
      BY <2>5, <2>6
    <3>2. \A i \in DOMAIN ops : ops[i].tranc_id = t
      BY <2>9
    <3>3. ops \in Seq(WalRecords) /\ wal \in Seq(WalRecords) /\ t \in Nat
      BY <2>1, <2>9
    <3>4. CommitAdds(wal, ops, t, D, old, new)
      BY <2>4, <2>7, <2>10, <3>1, <3>2 DEF CommitAdds
    <3>5. QED
      BY <2>11, <3>3, <3>4, LogOrderedCommit
  <2>13. QED
    BY <1>2, <2>2, <2>3, <2>12 DEF new
<1>5. Clear => wal' = <<>>
  BY DEF Clear
<1>6. QED
  <2>1. CASE \E t \in Open : CommitSucceeds(t)
    BY <1>4, <2>1
  <2>2. UNCHANGED wal \/ Clear \/ \E t \in Open : CommitSucceeds(t)
    BY <1>1, TranSteps DEF Begun, Recorded
  <2>3. QED
    BY <1>2, <1>3, <1>5, <2>1, <2>2

\* Under the levels that check conflicts: if the log holds the commits of two writers of a
\* key against the order of their ids, so that a replay by ids turns them round, then the
\* version of the one with the greater id is no longer in memory.
THEOREM ReplayTurnsRoundOnlyFlushed == ChecksConflicts => (SpecWithClear => []CommitOrder)
<1> SUFFICES ASSUME ChecksConflicts PROVE SpecWithClear => []CommitOrder
  OBVIOUS
<1> DEFINE Inv == AtomInv /\ OrderInv /\ RecordsInv /\ LogOrdered(wal, VersionsIn(memtable))
<1>1. Init => Inv
  <2>1. Init => RecordsInv /\ wal = <<>>
    BY DEF Init, RecordsInv
  <2>2. wal = <<>> => LogOrdered(wal, VersionsIn(memtable))
    BY DEF LogOrdered
  <2>3. QED
    BY <2>1, <2>2, InitAtomInv, InitOrder
<1>2. Inv /\ [Next \/ Clear]_vars => Inv'
  <2> SUFFICES ASSUME Inv, [Next \/ Clear]_vars PROVE Inv'
    OBVIOUS
  <2>1. WritesAside /\ TypeOK
    BY DEF ChecksConflicts, WritesAside, AtomInv
  <2>2. AtomInv'
    BY <2>1, AtomStep
  <2>3. OrderInv'
    BY OrderStep
  <2>4. RecordsInv'
    BY <2>1, RecordsStep
  <2>5. LogOrdered(wal, VersionsIn(memtable))'
    BY LogOrderStep
  <2>6. QED
    BY <2>2, <2>3, <2>4, <2>5
<1>3. Inv => CommitOrder
  BY GivesCommitOrder
<1> HIDE DEF Inv
<1>4. QED
  BY <1>1, <1>2, <1>3, PTL DEF SpecWithClear

-----------------------------------------------------------------------------
(* The order of the tables, those on disk included *)

\* Everything T has of the keys K is as new as what U has.
AboveOn(K, T, U) ==
    \A n \in T, o \in U : n.key \in K /\ n.key = o.key => o.tranc_id <= n.tranc_id

LEMMA CatAssoc ==
    ASSUME NEW r \in Seq(Table), NEW s \in Seq(Table), NEW t \in Seq(Table)
    PROVE  (r \o s) \o t = r \o (s \o t)
OBVIOUS

\* A first table, and the rest.
LEMMA HeadAndRest ==
    ASSUME NEW T \in Table, NEW rest \in Seq(Table), NEW K
    PROVE  NewestTableFirst(<<T>> \o rest, K) <=>
              /\ NewestTableFirst(rest, K)
              /\ \A i \in DOMAIN rest : AboveOn(K, T, rest[i])
<1> DEFINE all == <<T>> \o rest
<1>1. /\ DOMAIN all = 1..(Len(rest) + 1)
      /\ DOMAIN rest = 1..Len(rest)
      /\ Len(rest) \in Nat
      /\ all[1] = T
      /\ \A i \in DOMAIN rest : all[i + 1] = rest[i]
  OBVIOUS
<1> HIDE DEF all
<1>2. ASSUME NewestTableFirst(all, K)
      PROVE  NewestTableFirst(rest, K) /\ \A i \in DOMAIN rest : AboveOn(K, T, rest[i])
  <2>1. ASSUME NEW i \in DOMAIN rest PROVE AboveOn(K, T, rest[i])
    <3>1. 1 \in DOMAIN all /\ i + 1 \in DOMAIN all /\ 1 < i + 1 /\ all[i + 1] = rest[i]
      BY <1>1
    <3>2. QED
      BY <1>1, <1>2, <3>1 DEF NewestTableFirst, AboveOn
  <2>2. ASSUME NEW i \in DOMAIN rest, NEW j \in DOMAIN rest, i < j
        PROVE  AboveOn(K, rest[i], rest[j])
    <3>1. /\ i + 1 \in DOMAIN all /\ j + 1 \in DOMAIN all /\ i + 1 < j + 1
          /\ all[i + 1] = rest[i] /\ all[j + 1] = rest[j]
      BY <1>1, <2>2
    <3>2. QED
      BY <1>2, <3>1 DEF NewestTableFirst, AboveOn
  <2>3. QED
    BY <2>1, <2>2 DEF NewestTableFirst, AboveOn
<1>3. ASSUME NewestTableFirst(rest, K), \A i \in DOMAIN rest : AboveOn(K, T, rest[i]),
             NEW i \in DOMAIN all, NEW j \in DOMAIN all, i < j
      PROVE  AboveOn(K, all[i], all[j])
  <2>1. j - 1 \in DOMAIN rest /\ all[j] = rest[j - 1]
    BY <1>1, <1>3
  <2>2. CASE i = 1
    BY <1>1, <1>3, <2>1, <2>2
  <2>3. CASE i # 1
    <3>1. i - 1 \in DOMAIN rest /\ all[i] = rest[i - 1] /\ i - 1 < j - 1
      BY <1>1, <1>3, <2>3
    <3>2. QED
      BY <1>3, <2>1, <3>1 DEF NewestTableFirst, AboveOn
  <2>4. QED
    BY <2>2, <2>3
<1>4. QED
  BY <1>2, <1>3 DEF NewestTableFirst, AboveOn, all

\* The order of all tables, files behind memory.
DirectOrdered(m, files, K) == NewestTableFirst(TablesOf(m) \o files, K)

\* The tables behind the current one.
Behind(m, files) == m.frozen_tables \o files

LEMMA DirectParts ==
    ASSUME NEW m \in MemTables, NEW files \in Seq(Table), NEW K
    PROVE  /\ Behind(m, files) \in Seq(Table)
           /\ DirectOrdered(m, files, K) <=>
                 /\ NewestTableFirst(Behind(m, files), K)
                 /\ \A i \in DOMAIN Behind(m, files) :
                       AboveOn(K, m.current_table, Behind(m, files)[i])
<1>1. m.current_table \in Table /\ m.frozen_tables \in Seq(Table)
  BY DEF MemTables
<1>2. TablesOf(m) \o files = <<m.current_table>> \o Behind(m, files)
  <2> DEFINE T == m.current_table
             frozen == m.frozen_tables
  <2>1. <<T>> \in Seq(Table) /\ frozen \in Seq(Table)
    BY <1>1
  <2> HIDE DEF T, frozen
  <2>2. (<<T>> \o frozen) \o files = <<T>> \o (frozen \o files)
    BY <2>1, CatAssoc
  <2>3. QED
    BY <2>2 DEF TablesOf, Behind, T, frozen
<1>3. Behind(m, files) \in Seq(Table)
  BY <1>1 DEF Behind
<1>4. QED
  BY <1>1, <1>2, <1>3, HeadAndRest DEF DirectOrdered

\* An empty table may stand in front.
LEMMA EmptyInFront ==
    ASSUME NEW rest \in Seq(Table), NEW K, NewestTableFirst(rest, K)
    PROVE  NewestTableFirst(<<{}>> \o rest, K)
<1>1. \A T : AboveOn(K, {}, T)
  BY DEF AboveOn
<1>2. QED
  BY <1>1, EmptyTable, HeadAndRest

\* A freeze puts an empty table in front.
LEMMA FreezeDirect ==
    ASSUME NEW m \in MemTables, NEW files \in Seq(Table), NEW K, DirectOrdered(m, files, K)
    PROVE  DirectOrdered(FrozenCurTable(m), files, K)
<1>1. TablesOf(m) \in Seq(Table) /\ {} \in Table
  BY EmptyTable DEF MemTables, TablesOf
<1>2. TablesOf(FrozenCurTable(m)) = <<{}>> \o TablesOf(m)
  BY DEF FrozenCurTable, TablesOf
<1>3. TablesOf(FrozenCurTable(m)) \o files = <<{}>> \o (TablesOf(m) \o files)
  BY <1>1, <1>2, CatAssoc
<1>4. TablesOf(m) \o files \in Seq(Table)
  BY <1>1
<1>5. QED
  BY <1>3, <1>4, EmptyInFront DEF DirectOrdered

\* A put of an id as great as any.
LEMMA PutDirect ==
    ASSUME NEW m \in MemTables, NEW files \in Seq(Table), NEW K, DirectOrdered(m, files, K),
           NEW k \in Keys, NEW v \in Payload, NEW t \in Nat,
           \A i \in DOMAIN Behind(m, files) : \A o \in Behind(m, files)[i] : o.tranc_id <= t
    PROVE  DirectOrdered(MemPut(m, k, v, t), files, K)
<1> DEFINE w == MemPut_(m, k, v, t)
           T == TablePut(m.current_table, k, v, t)
<1>1. w \in MemTables /\ w.frozen_tables = m.frozen_tables /\ w.current_table = T
  BY MemPut_Type DEF MemPut_, MemTables
<1>2. Behind(w, files) = Behind(m, files)
  BY <1>1 DEF Behind
<1>3. \A n \in T : n \in m.current_table \/ n.tranc_id = t
  BY DEF TablePut, Node
<1> HIDE DEF w, T
<1>4. \A i \in DOMAIN Behind(m, files) : AboveOn(K, T, Behind(m, files)[i])
  BY <1>3, DirectParts DEF AboveOn
<1>5. DirectOrdered(w, files, K)
  BY <1>1, <1>2, <1>4, DirectParts
<1>6. QED
  BY <1>1, <1>5, FreezeDirect DEF MemPut, w

\* A commit under keys that are not in K.
LEMMA CommitDirect ==
    ASSUME NEW m \in MemTables, NEW files \in Seq(Table), NEW K, DirectOrdered(m, files, K),
           NEW D \in SUBSET Keys, IsFiniteSet(D), NEW map \in [D -> Payload], NEW t \in Nat,
           D \cap K = {}
    PROVE  DirectOrdered(MemPutAll_(m, map, t), files, K)
<1> DEFINE w == MemPutAll_(m, map, t)
<1>1. w \in MemTables /\ w.frozen_tables = m.frozen_tables
  BY MemPutAll_Type DEF MemPutAll_, MemTables
<1>2. Behind(w, files) = Behind(m, files)
  BY <1>1 DEF Behind
<1>3. \A n \in w.current_table : n \in m.current_table \/ n.key \in D
  BY DEF MemPutAll_, MemTables, Node
<1> HIDE DEF w
<1>4. \A i \in DOMAIN Behind(m, files) : AboveOn(K, w.current_table, Behind(m, files)[i])
  BY <1>3, DirectParts DEF AboveOn
<1>5. QED
  BY <1>1, <1>2, <1>4, DirectParts DEF w

\* The table a flush takes from memory goes to the front of the files: nothing else moves.
LEMMA FlushMoves ==
    ASSUME NEW m \in MemTables, NEW files \in Seq(Table), ~NothingToFlush(m)
    PROVE  TablesOf(AfterFlush(m)) \o (<<FlushedTable(m)>> \o files)
              = TablesOf(FreezeForFlush(m)) \o files
<1> DEFINE f    == FreezeForFlush(m)
           all  == f.frozen_tables
           last == FlushedTable(m)
<1>1. f \in MemTables /\ all # <<>> /\ all \in Seq(Table) /\ f.current_table \in Table
  BY FreezeForFlushType DEF MemTables
<1>2. last = Last(all)
  BY DEF FlushedTable, Last
<1>3. AfterFlush(m).frozen_tables = Front(all) /\ AfterFlush(m).current_table = f.current_table
  <2>1. AfterFlush(m) =
          [f EXCEPT !.frozen_tables = SubSeq(all, 1, Len(all) - 1),
                    !.frozen_bytes  = f.frozen_bytes - TableSize(all[Len(all)])]
    BY DEF AfterFlush
  <2> HIDE DEF f
  <2>2. QED
    BY <1>1, <2>1 DEF MemTables, Front
<1> HIDE DEF f, all, last
<1>4. all = Front(all) \o <<last>> /\ Front(all) \in Seq(Table) /\ last \in Table
  BY <1>1, <1>2, FrontOf DEF Front, Last
<1> DEFINE front == Front(all)
<1> HIDE DEF front
<1>5. (<<f.current_table>> \o front) \o (<<last>> \o files)
         = (<<f.current_table>> \o (front \o <<last>>)) \o files
  <2>1. <<f.current_table>> \in Seq(Table) /\ <<last>> \in Seq(Table) /\ front \in Seq(Table)
    BY <1>1, <1>4 DEF front
  <2>2. (<<f.current_table>> \o front) \o (<<last>> \o files)
           = ((<<f.current_table>> \o front) \o <<last>>) \o files
    <3>1. <<f.current_table>> \o front \in Seq(Table)
      BY <2>1
    <3>2. QED
      BY <2>1, <3>1, CatAssoc
  <2>3. (<<f.current_table>> \o front) \o <<last>> = <<f.current_table>> \o (front \o <<last>>)
    BY <2>1, CatAssoc
  <2>4. QED
    BY <2>2, <2>3
<1>6. TablesOf(AfterFlush(m)) \o (<<last>> \o files) = TablesOf(f) \o files
  BY <1>3, <1>4, <1>5 DEF TablesOf, front, all
<1>7. QED
  BY <1>6 DEF last, f

\* A flush moves the oldest table of memory to the front of the files.
LEMMA FlushDirect ==
    ASSUME NEW m \in MemTables, NEW files \in Seq(Table), NEW K, DirectOrdered(m, files, K)
    PROVE  DirectOrdered(AfterFlush(m),
                         <<IF NothingToFlush(m) THEN {} ELSE FlushedTable(m)>> \o files, K)
<1>1. CASE NothingToFlush(m)
  <2>1. AfterFlush(m) = m /\ m.current_table = {} /\ m.frozen_tables = <<>>
    BY <1>1 DEF AfterFlush, NothingToFlush
  <2>2. TablesOf(m) = <<{}>>
    BY <2>1 DEF TablesOf
  <2>3. <<{}>> \o files \in Seq(Table)
    BY EmptyTable
  <2>4. NewestTableFirst(<<{}>> \o files, K)
    BY <2>2 DEF DirectOrdered
  <2>5. NewestTableFirst(<<{}>> \o (<<{}>> \o files), K)
    BY <2>3, <2>4, EmptyInFront
  <2>6. QED
    BY <1>1, <2>1, <2>2, <2>5 DEF DirectOrdered
<1>2. CASE ~NothingToFlush(m)
  <2>1. DirectOrdered(FreezeForFlush(m), files, K)
    BY FreezeDirect DEF FreezeForFlush
  <2>2. QED
    BY <1>2, <2>1, FlushMoves DEF DirectOrdered
<1>3. QED
  BY <1>1, <1>2

\* Every file has an id below the next one, and a running batch has the newest id.
FilesInv ==
    /\ \A id \in DOMAIN ssts : id < next_sst_id
    /\ todo.op = "batch" => todo.tranc_id + 1 = nextTransactionId

FileTable(T) == IF T = NullSst THEN {} ELSE T

LEMMA Level0Type ==
    ASSUME TypeOK
    PROVE  /\ Level0 \in Seq(Table)
           /\ Level0 = [i \in DOMAIN level_sst_ids |-> FileTable(ssts[level_sst_ids[i]])]
           /\ \A i \in DOMAIN Level0 : Level0[i] \in SstTables \cup {{}}
<1>1. /\ level_sst_ids \in Seq(Nat)
      /\ ssts \in [DOMAIN ssts -> Table \cup {NullSst}]
      /\ \A i \in DOMAIN level_sst_ids : level_sst_ids[i] \in DOMAIN ssts
  BY DEF TypeOK, EngineTypeOK
<1>2. \A i \in DOMAIN level_sst_ids :
         FileTable(ssts[level_sst_ids[i]]) \in (Table \cap SstTables) \cup {{}}
  BY <1>1 DEF FileTable, SstTables
<1>3. Level0 = [i \in DOMAIN level_sst_ids |-> FileTable(ssts[level_sst_ids[i]])]
  BY DEF Level0, FileTable
<1>4. DOMAIN level_sst_ids = 1..Len(level_sst_ids) /\ Len(level_sst_ids) \in Nat
  BY <1>1
<1>5. \A i \in DOMAIN level_sst_ids : FileTable(ssts[level_sst_ids[i]]) \in Table
  BY <1>2, EmptyTable
<1> HIDE DEF FileTable
<1>6. Level0 \in Seq(Table)
  BY <1>3, <1>4, <1>5
<1>7. QED
  BY <1>2, <1>3, <1>6

LEMMA FilesStep ==
    ASSUME TypeOK, FilesInv, [Next \/ Clear]_vars
    PROVE  FilesInv'
<1>0. nextTransactionId \in Nat /\ next_sst_id \in Nat /\ DOMAIN ssts \subseteq Nat
  BY DEF TypeOK, EngineTypeOK
<1>1. todo'.op = "batch" => todo'.tranc_id + 1 = nextTransactionId'
  <2>1. ASSUME NEW kvs \in Batches, StartBatch(kvs)
        PROVE  todo'.tranc_id + 1 = nextTransactionId'
    BY <1>0, <2>1 DEF StartBatch, TakeId
  <2>2. CASE BatchTurn
    <3>1. UNCHANGED nextTransactionId /\ todo.op = "batch"
      BY <2>2 DEF BatchTurn, tranVars
    <3>2. todo' = Idle \/ todo' = [todo EXCEPT !.kvs = Tail(todo.kvs)]
      BY <2>2 DEF BatchTurn
    <3>3. todo \in [op : {"batch"}, kvs : Seq(Keys \X Payload) \ {<<>>}, tranc_id : Nat]
      BY <3>1 DEF TypeOK, TodoTypeOK, Idle
    <3>4. todo'.op = "batch" => todo'.tranc_id = todo.tranc_id
      BY <3>2, <3>3 DEF Idle
    <3>5. QED
      BY <3>1, <3>4 DEF FilesInv
  <2>3. CASE UNCHANGED <<nextTransactionId, todo>>
    BY <2>3 DEF FilesInv
  <2>4. CASE todo' = Idle \/ todo'.op # "batch"
    BY <2>4 DEF Idle
  <2>5. CASE DirectCall
    BY <2>1, <2>2, <2>3, <2>4, <2>5 DEF DirectCall, Get, Put, Flush, StartFlushAll, FlushAllTurn,
                                        FlushLoopTurn, EndFlushAll, tranVars, Idle
  <2>6. CASE TranCall \/ Clear
    <3>1. CASE RollbackTurn
      <4>1. todo \in [op : {"rollback"}, keys : SUBSET Keys, tranc_id : DOMAIN activeTrans]
        BY <3>1 DEF RollbackTurn, TypeOK, TodoTypeOK, Idle
      <4>2. \E k \in todo.keys : todo' = [todo EXCEPT !.keys = @ \ {k}]
        BY <3>1 DEF RollbackTurn
      <4>3. todo'.op = "rollback"
        BY <4>1, <4>2
      <4>4. QED
        BY <2>4, <4>3
    <3>2. CASE \E t \in Open : Abort(t)
      BY <2>3, <2>4, <3>2 DEF Abort
    <3>3. QED
      BY <2>3, <2>4, <2>6, <3>1, <3>2 DEF TranCall, BeginTran, TranWrite, TranGet, Commit,
         CommitSucceeds, CommitFails, EndRollback, Clear, Idle
  <2>7. CASE UNCHANGED vars
    BY <2>3, <2>7 DEF vars, tranVars
  <2>8. QED
    BY <2>5, <2>6, <2>7 DEF Next
<1>2. \A id \in DOMAIN ssts' : id < next_sst_id'
  <2>1. CASE UNCHANGED <<ssts, next_sst_id>>
    BY <2>1 DEF FilesInv
  <2>2. ASSUME NEW m, FlushFrom(m) PROVE \A id \in DOMAIN ssts' : id < next_sst_id'
    <3>1. next_sst_id' = next_sst_id + 1 /\ DOMAIN ssts' = DOMAIN ssts \cup {next_sst_id}
      BY <2>2 DEF FlushFrom
    <3>2. QED
      BY <1>0, <3>1 DEF FilesInv
  <2>3. CASE EngineFlush
    BY <2>2, <2>3 DEF EngineFlush
  <2>4. CASE DirectWrite
    BY <2>1, <2>2, <2>4 DEF DirectWrite, EngineWrite, FlushIfFull
  <2>5. CASE Clear
    BY <2>5 DEF Clear, EngineClear
  <2>6. ASSUME NEW t \in Open, CommitSucceeds(t) PROVE UNCHANGED <<ssts, next_sst_id>>
    BY <2>6 DEF CommitSucceeds
  <2>7. QED
    BY <2>1, <2>3, <2>4, <2>5, <2>6, EngineSteps DEF engineVars, vars
<1>3. QED
  BY <1>1, <1>2 DEF FilesInv

\* Tables that hold less are in order too, and for fewer keys.
LEMMA LessIsOrdered ==
    ASSUME NEW old, NEW new, NEW K, NEW L \in SUBSET K, NewestTableFirst(old, K),
           DOMAIN new = DOMAIN old, \A i \in DOMAIN old : new[i] \subseteq old[i]
    PROVE  NewestTableFirst(new, L)
BY DEF NewestTableFirst

LEMMA FlushFromDirect ==
    ASSUME TypeOK, FilesInv, NEW m \in MemTables, FlushFrom(m), NEW K, DirectOrdered(m, Level0, K)
    PROVE  DirectOrdered(memtable', Level0', K)
<1> DEFINE file  == IF NothingToFlush(m) THEN NullSst ELSE FlushedTable(m)
           table == IF NothingToFlush(m) THEN {} ELSE FlushedTable(m)
<1>1. /\ level_sst_ids \in Seq(Nat) /\ next_sst_id \in Nat
      /\ \A i \in DOMAIN level_sst_ids : level_sst_ids[i] \in DOMAIN ssts
      /\ \A id \in DOMAIN ssts : id < next_sst_id /\ id \in Nat
  BY DEF TypeOK, EngineTypeOK, FilesInv
<1>2. /\ memtable' = AfterFlush(m)
      /\ level_sst_ids' = <<next_sst_id>> \o level_sst_ids
      /\ ssts' = [id \in DOMAIN ssts \cup {next_sst_id} |->
                    IF id # next_sst_id THEN ssts[id] ELSE file]
  BY DEF FlushFrom
<1>3. FileTable(file) \subseteq table /\ table \in Table /\ FileTable(file) \in Table
  BY FlushedTableType, EmptyTable DEF FileTable
<1>4. /\ Level0 \in Seq(Table)
      /\ Level0 = [i \in DOMAIN level_sst_ids |-> FileTable(ssts[level_sst_ids[i]])]
  BY Level0Type
<1>5. DirectOrdered(memtable', <<table>> \o Level0, K)
  BY <1>2, <1>4, FlushDirect
<1> HIDE DEF file, table
<1>6. Level0' = [i \in DOMAIN level_sst_ids' |-> FileTable(ssts'[level_sst_ids'[i]])]
  BY DEF Level0, FileTable
<1>7. Level0' = <<FileTable(file)>> \o Level0
  <2>1. /\ Len(level_sst_ids') = Len(level_sst_ids) + 1
        /\ DOMAIN level_sst_ids' = 1..(Len(level_sst_ids) + 1)
        /\ DOMAIN level_sst_ids = 1..Len(level_sst_ids)
        /\ Len(level_sst_ids) \in Nat
        /\ level_sst_ids'[1] = next_sst_id
        /\ \A i \in 2..(Len(level_sst_ids) + 1) :
              i - 1 \in DOMAIN level_sst_ids /\ level_sst_ids'[i] = level_sst_ids[i - 1]
    BY <1>1, <1>2
  <2>2. ssts'[next_sst_id] = file
    BY <1>2
  <2>3. \A id \in DOMAIN ssts : id # next_sst_id /\ ssts'[id] = ssts[id]
    BY <1>1, <1>2
  <2> DEFINE all == <<FileTable(file)>> \o Level0
             new == Level0'
  <2>4. DOMAIN new = 1..(Len(level_sst_ids) + 1) /\ DOMAIN Level0 = 1..Len(level_sst_ids)
    BY <1>4, <1>6, <2>1
  <2>5. new[1] = FileTable(file)
    <3>1. 1 \in DOMAIN level_sst_ids'
      BY <2>1
    <3>2. new[1] = FileTable(ssts'[level_sst_ids'[1]])
      BY <1>6, <3>1
    <3>3. QED
      BY <2>1, <2>2, <3>2
  <2>6. ASSUME NEW i \in 2..(Len(level_sst_ids) + 1) PROVE new[i] = Level0[i - 1]
    <3>1. i \in DOMAIN level_sst_ids' /\ i - 1 \in DOMAIN level_sst_ids
      BY <2>1
    <3>2. new[i] = FileTable(ssts'[level_sst_ids'[i]])
      BY <1>6, <3>1
    <3>3. Level0[i - 1] = FileTable(ssts[level_sst_ids[i - 1]])
      BY <1>4, <3>1
    <3>4. ssts'[level_sst_ids'[i]] = ssts[level_sst_ids[i - 1]]
      BY <1>1, <2>1, <2>3, <3>1
    <3>5. QED
      BY <3>2, <3>3, <3>4
  <2>7. /\ DOMAIN all = 1..(Len(level_sst_ids) + 1)
        /\ all[1] = FileTable(file)
        /\ \A i \in 2..(Len(level_sst_ids) + 1) : all[i] = Level0[i - 1]
        /\ all \in Seq(Table)
    <3>1. Len(Level0) = Len(level_sst_ids) /\ Level0 \in Seq(Table) /\ FileTable(file) \in Table
      BY <1>3, <1>4, <2>1, <2>4
    <3> DEFINE s == Level0
               T == FileTable(file)
    <3> HIDE DEF s, T
    <3>2. s \in Seq(Table) /\ T \in Table /\ Len(s) = Len(level_sst_ids) /\ all = <<T>> \o s
      BY <3>1 DEF s, T
    <3> HIDE DEF all
    <3>3. QED
      BY <3>2 DEF s, T
  <2>8. new = [i \in 1..(Len(level_sst_ids) + 1) |-> new[i]]
    BY <1>6, <2>4
  <2>9. all = [i \in 1..(Len(level_sst_ids) + 1) |-> all[i]]
    <3> HIDE DEF all
    <3>1. QED
      BY <2>7
  <2>10. \A i \in 1..(Len(level_sst_ids) + 1) : new[i] = all[i]
    <3> HIDE DEF all, new
    <3>1. \A i \in 1..(Len(level_sst_ids) + 1) : i = 1 \/ i \in 2..(Len(level_sst_ids) + 1)
      BY <2>1
    <3>2. QED
      BY <2>5, <2>6, <2>7, <3>1
  <2> HIDE DEF all, new
  <2>11. new = all
    BY <2>8, <2>9, <2>10
  <2>12. QED
    BY <2>11 DEF all, new
<1>8. DirectOrdered(memtable', <<FileTable(file)>> \o Level0, K)
  <2> DEFINE mem == TablesOf(memtable')
             T   == FileTable(file)
             s   == Level0
             old == mem \o (<<table>> \o s)
             new == mem \o (<<T>> \o s)
  <2>1. mem \in Seq(Table)
    <3>1. memtable' \in MemTables
      BY <1>2, AfterFlushType
    <3>2. QED
      BY <3>1 DEF TablesOf, MemTables
  <2>2. T \in Table /\ table \in Table /\ s \in Seq(Table) /\ T \subseteq table
    BY <1>3, <1>4
  <2> HIDE DEF mem, T, s
  <2>3. DOMAIN new = DOMAIN old /\ \A i \in DOMAIN old : new[i] \subseteq old[i]
    BY <2>1, <2>2
  <2>4. NewestTableFirst(old, K)
    BY <1>5 DEF DirectOrdered, mem, s
  <2> HIDE DEF old, new
  <2>5. NewestTableFirst(new, K)
    BY <2>3, <2>4, LessIsOrdered
  <2>6. QED
    BY <2>5 DEF DirectOrdered, new, mem, s, T
<1>9. QED
  BY <1>7, <1>8

LEMMA FlushIfFullDirect ==
    ASSUME TypeOK, FilesInv, NEW m \in MemTables, NEW K, DirectOrdered(m, Level0, K),
           \/ FlushIfFull(m)
           \/ memtable' = m /\ UNCHANGED <<level_sst_ids, ssts, next_sst_id>>
    PROVE  DirectOrdered(memtable', Level0', K)
<1>1. CASE FlushFrom(m)
  BY <1>1, FlushFromDirect
<1>2. CASE memtable' = m /\ UNCHANGED <<level_sst_ids, ssts>>
  BY <1>2 DEF Level0
<1>3. QED
  BY <1>1, <1>2 DEF FlushIfFull

\* A key transactions write is never one of the direct keys again.
LEMMA KeysShrink ==
    ASSUME TypeOK, LogInv, [Next \/ Clear]_vars
    PROVE  DirectKeys' \subseteq DirectKeys
<1> SUFFICES ASSUME NEW k \in DirectKeys', NEW s \in DOMAIN activeTrans
             PROVE  k \notin DOMAIN activeTrans[s].temp_map
  BY DEF DirectKeys
<1>1. \A u \in DOMAIN activeTrans' : k \notin DOMAIN activeTrans'[u].temp_map
  BY DEF DirectKeys
<1>2. CASE SameTrans
  BY <1>1, <1>2 DEF SameTrans
<1>3. CASE Begun
  <2>1. s # nextTransactionId
    BY DEF LogInv, TypeOK
  <2>2. QED
    BY <1>1, <1>3, <2>1 DEF Begun
<1>4. ASSUME NEW t \in Open, NEW j \in Keys, NEW v \in Payload, Recorded(t, j, v)
      PROVE  k \notin DOMAIN activeTrans[s].temp_map
  <2>1. t \in DOMAIN activeTrans
    BY DEF Open
  <2>2. DOMAIN activeTrans[t].temp_map \subseteq DOMAIN activeTrans'[t].temp_map
    BY <1>4 DEF Recorded, Bind
  <2>3. QED
    BY <1>1, <1>4, <2>1, <2>2 DEF Recorded, OnlyOneChanges
<1>5. ASSUME NEW t \in Open, Committed(t) PROVE k \notin DOMAIN activeTrans[s].temp_map
  BY <1>1, <1>5 DEF Committed, OnlyOneChanges, Open
<1>6. QED
  BY <1>2, <1>3, <1>4, <1>5, TranSteps

LEMMA DirectStep ==
    ASSUME WritesAside, AtomInv, FilesInv, DirectNewestFirst, [Next \/ Clear]_vars
    PROVE  DirectNewestFirst'
<1> DEFINE K == DirectKeys
<1>1. /\ TypeOK /\ LogInv /\ IdInv /\ memtable \in MemTables
      /\ Level0 \in Seq(Table) /\ nextTransactionId \in Nat
  BY Level0Type DEF AtomInv, TypeOK, EngineTypeOK
<1>2. DirectOrdered(memtable, Level0, K)
  BY DEF DirectNewestFirst, DirectOrdered, Tables
<1>3. DirectKeys' \subseteq K
  BY <1>1, KeysShrink
<1> HIDE DEF K
<1>4. SUFFICES DirectOrdered(memtable', Level0', DirectKeys')
  BY DEF DirectNewestFirst, DirectOrdered, Tables
<1>5. ASSUME NEW L, DirectOrdered(memtable', Level0', L), DirectKeys' \subseteq L
      PROVE  DirectOrdered(memtable', Level0', DirectKeys')
  BY <1>5, LessIsOrdered DEF DirectOrdered
<1>6. CASE UNCHANGED engineVars
  <2>1. memtable' = memtable /\ Level0' = Level0
    BY <1>6 DEF engineVars, Level0
  <2>2. QED
    BY <1>2, <1>3, <1>5, <2>1
<1>7. CASE EngineFlush
  BY <1>1, <1>2, <1>3, <1>5, <1>7, FlushFromDirect DEF EngineFlush
<1>8. CASE DirectWrite
  <2>1. PICK k \in Keys, v \in Payload, t \in Nat : EngineWrite(k, v, t) /\ DirectId(t)
    BY <1>1, <1>8 DEF DirectWrite, IdInv
  <2>2. \A T \in AllTables : \A n \in T : n \in Version => n.tranc_id <= t
    <3>1. t = nextTransactionId \/ t + 1 = nextTransactionId
      BY <2>1 DEF DirectId, FilesInv
    <3>2. \A T \in AllTables : \A n \in T : n.tranc_id < nextTransactionId
      BY <1>1 DEF IdInv
    <3>3. \A i \in Nat : i < nextTransactionId => i <= t
      BY <1>1, <3>1
    <3>4. QED
      BY <3>2, <3>3 DEF Version
  <2>3. \A i \in DOMAIN Behind(memtable, Level0) :
           Behind(memtable, Level0)[i] \in AllTables \cup {{}}
    <3> DEFINE frozen == memtable.frozen_tables
               files  == Level0
    <3>1. frozen \in Seq(Table) /\ files \in Seq(Table)
      BY <1>1 DEF MemTables
    <3>2. \A i \in DOMAIN frozen : frozen[i] \in AllTables
      BY <1>1, TablesInParts DEF AllTables, TablesIn, Tables
    <3>3. \A i \in DOMAIN files : files[i] \in AllTables \cup {{}}
      BY <1>1, Level0Type DEF AllTables
    <3> HIDE DEF frozen, files
    <3>4. ASSUME NEW i \in DOMAIN (frozen \o files)
          PROVE  (frozen \o files)[i] \in AllTables \cup {{}}
      <4>1. CASE i <= Len(frozen)
        <5>1. i \in DOMAIN frozen /\ (frozen \o files)[i] = frozen[i]
          BY <3>1, <4>1
        <5>2. QED
          BY <3>2, <5>1
      <4>2. CASE ~(i <= Len(frozen))
        <5>1. i - Len(frozen) \in DOMAIN files /\ (frozen \o files)[i] = files[i - Len(frozen)]
          BY <3>1, <4>2
        <5>2. QED
          BY <3>3, <5>1
      <4>3. QED
        BY <4>1, <4>2
    <3>5. QED
      BY <3>4 DEF Behind, frozen, files
  <2>4. \A i \in DOMAIN Behind(memtable, Level0) :
           \A o \in Behind(memtable, Level0)[i] : o.tranc_id <= t
    <3>1. Behind(memtable, Level0) \in Seq(Table)
      BY <1>1, DirectParts
    <3>2. \A i \in DOMAIN Behind(memtable, Level0) : Behind(memtable, Level0)[i] \in Table
      BY <3>1
    <3>3. QED
      BY <2>2, <2>3, <3>2 DEF Table
  <2> DEFINE m == MemPut(memtable, k, v, t)
  <2>5. m \in MemTables
    BY <1>1, MemPutType
  <2>6. DirectOrdered(m, Level0, K)
    BY <1>1, <1>2, <2>4, PutDirect
  <2>7. FlushIfFull(m) \/ (memtable' = m /\ UNCHANGED <<level_sst_ids, ssts, next_sst_id>>)
    BY <2>1 DEF EngineWrite
  <2> HIDE DEF m
  <2>8. DirectOrdered(memtable', Level0', K)
    BY <1>1, <2>5, <2>6, <2>7, FlushIfFullDirect
  <2>9. QED
    BY <1>3, <1>5, <2>8
<1>9. ASSUME NEW t \in Open, CommitSucceeds(t)
      PROVE  DirectOrdered(memtable', Level0', DirectKeys')
  <2> DEFINE map == activeTrans[t].temp_map
  <2>1. t \in Nat /\ t \in DOMAIN activeTrans /\ IsTran(activeTrans[t])
    BY <1>1 DEF Open, TypeOK
  <2>2. /\ DOMAIN map \in SUBSET Keys /\ IsFiniteSet(DOMAIN map)
        /\ map \in [DOMAIN map -> Payload]
    BY <2>1 DEF IsTran, IsMap
  <2>3. DOMAIN map \cap K = {}
    BY <2>1 DEF K, DirectKeys
  <2>4. memtable' = MemPutAll_(memtable, map, t) /\ UNCHANGED <<level_sst_ids, ssts>>
    BY <1>9 DEF CommitSucceeds
  <2> HIDE DEF map
  <2>5. DirectOrdered(memtable', Level0, K)
    BY <1>1, <1>2, <2>1, <2>2, <2>3, <2>4, CommitDirect
  <2>6. Level0' = Level0
    BY <2>4 DEF Level0
  <2>7. QED
    BY <1>3, <1>5, <2>5, <2>6
<1>10. CASE Clear
  <2>1. /\ TablesOf(memtable') = <<{}>> /\ level_sst_ids' = <<>>
    BY <1>10 DEF Clear, EngineClear, AfterClear, TablesOf
  <2>2. TablesOf(memtable') \o Level0' = <<{}>>
    <3>1. Level0' = <<>>
      BY <2>1 DEF Level0
    <3>2. QED
      BY <2>1, <3>1
  <2>3. QED
    BY <2>2 DEF DirectOrdered, NewestTableFirst
<1>11. QED
  BY <1>1, <1>6, <1>7, <1>8, <1>9, <1>10, EngineSteps DEF vars, engineVars

\* Under every level but READ_UNCOMMITTED, for the keys no transaction writes: the further
\* back a table is in the search, memory first and then level 0 from its head, the older
\* are its versions.
THEOREM DirectWritesStayOrdered == WritesAside => (SpecWithClear => []DirectNewestFirst)
<1> SUFFICES ASSUME WritesAside PROVE SpecWithClear => []DirectNewestFirst
  OBVIOUS
<1> DEFINE Inv == AtomInv /\ FilesInv /\ DirectNewestFirst
<1>1. Init => Inv
  <2> SUFFICES ASSUME Init PROVE FilesInv /\ DirectNewestFirst
    BY InitAtomInv
  <2>1. FilesInv
    BY DEF Init, EngineInit, FilesInv, Idle
  <2>2. Tables \o Level0 = <<{}>>
    <3>1. Tables = <<{}>>
      BY DEF Init, EngineInit, NewMemTable, Tables, TablesOf
    <3>2. Level0 = <<>>
      BY DEF Init, EngineInit, Level0
    <3>3. QED
      BY <3>1, <3>2
  <2>3. QED
    BY <2>1, <2>2 DEF DirectNewestFirst, NewestTableFirst
<1>2. Inv /\ [Next \/ Clear]_vars => Inv'
  BY AtomStep, FilesStep, DirectStep DEF AtomInv
<1> HIDE DEF Inv
<1>3. Inv => DirectNewestFirst
  BY DEF Inv
<1>4. QED
  BY <1>1, <1>2, <1>3, PTL DEF SpecWithClear
=============================================================================
