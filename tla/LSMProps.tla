------------------------------ MODULE LSMProps ------------------------------
(***************************************************************************)
(* What LSM.tla is checked for.                                            *)
(***************************************************************************)
EXTENDS LSM

-----------------------------------------------------------------------------
(* Types *)

\* A finite map from keys to S.
IsMap(f, S) ==
    /\ DOMAIN f \subseteq Keys
    /\ IsFiniteSet(DOMAIN f)
    /\ f \in [DOMAIN f -> S]

MarkRecords  == [tranc_id : Nat, op : {"CREATE", "COMMIT"}]
WriteRecords == [tranc_id : Nat, op : {"PUT", "DELETE"}, key : Keys, value : Payload]
WalRecords   == MarkRecords \cup WriteRecords

\* A TranContext.
IsTran(tran) ==
    /\ DOMAIN tran = {"temp_map", "read_map", "rollback_map", "operations",
                      "isCommited", "isAborted"}
    /\ IsMap(tran.temp_map, Payload)
    /\ IsMap(tran.read_map, Version \cup {NoNode})
    /\ IsMap(tran.rollback_map, Version \cup {NoNode})
    /\ tran.operations \in Seq(WalRecords)
    /\ tran.isCommited \in BOOLEAN
    /\ tran.isAborted \in BOOLEAN

\* A running loop knows what it has left to do: a batch is not used up, a rollback
\* is of keys its transaction has overwritten.
TodoTypeOK ==
    \/ todo = Idle
    \/ todo = [op |-> "flush_all"]
    \/ todo \in [op : {"batch"}, kvs : Seq(Keys \X Payload) \ {<<>>}, tranc_id : Nat]
    \/ /\ todo \in [op : {"rollback"}, keys : SUBSET Keys, tranc_id : DOMAIN activeTrans]
       /\ todo.keys \subseteq DOMAIN activeTrans[todo.tranc_id].rollback_map

\* The state is one the C++ types can hold, and the running loop one of LSM's.
TypeOK ==
    /\ EngineTypeOK
    /\ nextTransactionId \in Nat \ {0}
    /\ max_flushed_tranc_id \in Nat
    /\ max_finished_tranc_id \in Nat
    /\ DOMAIN activeTrans \subseteq Nat
    /\ \A t \in DOMAIN activeTrans : IsTran(activeTrans[t])
    /\ wal \in Seq(WalRecords)
    /\ tranc_id_file \in Seq(Nat)
    /\ unlinked \in BOOLEAN
    /\ TodoTypeOK

-----------------------------------------------------------------------------
(* The memtable *)

Tables == TablesOf(memtable)

\* The tables in memory are in the order of their versions: what makes
\* MemTable::get_, which stops at the first table with a visible version, right.
\* TranContext::commit puts old ids into the current table, and only its conflict
\* check stands between that and a stale version that hides a newer one.
VersionOrder == NewestTableFirst(Tables, Keys)

\* MemTable::get_ for every reader: the newest version in any table that the
\* reader may see, whichever table it is in.
ReadsNewest ==
    \A k \in Keys, t \in 0..nextTransactionId :
        MemGet(memtable, k, t) = TableGet(Resident(memtable), k, t)

TotalSize(tables) ==
    LET sum[i \in 0..Len(tables)] ==
            IF i = 0 THEN 0 ELSE sum[i - 1] + TableSize(tables[i])
    IN  sum[Len(tables)]

\* frozen_bytes, kept up by hand in frozen_cur_table_ and flush_last, is the size
\* of the frozen tables; get_total_size, and with it every flush, hangs on it.
FrozenBytesExact ==
    memtable.frozen_bytes = TotalSize(memtable.frozen_tables)

-----------------------------------------------------------------------------
(* Transactions *)

\* All tables, in memory and on disk, in the order a complete search would take.
SstTables == {ssts[id] : id \in DOMAIN ssts} \ {NullSst}
AllTables == {Tables[i] : i \in DOMAIN Tables} \cup SstTables

WritesOf(T, t) == {n \in T : n.tranc_id = t}

\* A transaction is all or nothing, table by table: a table with one version of
\* it, in memory or on disk, has all its writes and no other, and the transaction
\* has committed.  A freeze or a flush in the middle of commit's loop would split
\* it, and an aborted or open one must never show.
Atomicity ==
    \A t \in DOMAIN activeTrans : \A T \in AllTables :
        WritesOf(T, t) # {} =>
            /\ activeTrans[t].isCommited
            /\ WritesOf(T, t) = {Node(k, activeTrans[t].temp_map[k], t) :
                                    k \in DOMAIN activeTrans[t].temp_map}

\* The records of one transaction in the log, from position i on, are all there.
LoggedFrom(i, t) ==
    LET operations == activeTrans[t].operations
    IN  /\ i + Len(operations) - 1 <= Len(wal)
        /\ SubSeq(wal, i, i + Len(operations) - 1) = operations

\* WAL::recover replays whatever the log holds, with no look for a COMMIT: so the
\* log must hold committed transactions only, each of them whole and unbroken.
WalWhole ==
    \A i \in DOMAIN wal :
        LET t == wal[i].tranc_id
        IN  /\ t \in DOMAIN activeTrans
            /\ activeTrans[t].isCommited
            /\ wal[i].op = "CREATE" => LoggedFrom(i, t)
            /\ \E j \in 1..i : wal[j] = Record(t, "CREATE")

\* The positions of the log that write key k for transaction t.
LogWrites(t, k) ==
    {i \in DOMAIN wal : /\ wal[i].tranc_id = t
                        /\ wal[i].op \in {"PUT", "DELETE"}
                        /\ wal[i].key = k}

\* Write-ahead: a version a transaction put into a table can be replayed from the
\* log, whose last record of that key has the same value.
WriteAhead ==
    \A t \in DOMAIN activeTrans : \A T \in AllTables : \A n \in WritesOf(T, t) :
        \E i \in LogWrites(t, n.key) :
            /\ wal[i].value = n.value
            /\ \A j \in LogWrites(t, n.key) : j <= i

Commits == {i \in DOMAIN wal : wal[i].op = "COMMIT"}

\* Recovery replays transactions in the order of their ids (WAL::recover fills a
\* std::map), which is right for a key only if its writers committed in that
\* order.  The conflict check sees to it while the later id is still in memory.
CommitOrder ==
    \A i, j \in Commits : \A k \in Keys :
        LET early == wal[i].tranc_id
            late  == wal[j].tranc_id
        IN  /\ i < j
            /\ late < early
            /\ LogWrites(early, k) # {}
            /\ LogWrites(late, k) # {}
            => \A p \in DOMAIN Tables : \A n \in Tables[p] :
                  ~(n.key = k /\ n.tranc_id = early)

-----------------------------------------------------------------------------
(* Memory and disk *)

\* Keys no transaction writes.
DirectKeys ==
    {k \in Keys : \A t \in DOMAIN activeTrans : k \notin DOMAIN activeTrans[t].temp_map}

\* Level 0 from its head; a file that is a null pointer holds nothing.
Level0 ==
    [i \in DOMAIN level_sst_ids |->
        LET T == ssts[level_sst_ids[i]] IN IF T = NullSst THEN {} ELSE T]

\* Tables in memory, then level 0 from its head: for keys written directly the
\* versions get older along this order, across freezes, flushes and batches that
\* are split over several tables.
DirectNewestFirst == NewestTableFirst(Tables \o Level0, DirectKeys)

-----------------------------------------------------------------------------
(* Refinement *)

Store == INSTANCE MVStore WITH versions <- Resident(memtable), TrancIds <- 0..MaxTrancId

\* Memory behaves like one multi-version store: freezing is invisible, a flush
\* takes the oldest versions, a commit applies all its writes where nothing newer
\* is.
ImplementsStore == Store!Spec

-----------------------------------------------------------------------------
(* Liveness *)

LoopTurn == BatchTurn \/ FlushAllTurn \/ EndFlushAll \/ RollbackTurn \/ EndRollback

\* The thread inside a call keeps running: it waits for nobody.
FairSpec == Spec /\ WF_vars(LoopTurn)

\* Every call returns: batches, flush_all and rollbacks end.
CallsReturn == todo # Idle ~> todo = Idle
=============================================================================
