-------------------------------- MODULE LSM ---------------------------------
(***************************************************************************)
(* The store as its users see it, between the opening of a data directory  *)
(* and its closing: class LSM (engine.cpp) over the engine, with the       *)
(* transactions of transation.cpp.  One thread makes the calls, in any     *)
(* order, so several transactions are open at once and interleave call by  *)
(* call with direct reads and writes.  A loop inside a call that makes     *)
(* several engine calls (a batch, flush_all, the rollback of an abort) is  *)
(* one step per turn; todo says which loop is running, and nothing else    *)
(* runs until it ends.                                                     *)
(* The log is one file: its rotation at 4096 bytes and the cleaner thread  *)
(* that deletes rotated files are not modelled.                            *)
(***************************************************************************)
EXTENDS Engine

CONSTANTS
    IsolationLevel, \* the level the TranManager was built with
    MaxTrancId,     \* bound: ids are handed out below it
    MaxTran,        \* bound: transactions a behaviour begins
    MaxOps,         \* bound: records a transaction collects before its COMMIT
    MaxBatch,       \* bound: entries of one batch
    MaxFlush,       \* bound: flush() is called while there are fewer files
    MaxSst          \* bound: flush_all goes on while there are fewer files

IsolationLevels ==
    {"READ_UNCOMMITTED", "READ_COMMITTED", "REPEATABLE_READ", "SERIALIZABLE"}

ASSUME IsolationAssumption == IsolationLevel \in IsolationLevels
ASSUME BoundsAssumption    == {MaxTrancId, MaxTran, MaxOps, MaxBatch, MaxFlush, MaxSst} \subseteq Nat

VARIABLES
    nextTransactionId, max_flushed_tranc_id, max_finished_tranc_id,
    activeTrans,    \* tranc_id -> TranContext; no transaction ever leaves it
    wal,            \* the records in the directory's wal files, oldest first
    tranc_id_file,  \* the three ids last written to the tranc_id file
    unlinked,       \* clear() has removed the open wal and tranc_id files
    todo            \* the loop that is running inside a call

tranVars == <<nextTransactionId, max_flushed_tranc_id, max_finished_tranc_id,
              activeTrans, wal, tranc_id_file, unlinked>>
vars == <<engineVars, tranVars, todo>>

Idle == [op |-> "idle"]

Largest(a, b) == IF a >= b THEN a ELSE b

\* One record of the log.  CREATE and COMMIT carry no key and no value.
Record(t, op)            == [tranc_id |-> t, op |-> op]
WriteRecord(t, op, k, v) == [tranc_id |-> t, op |-> op, key |-> k, value |-> v]

\* TranContext::TranContext.
NewTran(t) ==
    [temp_map     |-> [k \in {} |-> Empty],
     read_map     |-> [k \in {} |-> NoNode],
     rollback_map |-> [k \in {} |-> NoNode],
     operations   |-> <<Record(t, "CREATE")>>,
     isCommited   |-> FALSE,
     isAborted    |-> FALSE]

\* map[k] = x on a partial function.
Bind(map, k, x) == [j \in DOMAIN map \cup {k} |-> IF j = k THEN x ELSE map[j]]

Init ==
    /\ EngineInit
    /\ nextTransactionId = 1
    /\ max_flushed_tranc_id = 0
    /\ max_finished_tranc_id = 0
    /\ activeTrans = [t \in {} |-> NewTran(t)]
    /\ wal = <<>>
    /\ tranc_id_file = <<>>
    /\ unlinked = FALSE
    /\ todo = Idle

-----------------------------------------------------------------------------
(* Calls on LSM *)

\* TranManager::getNextTransactionId.
TakeId ==
    /\ nextTransactionId < MaxTrancId
    /\ nextTransactionId' = nextTransactionId + 1

\* LSM::get and get_batch: a read takes an id and changes nothing else.
Get ==
    /\ todo = Idle
    /\ TakeId
    /\ UNCHANGED <<engineVars, max_flushed_tranc_id, max_finished_tranc_id,
                   activeTrans, wal, tranc_id_file, unlinked, todo>>

\* LSM::put, and remove when v = Empty.
Put(k, v) ==
    /\ todo = Idle
    /\ TakeId
    /\ EnginePut(k, v, nextTransactionId)
    /\ UNCHANGED <<max_flushed_tranc_id, max_finished_tranc_id,
                   activeTrans, wal, tranc_id_file, unlinked, todo>>

\* LSM::put_batch and remove_batch take one id for all their entries.
StartBatch(kvs) ==
    /\ todo = Idle
    /\ TakeId
    /\ todo' = [op |-> "batch", kvs |-> kvs, tranc_id |-> nextTransactionId]
    /\ UNCHANGED <<engineVars, max_flushed_tranc_id, max_finished_tranc_id,
                   activeTrans, wal, tranc_id_file, unlinked>>

\* Mutant: the loop does not see that its entries are used up.
BatchTurnNoEnd ==
    /\ todo.op = "batch"
    /\ LET kv   == Head(todo.kvs)
           last == Len(todo.kvs) = 1
       IN  /\ EngineBatchTurn(kv[1], kv[2], todo.tranc_id, last)
           /\ todo' = [todo EXCEPT !.kvs = Tail(todo.kvs)]
    /\ UNCHANGED tranVars

\* One turn of the loop over the entries.
BatchTurn ==
    /\ todo.op = "batch"
    /\ LET kv   == Head(todo.kvs)
           last == Len(todo.kvs) = 1
       IN  /\ EngineBatchTurn(kv[1], kv[2], todo.tranc_id, last)
           /\ todo' = IF last THEN Idle ELSE [todo EXCEPT !.kvs = Tail(todo.kvs)]
    /\ UNCHANGED tranVars

\* LSM::flush.
Flush ==
    /\ todo = Idle
    /\ next_sst_id < MaxFlush
    /\ EngineFlush
    /\ UNCHANGED <<tranVars, todo>>

\* LSM::flush_all.
StartFlushAll ==
    /\ todo = Idle
    /\ todo' = [op |-> "flush_all"]
    /\ UNCHANGED <<engineVars, tranVars>>

\* LSMEngine::flush returns 0 whatever it has written.
FlushReturns == 0

\* One turn of flush_all's loop: flush, update_max_flushed_tranc_id, which calls
\* write_tranc_id_file.
FlushLoopTurn ==
    /\ MemTotalSize(memtable) > 0
    /\ next_sst_id < MaxSst
    /\ EngineFlush
    /\ max_flushed_tranc_id' = Largest(max_flushed_tranc_id, FlushReturns)
    /\ tranc_id_file' =
          IF unlinked THEN tranc_id_file
          ELSE <<nextTransactionId, max_flushed_tranc_id', max_finished_tranc_id>>
    /\ UNCHANGED <<nextTransactionId, max_finished_tranc_id, activeTrans, wal,
                   unlinked, todo>>

FlushAllTurn ==
    /\ todo.op = "flush_all"
    /\ FlushLoopTurn

EndFlushAll ==
    /\ todo.op = "flush_all"
    /\ MemTotalSize(memtable) = 0
    /\ todo' = Idle
    /\ UNCHANGED <<engineVars, tranVars>>

\* LSM::clear removes every file of the directory, the open ones included.
Clear ==
    /\ todo = Idle
    /\ EngineClear
    /\ wal' = <<>>
    /\ tranc_id_file' = <<>>
    /\ unlinked' = TRUE
    /\ UNCHANGED <<nextTransactionId, max_flushed_tranc_id,
                   max_finished_tranc_id, activeTrans, todo>>

-----------------------------------------------------------------------------
(* Transactions *)

\* TranManager::new_tranc.
BeginTran ==
    /\ todo = Idle
    /\ Cardinality(DOMAIN activeTrans) < MaxTran
    /\ TakeId
    /\ activeTrans' = Bind(activeTrans, nextTransactionId, NewTran(nextTransactionId))
    /\ UNCHANGED <<engineVars, max_flushed_tranc_id, max_finished_tranc_id,
                   wal, tranc_id_file, unlinked, todo>>

\* Mutant: remove records no operation.
LoggedPutsOnly(t, k, v) ==
    IF v = Empty THEN activeTrans[t]
    ELSE [activeTrans[t] EXCEPT !.operations = Append(@, WriteRecord(t, "PUT", k, v))]

\* The context with one more operation: the first statement of put and remove.
Logged(t, k, v) ==
    [activeTrans[t] EXCEPT !.operations =
        Append(@, WriteRecord(t, IF v = Empty THEN "DELETE" ELSE "PUT", k, v))]

\* TranContext::put and remove: every level records the operation; all but
\* READ_UNCOMMITTED keep the value aside, READ_UNCOMMITTED remembers what it
\* is about to overwrite and writes at once.
TranWrite(t, k, v) ==
    LET logged == Logged(t, k, v)
        prev   == EngineGet(k, 0)
    IN  /\ todo = Idle
        /\ Len(activeTrans[t].operations) < MaxOps
        /\ \/ /\ IsolationLevel # "READ_UNCOMMITTED"
              /\ activeTrans' = [activeTrans EXCEPT ![t] =
                    [logged EXCEPT !.temp_map = Bind(@, k, v)]]
              /\ UNCHANGED engineVars
           \/ /\ IsolationLevel = "READ_UNCOMMITTED"
              /\ prev # Failure
              /\ activeTrans' = [activeTrans EXCEPT ![t] =
                    [logged EXCEPT !.rollback_map = Bind(@, k, prev)]]
              /\ EnginePut(k, v, t)
           \/ /\ IsolationLevel = "READ_UNCOMMITTED"
              /\ prev = Failure
              /\ activeTrans' = [activeTrans EXCEPT ![t] = logged]
              /\ UNCHANGED engineVars
        /\ UNCHANGED <<nextTransactionId, max_flushed_tranc_id,
                       max_finished_tranc_id, wal, tranc_id_file, unlinked, todo>>

\* The levels that check conflicts, and remember what they have read.
ChecksConflicts == IsolationLevel \in {"REPEATABLE_READ", "SERIALIZABLE"}

\* TranContext::get of a key the two checking levels have not read before.
\* Every other get changes nothing.
TranGet(t, k) ==
    LET tran == activeTrans[t]
        read == EngineGet(k, t)
    IN  /\ todo = Idle
        /\ ChecksConflicts
        /\ k \notin DOMAIN tran.temp_map \cup DOMAIN tran.read_map
        /\ read # Failure
        /\ activeTrans' = [activeTrans EXCEPT ![t].read_map = Bind(@, k, read)]
        /\ UNCHANGED <<engineVars, nextTransactionId, max_flushed_tranc_id,
                       max_finished_tranc_id, wal, tranc_id_file, unlinked, todo>>

\* Mutant: only the current table is searched.
ConflictInCurrent(t, k) ==
    LET mem == TableGet(memtable.current_table, k, 0)
    IN  mem # NoNode /\ mem.tranc_id > t

\* Mutant: the search is made with the transaction's own id.
ConflictVisible(t, k) ==
    LET mem == MemGet(memtable, k, t)
    IN  mem # NoNode /\ mem.tranc_id > t

\* The check of one key in TranContext::commit: the newest version in memory,
\* then the SSTs, unless max_flushed_tranc_id says they hold nothing newer.
Conflict(t, k) ==
    LET mem == MemGet(memtable, k, 0)
        sst == SstGet_(k, 0)
    IN  \/ mem # NoNode /\ mem.tranc_id > t
        \/ /\ max_flushed_tranc_id > t
           /\ sst \notin {NoNode, Failure}
           /\ sst.tranc_id > t

Conflicts(t) == \E k \in DOMAIN activeTrans[t].temp_map : Conflict(t, k)

\* TranContext::commit that goes through: log, then apply, then mark.  Under
\* READ_UNCOMMITTED temp_map is empty and there is nothing to apply.
CommitSucceeds(t) ==
    /\ todo = Idle
    /\ ~(ChecksConflicts /\ Conflicts(t))
    /\ LET operations == Append(activeTrans[t].operations, Record(t, "COMMIT"))
       IN  /\ wal' = IF unlinked THEN wal ELSE wal \o operations
           /\ activeTrans' = [activeTrans EXCEPT ![t] =
                 [@ EXCEPT !.operations = operations, !.isCommited = TRUE]]
    /\ memtable' = MemPutAll_(memtable, activeTrans[t].temp_map, t)
    /\ max_finished_tranc_id' = Largest(max_finished_tranc_id, t)
    /\ UNCHANGED <<level_sst_ids, ssts, next_sst_id, nextTransactionId,
                   max_flushed_tranc_id, tranc_id_file, unlinked, todo>>

\* Mutant: keys are checked and applied one by one, up to the conflict.
CommitFailsLate(t) ==
    LET map   == activeTrans[t].temp_map
        sound == {k \in DOMAIN map : ~Conflict(t, k)}
    IN  /\ todo = Idle
        /\ ChecksConflicts
        /\ Conflicts(t)
        /\ memtable' = MemPutAll_(memtable, [k \in sound |-> map[k]], t)
        /\ activeTrans' = [activeTrans EXCEPT ![t].isAborted = TRUE]
        /\ UNCHANGED <<level_sst_ids, ssts, next_sst_id, nextTransactionId,
                       max_flushed_tranc_id, max_finished_tranc_id, wal,
                       tranc_id_file, unlinked, todo>>

\* Mutant: the log is written before the conflicts are looked for.
CommitFailsLogged(t) ==
    /\ todo = Idle
    /\ ChecksConflicts
    /\ Conflicts(t)
    /\ wal' = wal \o activeTrans[t].operations
    /\ activeTrans' = [activeTrans EXCEPT ![t].isAborted = TRUE]
    /\ UNCHANGED <<engineVars, nextTransactionId, max_flushed_tranc_id,
                   max_finished_tranc_id, tranc_id_file, unlinked, todo>>

\* TranContext::commit that finds a conflict and returns false.
CommitFails(t) ==
    /\ todo = Idle
    /\ ChecksConflicts
    /\ Conflicts(t)
    /\ activeTrans' = [activeTrans EXCEPT ![t].isAborted = TRUE]
    /\ UNCHANGED <<engineVars, nextTransactionId, max_flushed_tranc_id,
                   max_finished_tranc_id, wal, tranc_id_file, unlinked, todo>>

Commit(t) == CommitSucceeds(t) \/ CommitFails(t)

\* TranContext::abort; under READ_UNCOMMITTED the loop over rollback_map_ comes
\* first.
Abort(t) ==
    /\ todo = Idle
    /\ \/ /\ IsolationLevel = "READ_UNCOMMITTED"
          /\ todo' = [op |-> "rollback", tranc_id |-> t,
                      keys |-> DOMAIN activeTrans[t].rollback_map]
          /\ UNCHANGED activeTrans
       \/ /\ IsolationLevel # "READ_UNCOMMITTED"
          /\ activeTrans' = [activeTrans EXCEPT ![t].isAborted = TRUE]
          /\ UNCHANGED todo
    /\ UNCHANGED <<engineVars, nextTransactionId, max_flushed_tranc_id,
                   max_finished_tranc_id, wal, tranc_id_file, unlinked>>

\* One key of rollback_map_, an unordered_map: what was there is put again under
\* its own id, and what was not is removed under the transaction's.
RollbackTurn ==
    /\ todo.op = "rollback"
    /\ \E k \in todo.keys :
          LET prev == activeTrans[todo.tranc_id].rollback_map[k]
          IN  /\ IF prev # NoNode
                 THEN EnginePut(k, prev.value, prev.tranc_id)
                 ELSE EnginePut(k, Empty, todo.tranc_id)
              /\ todo' = [todo EXCEPT !.keys = @ \ {k}]
    /\ UNCHANGED tranVars

EndRollback ==
    /\ todo.op = "rollback"
    /\ todo.keys = {}
    /\ activeTrans' = [activeTrans EXCEPT ![todo.tranc_id].isAborted = TRUE]
    /\ todo' = Idle
    /\ UNCHANGED <<engineVars, nextTransactionId, max_flushed_tranc_id,
                   max_finished_tranc_id, wal, tranc_id_file, unlinked>>

-----------------------------------------------------------------------------
(* The specification *)

\* Transactions a client still uses: a context whose commit or abort has
\* returned is left alone, as the tests do (the code would accept more calls).
Open == {t \in DOMAIN activeTrans :
            ~activeTrans[t].isCommited /\ ~activeTrans[t].isAborted}

Batches == UNION {[1..n -> Keys \X Payload] : n \in 1..MaxBatch}

DirectCall ==
    \/ Get
    \/ \E k \in Keys, v \in Payload : Put(k, v)
    \/ \E kvs \in Batches : StartBatch(kvs)
    \/ BatchTurn
    \/ Flush
    \/ StartFlushAll
    \/ FlushAllTurn
    \/ EndFlushAll

TranCall ==
    \/ BeginTran
    \/ \E t \in Open, k \in Keys, v \in Payload : TranWrite(t, k, v)
    \/ \E t \in Open, k \in Keys : TranGet(t, k)
    \/ \E t \in Open : Commit(t)
    \/ \E t \in Open : Abort(t)
    \/ RollbackTurn
    \/ EndRollback

Next == DirectCall \/ TranCall

Spec == Init /\ [][Next]_vars

\* With LSM::clear, which leaves the directory without its open files.
SpecWithClear == Init /\ [][Next \/ Clear]_vars
=============================================================================
