------------------------------ MODULE Recovery ------------------------------
(***************************************************************************)
(* LSM.tla over the life of a data directory: sessions that end by a close *)
(* (LSM::~LSM) or by a crash of the process, and openings that find the    *)
(* SST files, read the tranc_id file and replay the log (LSM::LSM,         *)
(* LSMEngine::LSMEngine, TranManager::TranManager, WAL::recover).          *)
(*                                                                         *)
(* A crash takes everything in memory and nothing that a call has flushed  *)
(* to a file.  Two calls write a file in several pieces: a commit appends  *)
(* its records one by one, and a build of an SST writes data, index and    *)
(* the offset of the index.  The crash can come between the pieces.        *)
(*                                                                         *)
(* Rotated log files are read back in the order they were written, so the  *)
(* log stays one sequence.                                                 *)
(***************************************************************************)
EXTENDS LSM

CONSTANTS
    MaxSession, \* bound: sessions of the directory
    Torn        \* a file whose last piece was not written

\* The level LSM::LSM builds its TranManager with.
ASSUME DefaultLevel    == IsolationLevel = "REPEATABLE_READ"
ASSUME SessionsBounded == MaxSession \in Nat \ {0}

\* Neither the null SST nor the file cut short is a table.
ASSUME MarksAssumption == NullSst \notin Table /\ Torn \notin Table

VARIABLES
    files,      \* sst id -> what its file in the directory holds
    session,    \* which opening of the directory this is
    owed        \* history: the writes acknowledged to the client, by session

recoveryVars == <<vars, files, session, owed>>

\* An acknowledged write: by a direct call, or by the commit of a transaction.
Owed(node, by) == [node |-> node, by |-> by, session |-> session]

RecoveryInit ==
    /\ Init
    /\ files = [id \in {} |-> Torn]
    /\ session = 1
    /\ owed = {}

-----------------------------------------------------------------------------
(* A session *)

\* The file of an SST is written when the SST is made; a null SST has none.
FilesFollow ==
    LET built == {id \in DOMAIN ssts' : ssts'[id] # NullSst}
    IN  files' = [id \in DOMAIN files \cup built |->
                     IF id \in built THEN ssts'[id] ELSE files[id]]

\* The client has been told that map is written under id t.
Acknowledge(map, t, by) ==
    owed' = {w \in owed : ~(/\ w.session = session
                            /\ w.node.key \in DOMAIN map
                            /\ w.node.tranc_id = t)}
               \cup {Owed(Node(k, map[k], t), by) : k \in DOMAIN map}

SessionPut ==
    \E k \in Keys, v \in Payload :
        /\ Put(k, v)
        /\ Acknowledge([j \in {k} |-> v], nextTransactionId, "put")

SessionCommit ==
    \E t \in Open :
        /\ CommitSucceeds(t)
        /\ Acknowledge(activeTrans[t].temp_map, t, "commit")

\* commit(test_fail = true), by which a test stands in for a crash: logged, not applied.
CommitTestFail(t) ==
    /\ todo = Idle
    /\ ~Conflicts(t)
    /\ LET operations == Append(activeTrans[t].operations, Record(t, "COMMIT"))
       IN  /\ wal' = wal \o operations
           /\ activeTrans' = [activeTrans EXCEPT ![t] =
                 [@ EXCEPT !.operations = operations, !.isCommited = TRUE]]
    /\ max_finished_tranc_id' = Largest(max_finished_tranc_id, t)
    /\ UNCHANGED <<engineVars, nextTransactionId, max_flushed_tranc_id,
                   tranc_id_file, unlinked, todo>>

\* The calls that promise nothing.  Batches, and what a transaction remembers of its
\* reads, which dies with it, are left to LSM.tla.
SessionOther ==
    /\ \/ Get
       \/ Flush
       \/ StartFlushAll
       \/ FlushAllTurn
       \/ EndFlushAll
       \/ BeginTran
       \/ \E t \in Open, k \in Keys, v \in Payload : TranWrite(t, k, v)
       \/ \E t \in Open : CommitFails(t) \/ CommitTestFail(t) \/ Abort(t)
    /\ UNCHANGED owed

SessionCall ==
    /\ SessionPut \/ SessionCommit \/ SessionOther
    /\ FilesFollow
    /\ UNCHANGED session

-----------------------------------------------------------------------------
(* The end of a session *)

\* What is left in the process: nothing.
MemoryGone ==
    /\ memtable' = NewMemTable
    /\ level_sst_ids' = <<>>
    /\ ssts' = [id \in {} |-> NullSst]
    /\ next_sst_id' = 0
    /\ nextTransactionId' = 1
    /\ max_flushed_tranc_id' = 0
    /\ max_finished_tranc_id' = 0
    /\ activeTrans' = [t \in {} |-> NewTran(t)]
    /\ todo' = [op |-> "down"]
    /\ UNCHANGED unlinked

\* LSM::~LSM: flush_all, then write_tranc_id_file.  Open transactions are lost.
StartClose ==
    /\ todo = Idle
    /\ todo' = [op |-> "close"]
    /\ UNCHANGED <<engineVars, tranVars, files, session, owed>>

CloseTurn ==
    /\ todo.op = "close"
    /\ FlushLoopTurn
    /\ FilesFollow
    /\ UNCHANGED <<session, owed>>

\* Mutant: the destructor does not wait for the memtable to be empty.
EndCloseEarly ==
    /\ todo.op = "close"
    /\ tranc_id_file' = <<nextTransactionId, max_flushed_tranc_id, max_finished_tranc_id>>
    /\ MemoryGone
    /\ UNCHANGED <<wal, files, session, owed>>

EndClose ==
    /\ todo.op = "close"
    /\ MemTotalSize(memtable) = 0
    /\ tranc_id_file' = <<nextTransactionId, max_flushed_tranc_id, max_finished_tranc_id>>
    /\ MemoryGone
    /\ UNCHANGED <<wal, files, session, owed>>

\* Direct writes are not logged: no promise is left of them.
ForgetPuts == owed' = {w \in owed : w.session < session \/ w.by = "commit"}

Running == todo.op \notin {"down", "failed"}

\* The process dies between two steps.
Crash ==
    /\ Running
    /\ MemoryGone
    /\ ForgetPuts
    /\ UNCHANGED <<wal, tranc_id_file, files, session>>

\* It dies in the commit of t: n of the records are in the file, none is applied.
CrashInCommit(t) ==
    LET operations == Append(activeTrans[t].operations, Record(t, "COMMIT"))
    IN  /\ todo = Idle
        /\ ~(ChecksConflicts /\ Conflicts(t))
        /\ \E n \in DOMAIN operations : wal' = wal \o SubSeq(operations, 1, n)
        /\ MemoryGone
        /\ ForgetPuts
        /\ UNCHANGED <<tranc_id_file, files, session>>

-----------------------------------------------------------------------------
(* The next session *)

\* WAL::recover: the records above max_flushed, by their positions in the log.
Recover(max_flushed) == {i \in DOMAIN wal : wal[i].tranc_id > max_flushed}

\* Both constructors throw: on a file cut short, or on an id file never written.
OpenFails ==
    /\ todo.op = "down"
    /\ session < MaxSession
    /\ tranc_id_file = <<>> \/ \E id \in DOMAIN files : files[id] = Torn
    /\ todo' = [op |-> "failed"]
    /\ UNCHANGED <<engineVars, tranVars, files, session, owed>>

\* Mutant: the files are listed in the order they were written.
FoundOldestFirst ==
    CHOOSE ids \in [1..Cardinality(DOMAIN files) -> DOMAIN files] :
        \A i, j \in DOMAIN ids : i < j => ids[i] < ids[j]

\* LSMEngine::LSMEngine lists the files, the greatest id first.
Found ==
    CHOOSE ids \in [1..Cardinality(DOMAIN files) -> DOMAIN files] :
        \A i, j \in DOMAIN ids : i < j => ids[i] > ids[j]

\* Mutant: each file opened takes the place of the one before.
StartOpenLastOnly ==
    /\ todo.op = "down"
    /\ session < MaxSession
    /\ tranc_id_file # <<>>
    /\ \A id \in DOMAIN files : files[id] # Torn
    /\ ssts' = [id \in {j \in DOMAIN files : \A i \in DOMAIN files : i <= j} |-> files[id]]
    /\ level_sst_ids' = Found
    /\ nextTransactionId' = tranc_id_file[1]
    /\ max_flushed_tranc_id' = tranc_id_file[2]
    /\ max_finished_tranc_id' = tranc_id_file[3]
    /\ todo' = [op |-> "recover", left |-> Recover(tranc_id_file[2])]
    /\ UNCHANGED <<memtable, next_sst_id, activeTrans, wal, tranc_id_file, unlinked,
                   files, session, owed>>

\* The constructors up to the replay.  next_sst_id starts at 0 whatever is found.
StartOpen ==
    /\ todo.op = "down"
    /\ session < MaxSession
    /\ tranc_id_file # <<>>
    /\ \A id \in DOMAIN files : files[id] # Torn
    /\ ssts' = files
    /\ level_sst_ids' = Found
    /\ nextTransactionId' = tranc_id_file[1]
    /\ max_flushed_tranc_id' = tranc_id_file[2]
    /\ max_finished_tranc_id' = tranc_id_file[3]
    /\ todo' = [op |-> "recover", left |-> Recover(tranc_id_file[2])]
    /\ UNCHANGED <<memtable, next_sst_id, activeTrans, wal, tranc_id_file, unlinked,
                   files, session, owed>>

\* Mutant: the records in the order of the log.
NextInLog == CHOOSE i \in todo.left : \A j \in todo.left : i <= j

\* A std::map from ids to records in the order of the log, gone through from its begin.
Sooner(i, j) ==
    \/ wal[i].tranc_id < wal[j].tranc_id
    \/ wal[i].tranc_id = wal[j].tranc_id /\ i < j

NextRecord == CHOOSE i \in todo.left : \A j \in todo.left \ {i} : Sooner(i, j)

\* The memtable with the next record put or removed under its old id.
Replayed ==
    LET r == wal[NextRecord]
    IN  MemPut(memtable, r.key, r.value, r.tranc_id)

\* Mutant: removals are not replayed.
RecoverPutsOnly ==
    /\ todo.op = "recover"
    /\ todo.left # {}
    /\ LET r == wal[NextRecord]
       IN  /\ \/ /\ r.op = "PUT"
                 /\ FlushIfFull(Replayed)
              \/ /\ r.op # "PUT"
                 /\ UNCHANGED engineVars
           /\ max_finished_tranc_id' = Largest(max_finished_tranc_id, r.tranc_id)
    /\ todo' = [todo EXCEPT !.left = @ \ {NextRecord}]
    /\ FilesFollow
    /\ UNCHANGED <<nextTransactionId, max_flushed_tranc_id, activeTrans, wal,
                   tranc_id_file, unlinked, session, owed>>

\* One record of LSM::LSM's two loops.
RecoverTurn ==
    /\ todo.op = "recover"
    /\ todo.left # {}
    /\ LET r == wal[NextRecord]
       IN  /\ \/ /\ r.op \in {"PUT", "DELETE"}
                 /\ FlushIfFull(Replayed)
              \/ /\ r.op \notin {"PUT", "DELETE"}
                 /\ UNCHANGED engineVars
           /\ max_finished_tranc_id' = Largest(max_finished_tranc_id, r.tranc_id)
    /\ todo' = [todo EXCEPT !.left = @ \ {NextRecord}]
    /\ FilesFollow
    /\ UNCHANGED <<nextTransactionId, max_flushed_tranc_id, activeTrans, wal,
                   tranc_id_file, unlinked, session, owed>>

\* TranManager::init_new_wal removes the log.
EndOpen ==
    /\ todo.op = "recover"
    /\ todo.left = {}
    /\ wal' = <<>>
    /\ todo' = Idle
    /\ session' = session + 1
    /\ UNCHANGED <<engineVars, nextTransactionId, max_flushed_tranc_id,
                   max_finished_tranc_id, activeTrans, tranc_id_file, unlinked,
                   files, owed>>

\* A flush is under way, or about to be.
Flushing ==
    \/ /\ todo.op \in {"idle", "flush_all", "close"}
       /\ ~NothingToFlush(memtable)
    \/ /\ todo.op = "recover"
       /\ todo.left # {}
       /\ wal[NextRecord].op \in {"PUT", "DELETE"}
       /\ MemTotalSize(Replayed) >= TotMemLimit

\* The process dies while SSTBuilder::build writes the file.
CrashInFlush ==
    /\ Flushing
    /\ files' = [id \in DOMAIN files \cup {next_sst_id} |->
                    IF id = next_sst_id THEN Torn ELSE files[id]]
    /\ MemoryGone
    /\ ForgetPuts
    /\ UNCHANGED <<wal, tranc_id_file, session>>

-----------------------------------------------------------------------------
(* The specification *)

Ending ==
    \/ StartClose
    \/ CloseTurn
    \/ EndClose
    \/ Crash
    \/ \E t \in Open : CrashInCommit(t)
    \/ CrashInFlush

Opening ==
    \/ OpenFails
    \/ StartOpen
    \/ RecoverTurn
    \/ EndOpen

RecoveryNext == SessionCall \/ Ending \/ Opening

RecoverySpec == RecoveryInit /\ [][RecoveryNext]_recoveryVars
=============================================================================
