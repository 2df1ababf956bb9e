--------------------------- MODULE RecoveryProofs ---------------------------
(***************************************************************************)
(* Theorems about Recovery.tla, for every set of keys and values, every    *)
(* limit and every number of sessions: what an acknowledged write can rely *)
(* on across crashes, closes and openings, and what a replay makes of the  *)
(* log.                                                                    *)
(***************************************************************************)
EXTENDS RecoveryProps, LSMProofs

-----------------------------------------------------------------------------
(* The inductive invariant: types and phases *)

\* The loops of a session, of a closing, of an opening, and no process at all.
Serving   == todo \in {Idle, [op |-> "flush_all"]}
Closing   == todo = [op |-> "close"]
Away      == todo \in {[op |-> "down"], [op |-> "failed"]}
Replaying == todo \in [op : {"recover"}, left : SUBSET (DOMAIN wal)]

PhaseInv == Serving \/ Closing \/ Away \/ Replaying

\* What the tranc_id file holds: nothing, or ids of which the middle one is 0.
IdFileOK ==
    \/ tranc_id_file = <<>>
    \/ \E a \in Nat \ {0}, c \in Nat : tranc_id_file = <<a, 0, c>>

\* The parts of the state that outlive a step of any kind.
TypeInv ==
    /\ EngineTypeOK
    /\ Counted(memtable)
    /\ nextTransactionId \in Nat \ {0}
    /\ max_flushed_tranc_id = 0
    /\ max_finished_tranc_id \in Nat
    /\ DOMAIN activeTrans \subseteq Nat \ {0}
    /\ \A t \in DOMAIN activeTrans : IsTran(activeTrans[t])
    /\ wal \in Seq(WalRecords)
    /\ \A i \in DOMAIN wal : wal[i].tranc_id # 0
    /\ IdFileOK
    /\ unlinked = FALSE

\* The files, and what is open of them.
DirectoryInv ==
    /\ DOMAIN files \subseteq Nat
    /\ IsFiniteSet(DOMAIN files)
    /\ files \in [DOMAIN files -> Table \cup {Torn}]
    /\ \A id \in DOMAIN ssts : ssts[id] # NullSst =>
          id \in DOMAIN files /\ files[id] = ssts[id]

SessionsInv ==
    /\ session \in 1..MaxSession
    /\ todo.op \in {"down", "failed", "recover"} => DOMAIN activeTrans = {}
    /\ Replaying => session < MaxSession
    /\ Away => memtable = NewMemTable /\ level_sst_ids = <<>> /\ next_sst_id = 0
    /\ Serving \/ Closing => LogInv /\ RecordsInv

-----------------------------------------------------------------------------
(* The inductive invariant: what has been acknowledged *)

\* A file this session has made.
Made(id) == id \in DOMAIN ssts /\ id < next_sst_id /\ ssts[id] # NullSst

\* In memory, or in a file of this session.
Kept(n) ==
    \/ n \in VersionsIn(memtable)
    \/ \E id \in DOMAIN ssts : Made(id) /\ n \in ssts[id]

WritesTo(r, k, t) == r.op \in {"PUT", "DELETE"} /\ r.key = k /\ r.tranc_id = t

\* The last record of the log for the key and the id of n holds n's value.
LogShows(log, n) ==
    \E j \in DOMAIN log :
        /\ WritesTo(log[j], n.key, n.tranc_id)
        /\ log[j].value = n.value
        /\ \A i \in DOMAIN log : WritesTo(log[i], n.key, n.tranc_id) => i <= j

OwedType ==
    \A w \in owed :
        w.node \in Version /\ w.session \in 1..session /\ w.by \in {"put", "commit"}

OwedKept ==
    Serving \/ Closing => \A w \in owed : w.session = session => Kept(w.node)

OwedOnDisk ==
    Away => \A w \in owed : w.session = session /\ w.by = "put" => OnDisk(w.node)

OwedLogged ==
    \A w \in owed : w.session = session /\ w.by = "commit" => LogShows(wal, w.node)

OwedInv == OwedType /\ OwedKept /\ OwedOnDisk /\ OwedLogged

-----------------------------------------------------------------------------
(* The inductive invariant: the replay *)

\* A search of S for the key and the id of r meets its value first.
Shows(S, r) ==
    \E i \in DOMAIN S :
        /\ Node(r.key, r.value, r.tranc_id) \in S[i]
        /\ \A h \in 1..(i - 1) : \A n \in S[h] : ~(n.key = r.key /\ n.tranc_id = r.tranc_id)

\* Of the records done, the greatest position that writes the key and the id of j.
LastDone(log, done, j) ==
    /\ log[j].op \in {"PUT", "DELETE"}
    /\ \A i \in done : WritesTo(log[i], log[j].key, log[j].tranc_id) => i <= j

\* The tables S are what a replay of the records done has made.
Replays(log, done, S) ==
    /\ NewestTableFirst(S, Keys)
    /\ \A i \in DOMAIN S : DistinctIds(S[i])
    /\ \A i \in DOMAIN S : \A n \in S[i] : \E j \in done : WritesTo(log[j], n.key, n.tranc_id)
    /\ \A j \in done : LastDone(log, done, j) => Shows(S, log[j])

MadeFiles == [i \in 1..next_sst_id |-> ssts[level_sst_ids[i]]]

\* The files of the replay are the first of level 0, the newest in front.
FilesMade ==
    /\ next_sst_id <= Len(level_sst_ids)
    /\ \A i \in 1..next_sst_id :
          level_sst_ids[i] = next_sst_id - i /\ ssts[level_sst_ids[i]] # NullSst

ReplayInv ==
    Replaying =>
        /\ FilesMade
        /\ Replays(wal, DOMAIN wal \ todo.left, MadeTables)
        /\ \A i \in DOMAIN wal \ todo.left, j \in todo.left : Sooner(i, j)

RecoveryInv ==
    /\ PhaseInv
    /\ TypeInv
    /\ DirectoryInv
    /\ SessionsInv
    /\ OwedInv
    /\ ReplayInv

-----------------------------------------------------------------------------
(* A call of a session *)

LEMMA Level == WritesAside /\ ChecksConflicts /\ IsolationLevel = "REPEATABLE_READ"
BY DefaultLevel DEF WritesAside, ChecksConflicts

LEMMA PhaseOps ==
    /\ Serving <=> todo \in {Idle, [op |-> "flush_all"]}
    /\ Serving => todo.op \in {"idle", "flush_all"}
    /\ Closing => todo.op = "close"
    /\ Away => todo.op \in {"down", "failed"}
    /\ Replaying => todo.op = "recover" /\ todo.left \subseteq DOMAIN wal
BY DEF Serving, Closing, Away, Replaying, Idle

LEMMA ServingType ==
    ASSUME TypeInv, Serving
    PROVE  TypeOK
<1>1. tranc_id_file \in Seq(Nat)
  <2>1. CASE tranc_id_file = <<>>
    BY <2>1
  <2>2. CASE \E a \in Nat \ {0}, c \in Nat : tranc_id_file = <<a, 0, c>>
    <3>1. PICK a \in Nat, c \in Nat : tranc_id_file = <<a, 0, c>>
      BY <2>2
    <3>2. QED
      BY <3>1
  <2>3. QED
    BY <2>1, <2>2 DEF TypeInv, IdFileOK
<1>2. TodoTypeOK
  BY DEF Serving, TodoTypeOK
<1>3. QED
  BY <1>1, <1>2 DEF TypeInv, TypeOK

\* A call is one of LSM.tla's, or the commit a test cuts short.
LEMMA SessionIsLSM ==
    ASSUME SessionCall
    PROVE  Next \/ \E t \in Open : CommitTestFail(t)
BY DEF SessionCall, SessionPut, SessionCommit, SessionOther, Next, DirectCall, TranCall, Commit

\* What a call leaves alone.
LEMMA SessionFrame ==
    ASSUME Serving, SessionCall, max_flushed_tranc_id = 0
    PROVE  /\ Serving'
           /\ UNCHANGED unlinked
           /\ max_flushed_tranc_id' = 0
           /\ \/ UNCHANGED tranc_id_file
              \/ unlinked
              \/ tranc_id_file' = <<nextTransactionId, 0, max_finished_tranc_id>>
<1>1. CASE \/ Get \/ Flush \/ BeginTran
           \/ \E k \in Keys, v \in Payload : Put(k, v)
           \/ \E t \in Open, k \in Keys, v \in Payload : TranWrite(t, k, v)
           \/ \E t \in Open : CommitSucceeds(t) \/ CommitFails(t) \/ CommitTestFail(t)
  BY <1>1 DEF Serving, Get, Flush, BeginTran, Put, TranWrite, CommitSucceeds, CommitFails,
              CommitTestFail, tranVars
<1>2. CASE \E t \in Open : Abort(t)
  BY <1>2, Level DEF Serving, Abort
<1>3. CASE StartFlushAll \/ EndFlushAll
  BY <1>3 DEF Serving, StartFlushAll, EndFlushAll, tranVars
<1>4. CASE FlushAllTurn
  <2>1. max_flushed_tranc_id' = 0
    BY <1>4 DEF FlushAllTurn, FlushLoopTurn, Largest, FlushReturns
  <2>2. QED
    BY <1>4, <2>1 DEF Serving, FlushAllTurn, FlushLoopTurn
<1>5. QED
  BY <1>1, <1>2, <1>3, <1>4 DEF SessionCall, SessionPut, SessionCommit, SessionOther

LEMMA TestFailCommitted ==
    ASSUME TypeOK, ~unlinked, NEW t \in Open, CommitTestFail(t)
    PROVE  Committed(t) /\ TypeOK' /\ UNCHANGED engineVars /\ UNCHANGED nextTransactionId
<1> DEFINE ops  == Append(activeTrans[t].operations, Record(t, "COMMIT"))
           tran == [activeTrans[t] EXCEPT !.operations = ops, !.isCommited = TRUE]
<1>1. t \in DOMAIN activeTrans /\ IsTran(activeTrans[t]) /\ t \in Nat
  BY DEF Open, TypeOK
<1>2. /\ activeTrans' = [activeTrans EXCEPT ![t] = tran]
      /\ wal' = wal \o ops
      /\ todo = Idle
      /\ max_finished_tranc_id' = Largest(max_finished_tranc_id, t)
      /\ UNCHANGED <<engineVars, nextTransactionId, max_flushed_tranc_id,
                     tranc_id_file, unlinked, todo>>
  BY DEF CommitTestFail
<1>3. ops \in Seq(WalRecords)
  <2>1. activeTrans[t].operations \in Seq(WalRecords)
    BY <1>1 DEF IsTran
  <2>2. Record(t, "COMMIT") \in WalRecords
    BY <1>1 DEF Record, WalRecords, MarkRecords
  <2>3. QED
    BY <2>1, <2>2
<1> HIDE DEF ops
<1>4. /\ tran.operations = ops
      /\ tran.temp_map = activeTrans[t].temp_map
      /\ tran.isCommited
  BY <1>1 DEF IsTran
<1>5. IsTran(tran)
  BY <1>1, <1>3, TranUpdate
<1> HIDE DEF tran
<1>6. Committed(t)
  BY <1>1, <1>2, <1>4 DEF Committed, OnlyOneChanges, ops
<1>7. EngineTypeOK'
  BY <1>2 DEF TypeOK, EngineTypeOK, engineVars
<1>8. wal' \in Seq(WalRecords)
  BY <1>2, <1>3 DEF TypeOK
<1>9. max_finished_tranc_id' \in Nat
  BY <1>1, <1>2 DEF TypeOK, Largest
<1>10. TypeOK'
  BY <1>1, <1>2, <1>5, <1>7, <1>8, <1>9, OnlyTranChanges
<1>11. QED
  BY <1>2, <1>6, <1>10

\* The contexts and the log, in a session.
LEMMA SessionLog ==
    ASSUME TypeInv, Serving, LogInv, RecordsInv, SessionCall
    PROVE  TypeOK' /\ TranShape /\ LogInv' /\ RecordsInv'
<1>1. TypeOK /\ ~unlinked
  BY ServingType DEF TypeInv
<1>2. TypeOK' /\ TranShape /\ (nextTransactionId' = nextTransactionId \/ TakeId)
  <2>1. CASE Next
    BY <1>1, <2>1, TypeStep, TranSteps, IdGrows DEF TranShape
  <2>2. CASE \E t \in Open : CommitTestFail(t)
    BY <1>1, <2>2, TestFailCommitted DEF TranShape
  <2>3. QED
    BY <2>1, <2>2, SessionIsLSM
<1>3. LogInv' /\ RecordsInv'
  BY <1>1, <1>2, Level, LogKept, RecordsKept
<1>4. QED
  BY <1>2, <1>3

LEMMA SessionDomain ==
    ASSUME TypeInv, TranShape
    PROVE  DOMAIN activeTrans' \subseteq Nat \ {0}
BY DEF TypeInv, TranShape, SameTrans, Begun, Recorded, Committed, OnlyOneChanges

LEMMA SessionTypes ==
    ASSUME TypeInv, Serving, LogInv, RecordsInv, SessionCall
    PROVE  TypeInv' /\ Serving'
<1>1. TypeOK /\ TypeOK' /\ LogInv' /\ TranShape
  BY ServingType, SessionLog
<1>2. DOMAIN activeTrans' \subseteq Nat \ {0}
  BY <1>1, SessionDomain
<1>3. /\ Serving' /\ unlinked' = FALSE /\ max_flushed_tranc_id' = 0
      /\ \/ UNCHANGED tranc_id_file
         \/ tranc_id_file' = <<nextTransactionId, 0, max_finished_tranc_id>>
  BY SessionFrame DEF TypeInv
<1>4. IdFileOK'
  BY <1>3 DEF TypeInv, IdFileOK
<1>5. \A i \in DOMAIN wal' : wal'[i].tranc_id # 0
  BY <1>1, <1>2 DEF LogInv
<1>6. Counted(memtable)'
  <2>1. Counted(memtable)
    BY DEF TypeInv
  <2>2. CASE Next
    BY <1>1, <2>1, <2>2, CountedStep DEF Counted
  <2>3. CASE \E t \in Open : CommitTestFail(t)
    BY <2>1, <2>3 DEF CommitTestFail, engineVars, Counted
  <2>4. QED
    BY <2>2, <2>3, SessionIsLSM
<1>7. QED
  BY <1>1, <1>2, <1>3, <1>4, <1>5, <1>6 DEF TypeOK, TypeInv

-----------------------------------------------------------------------------
(* The files *)

\* Level 0 stays as it is, or a flush puts a file in front of it.
FilesMove ==
    \/ UNCHANGED <<level_sst_ids, ssts, next_sst_id>>
    \/ \E m \in MemTables : FlushFrom(m)

LEMMA FlushMovesFiles ==
    ASSUME NEW m \in MemTables, FlushFrom(m) \/ FlushIfFull(m)
    PROVE  FilesMove
BY DEF FlushIfFull, FilesMove

LEMMA SessionFiles ==
    ASSUME TypeInv, Serving, SessionCall
    PROVE  FilesMove
<1>1. TypeOK /\ memtable \in MemTables
  BY ServingType DEF TypeInv, EngineTypeOK
<1>2. CASE Next
  <2>1. CASE EngineFlush
    BY <1>1, <2>1, FlushMovesFiles DEF EngineFlush
  <2>2. CASE DirectWrite
    <3>1. PICK k \in Keys, v \in Payload, t \in Nat : EngineWrite(k, v, t)
      BY <2>2 DEF DirectWrite
    <3> DEFINE m == MemPut(memtable, k, v, t)
    <3>2. m \in MemTables
      BY <1>1, MemPutType
    <3>3. FlushIfFull(m) \/ UNCHANGED <<level_sst_ids, ssts, next_sst_id>>
      BY <3>1 DEF EngineWrite
    <3> HIDE DEF m
    <3>4. QED
      BY <3>2, <3>3, FlushMovesFiles DEF FilesMove
  <2>3. CASE UNCHANGED engineVars \/ \E t \in Open : CommitSucceeds(t)
    BY <2>3 DEF engineVars, CommitSucceeds, FilesMove
  <2>4. QED
    BY <1>1, <1>2, <2>1, <2>2, <2>3, EngineSteps
<1>3. CASE \E t \in Open : CommitTestFail(t)
  BY <1>3 DEF CommitTestFail, engineVars, FilesMove
<1>4. QED
  BY <1>2, <1>3, SessionIsLSM

\* The directory follows what is open.
LEMMA DirectoryFollows ==
    ASSUME EngineTypeOK, EngineTypeOK', DirectoryInv, FilesMove, FilesFollow
    PROVE  DirectoryInv'
<1> DEFINE built == {id \in DOMAIN ssts' : ssts'[id] # NullSst}
<1>1. files' = [id \in DOMAIN files \cup built |->
                   IF id \in built THEN ssts'[id] ELSE files[id]]
  BY DEF FilesFollow
<1>2. built \subseteq Nat /\ \A id \in built : ssts'[id] \in Table
  BY DEF EngineTypeOK
<1>3. built \subseteq DOMAIN files \cup {next_sst_id}
  <2>1. \A id \in DOMAIN ssts : ssts[id] # NullSst => id \in DOMAIN files
    BY DEF DirectoryInv
  <2>2. CASE UNCHANGED ssts
    BY <2>1, <2>2
  <2>3. CASE \E m \in MemTables : FlushFrom(m)
    <3>1. \A id \in DOMAIN ssts' : id # next_sst_id => id \in DOMAIN ssts /\ ssts'[id] = ssts[id]
      BY <2>3 DEF FlushFrom
    <3>2. QED
      BY <2>1, <3>1
  <2>4. QED
    BY <2>2, <2>3 DEF FilesMove
<1> HIDE DEF built
<1>4. DOMAIN files' = DOMAIN files \cup built
  BY <1>1
<1>5. IsFiniteSet(DOMAIN files')
  <2>1. IsFiniteSet(DOMAIN files \cup {next_sst_id})
    BY FS_AddElement DEF DirectoryInv
  <2>2. DOMAIN files' \subseteq DOMAIN files \cup {next_sst_id}
    BY <1>3, <1>4
  <2>3. QED
    BY <2>1, <2>2, FS_Subset
<1>6. /\ DOMAIN files \subseteq Nat
      /\ files \in [DOMAIN files -> Table \cup {Torn}]
  BY DEF DirectoryInv
<1>7. DOMAIN files' \subseteq Nat
  BY <1>2, <1>4, <1>6
<1>8. files' \in [DOMAIN files' -> Table \cup {Torn}]
  BY <1>1, <1>2, <1>4, <1>6
<1>9. \A id \in built : id \in DOMAIN files' /\ files'[id] = ssts'[id]
  BY <1>1, <1>4
<1>10. QED
  BY <1>5, <1>7, <1>8, <1>9 DEF DirectoryInv, built

-----------------------------------------------------------------------------
(* Types and phases, step by step *)

\* The part of the invariant that is about types and phases.
StateInv == PhaseInv /\ TypeInv /\ DirectoryInv /\ SessionsInv

LEMMA InitState == RecoveryInit => StateInv /\ Serving
<1> SUFFICES ASSUME RecoveryInit PROVE StateInv /\ Serving
  OBVIOUS
<1>1. /\ TypeOK /\ LogInv /\ Init
      /\ DOMAIN activeTrans = {} /\ wal = <<>> /\ tranc_id_file = <<>> /\ unlinked = FALSE
      /\ max_flushed_tranc_id = 0 /\ todo = Idle /\ session = 1
      /\ DOMAIN files = {} /\ files = [id \in {} |-> Torn] /\ DOMAIN ssts = {}
  BY InitType, InitLog DEF RecoveryInit, Init, EngineInit
<1>2. Serving /\ ~Away /\ ~Closing /\ ~Replaying
  BY <1>1 DEF Serving, Away, Closing, Replaying, Idle
<1>3. Counted(memtable)
  <2>1. memtable.frozen_tables = <<>> /\ memtable.frozen_bytes = 0
    BY <1>1 DEF Init, EngineInit, NewMemTable
  <2>2. Weigh(TableSizes, <<>>) = <<>>
    BY DEF Weigh
  <2>3. QED
    BY <2>1, <2>2, TotalEmpty DEF Counted
<1>4. TypeInv
  BY <1>1, <1>3 DEF TypeOK, TypeInv, IdFileOK
<1>5. DirectoryInv
  BY <1>1, FS_EmptySet DEF DirectoryInv
<1>6. SessionsInv
  BY <1>1, <1>2, SessionsBounded DEF SessionsInv, RecordsInv, Idle
<1>7. QED
  BY <1>2, <1>4, <1>5, <1>6 DEF StateInv, PhaseInv

LEMMA StateSession ==
    ASSUME StateInv, SessionCall
    PROVE  StateInv' /\ Serving /\ Serving'
<1>1. Serving
  <2>1. CASE SessionPut \/ SessionCommit
    BY <2>1 DEF SessionPut, SessionCommit, Put, CommitSucceeds, Serving
  <2>2. CASE SessionOther
    <3>1. todo = Idle \/ todo.op = "flush_all"
      BY <2>2 DEF SessionOther, Get, Flush, StartFlushAll, FlushAllTurn, EndFlushAll, BeginTran,
                  TranWrite, CommitFails, CommitTestFail, Abort
    <3>2. QED
      BY <3>1, PhaseOps DEF StateInv, PhaseInv, Serving
  <2>3. QED
    BY <2>1, <2>2 DEF SessionCall
<1>2. LogInv /\ RecordsInv
  BY <1>1 DEF StateInv, SessionsInv
<1>3. TypeInv' /\ Serving' /\ LogInv' /\ RecordsInv'
  BY <1>1, <1>2, SessionTypes, SessionLog DEF StateInv
<1>4. DirectoryInv'
  BY <1>1, <1>3, SessionFiles, DirectoryFollows DEF StateInv, TypeInv, SessionCall
<1>5. UNCHANGED session
  BY DEF SessionCall
<1>6. todo'.op \in {"idle", "flush_all"} /\ ~Away' /\ ~Replaying'
  BY <1>3 DEF Serving, Away, Replaying, Idle
<1>7. SessionsInv'
  BY <1>3, <1>5, <1>6 DEF StateInv, SessionsInv
<1>8. QED
  BY <1>1, <1>3, <1>4, <1>7 DEF StateInv, PhaseInv

LEMMA StateStartClose ==
    ASSUME StateInv, StartClose
    PROVE  StateInv' /\ Closing'
<1>1. /\ Serving /\ Closing' /\ ~Serving' /\ ~Away' /\ ~Replaying' /\ todo'.op = "close"
      /\ UNCHANGED <<engineVars, tranVars, files, session>>
  BY DEF StartClose, Serving, Closing, Away, Replaying, Idle
<1>2. TypeInv'
  BY <1>1 DEF StateInv, TypeInv, EngineTypeOK, Counted, IdFileOK, engineVars, tranVars
<1>3. DirectoryInv'
  BY <1>1 DEF StateInv, DirectoryInv, engineVars
<1>4. LogInv' /\ RecordsInv'
  BY <1>1 DEF StateInv, SessionsInv, LogInv, RecordsInv, tranVars
<1>5. SessionsInv'
  BY <1>1, <1>4 DEF StateInv, SessionsInv
<1>6. QED
  BY <1>1, <1>2, <1>3, <1>5 DEF StateInv, PhaseInv

LEMMA StateCloseTurn ==
    ASSUME StateInv, CloseTurn
    PROVE  StateInv' /\ Closing /\ Closing'
<1>1. /\ Closing /\ Closing' /\ ~Serving' /\ ~Away' /\ ~Replaying' /\ todo'.op = "close"
      /\ UNCHANGED <<nextTransactionId, max_finished_tranc_id, activeTrans, wal, unlinked,
                     session>>
      /\ FlushFrom(memtable) /\ FilesFollow
      /\ max_flushed_tranc_id' = 0
      /\ tranc_id_file' = <<nextTransactionId, 0, max_finished_tranc_id>>
  BY PhaseOps DEF CloseTurn, FlushLoopTurn, EngineFlush, StateInv, PhaseInv, TypeInv, Serving,
                  Closing, Away, Replaying, Idle, Largest, FlushReturns
<1>2. EngineTypeOK /\ memtable \in MemTables /\ Counted(memtable)
  BY DEF StateInv, TypeInv, EngineTypeOK
<1>3. EngineTypeOK' /\ Counted(memtable)'
  <2>1. EngineTypeOK'
    BY <1>1, <1>2, FlushFromType
  <2>2. Counted(memtable')
    BY <1>1, <1>2, FlushIfFullCounted
  <2>3. QED
    BY <2>1, <2>2 DEF Counted
<1>4. TypeInv'
  BY <1>1, <1>3 DEF StateInv, TypeInv, IdFileOK
<1>5. DirectoryInv'
  BY <1>1, <1>2, <1>3, DirectoryFollows DEF StateInv, FilesMove
<1>6. LogInv' /\ RecordsInv'
  BY <1>1 DEF StateInv, SessionsInv, LogInv, RecordsInv
<1>7. SessionsInv'
  BY <1>1, <1>6 DEF StateInv, SessionsInv
<1>8. QED
  BY <1>1, <1>4, <1>5, <1>7 DEF StateInv, PhaseInv

\* A log a step may leave: typed, and without the id 0.
LogTyped(log) == log \in Seq(WalRecords) /\ \A i \in DOMAIN log : log[i].tranc_id # 0

\* What the end of a process leaves, by a close or by a crash.
LEMMA StateGone ==
    ASSUME StateInv, MemoryGone, LogTyped(wal'), IdFileOK', UNCHANGED session,
           DOMAIN files' \subseteq Nat, IsFiniteSet(DOMAIN files'),
           files' \in [DOMAIN files' -> Table \cup {Torn}]
    PROVE  StateInv' /\ Away'
<1>1. /\ memtable' = NewMemTable /\ level_sst_ids' = <<>> /\ DOMAIN ssts' = {}
      /\ ssts' = [id \in {} |-> NullSst]
      /\ next_sst_id' = 0 /\ nextTransactionId' = 1 /\ max_flushed_tranc_id' = 0
      /\ max_finished_tranc_id' = 0 /\ DOMAIN activeTrans' = {} /\ todo' = [op |-> "down"]
      /\ unlinked' = FALSE
  BY DEF MemoryGone, StateInv, TypeInv
<1>2. Away' /\ ~Serving' /\ ~Closing' /\ ~Replaying'
  BY <1>1 DEF Serving, Closing, Away, Replaying, Idle
<1>3. memtable' \in MemTables
  BY <1>1, EmptyTable DEF NewMemTable, MemTables
<1>4. EngineTypeOK'
  BY <1>1, <1>3 DEF EngineTypeOK
<1>5. Counted(memtable)'
  <2>1. memtable'.frozen_tables = <<>> /\ memtable'.frozen_bytes = 0
    BY <1>1 DEF NewMemTable
  <2>2. Weigh(TableSizes, <<>>) = <<>>
    BY DEF Weigh
  <2>3. Counted(memtable')
    BY <2>1, <2>2, TotalEmpty DEF Counted
  <2>4. QED
    BY <2>3 DEF Counted
<1>6. TypeInv'
  BY <1>1, <1>4, <1>5 DEF TypeInv, LogTyped
<1>7. DirectoryInv'
  BY <1>1 DEF DirectoryInv
<1>8. SessionsInv'
  BY <1>1, <1>2 DEF StateInv, SessionsInv
<1>9. QED
  BY <1>2, <1>6, <1>7, <1>8 DEF StateInv, PhaseInv

LEMMA StateEndClose ==
    ASSUME StateInv, EndClose
    PROVE  StateInv' /\ Closing /\ Away'
<1>1. /\ MemoryGone /\ UNCHANGED <<wal, files, session>>
      /\ tranc_id_file' = <<nextTransactionId, max_flushed_tranc_id, max_finished_tranc_id>>
  BY DEF EndClose
<1>2. IdFileOK' /\ LogTyped(wal')
  BY <1>1 DEF StateInv, TypeInv, IdFileOK, LogTyped
<1>3. Closing
  BY PhaseOps DEF EndClose, StateInv, PhaseInv
<1>4. QED
  BY <1>1, <1>2, <1>3, StateGone DEF StateInv, DirectoryInv

LEMMA StateCrash ==
    ASSUME StateInv, Crash
    PROVE  StateInv' /\ Away'
<1>1. MemoryGone /\ UNCHANGED <<wal, files, session, tranc_id_file>>
  BY DEF Crash
<1>2. IdFileOK' /\ LogTyped(wal')
  BY <1>1 DEF StateInv, TypeInv, IdFileOK, LogTyped
<1>3. QED
  BY <1>1, <1>2, StateGone DEF StateInv, DirectoryInv

\* The crash in a commit adds records of its transaction to the log, and no others.
LEMMA CrashLogs ==
    ASSUME StateInv, NEW t \in Open, CrashInCommit(t)
    PROVE  /\ Serving
           /\ \E ops \in Seq(WalRecords) :
                 wal' = wal \o ops /\ \A i \in DOMAIN ops : ops[i].tranc_id = t
<1>1. Serving
  BY DEF CrashInCommit, Serving
<1>2. t \in DOMAIN activeTrans /\ t \in Nat /\ IsTran(activeTrans[t])
  BY DEF Open, StateInv, TypeInv
<1>3. OwnRecords(activeTrans[t].operations, t)
  BY <1>1, <1>2 DEF StateInv, SessionsInv, LogInv
<1> DEFINE all == Append(activeTrans[t].operations, Record(t, "COMMIT"))
<1>4. OwnRecords(all, t) /\ all \in Seq(WalRecords)
  <2>1. /\ Record(t, "COMMIT") \in WalRecords
        /\ Record(t, "COMMIT").tranc_id = t
        /\ Record(t, "COMMIT").op # "CREATE"
    BY <1>2 DEF Record, WalRecords, MarkRecords
  <2>2. activeTrans[t].operations \in Seq(WalRecords)
    BY <1>2 DEF IsTran
  <2>3. QED
    BY <1>3, <2>1, <2>2, OwnRecordsAppend
<1>5. PICK n \in DOMAIN all : wal' = wal \o SubSeq(all, 1, n)
  BY DEF CrashInCommit
<1> HIDE DEF all
<1>6. /\ SubSeq(all, 1, n) \in Seq(WalRecords)
      /\ \A i \in DOMAIN SubSeq(all, 1, n) : i \in DOMAIN all /\ SubSeq(all, 1, n)[i] = all[i]
  BY <1>4, <1>5
<1>7. \A i \in DOMAIN SubSeq(all, 1, n) : SubSeq(all, 1, n)[i].tranc_id = t
  BY <1>4, <1>6 DEF OwnRecords
<1>8. QED
  BY <1>1, <1>5, <1>6, <1>7

LEMMA StateCrashInCommit ==
    ASSUME StateInv, NEW t \in Open, CrashInCommit(t)
    PROVE  StateInv' /\ Away'
<1>1. MemoryGone /\ UNCHANGED <<files, session, tranc_id_file>>
  BY DEF CrashInCommit
<1>2. IdFileOK'
  BY <1>1 DEF StateInv, TypeInv, IdFileOK
<1>3. LogTyped(wal')
  <2>1. wal \in Seq(WalRecords) /\ LogTyped(wal) /\ t # 0
    BY DEF StateInv, TypeInv, LogTyped, Open
  <2>2. PICK ops \in Seq(WalRecords) :
           wal' = wal \o ops /\ \A i \in DOMAIN ops : ops[i].tranc_id = t
    BY CrashLogs
  <2>3. \A i \in DOMAIN (wal \o ops) :
           \/ i \in DOMAIN wal /\ (wal \o ops)[i] = wal[i]
           \/ (wal \o ops)[i].tranc_id = t
    BY <2>1, <2>2, AppendedWrites
  <2>4. wal \o ops \in Seq(WalRecords)
    BY <2>1
  <2>5. QED
    BY <2>1, <2>2, <2>3, <2>4 DEF LogTyped
<1>4. QED
  BY <1>1, <1>2, <1>3, StateGone DEF StateInv, DirectoryInv

LEMMA StateCrashInFlush ==
    ASSUME StateInv, CrashInFlush
    PROVE  StateInv' /\ Away'
<1>1. /\ MemoryGone /\ UNCHANGED <<wal, session, tranc_id_file>>
      /\ files' = [id \in DOMAIN files \cup {next_sst_id} |->
                      IF id = next_sst_id THEN Torn ELSE files[id]]
  BY DEF CrashInFlush
<1>2. IdFileOK' /\ LogTyped(wal')
  BY <1>1 DEF StateInv, TypeInv, IdFileOK, LogTyped
<1>3. next_sst_id \in Nat /\ DirectoryInv
  BY DEF StateInv, TypeInv, EngineTypeOK
<1>4. DOMAIN files' = DOMAIN files \cup {next_sst_id}
  BY <1>1
<1>5. IsFiniteSet(DOMAIN files')
  BY <1>3, <1>4, FS_AddElement DEF DirectoryInv
<1>6. files' \in [DOMAIN files' -> Table \cup {Torn}] /\ DOMAIN files' \subseteq Nat
  BY <1>1, <1>3, <1>4 DEF DirectoryInv
<1>7. QED
  BY <1>1, <1>2, <1>5, <1>6, StateGone

-----------------------------------------------------------------------------
(* The opening *)

\* A descending list of the elements of S.
Descending(ids, S) ==
    /\ ids \in [1..Cardinality(S) -> S]
    /\ \A i, j \in DOMAIN ids : i < j => ids[i] > ids[j]

LEMMA DescendingExists ==
    ASSUME NEW S \in SUBSET Nat, IsFiniteSet(S)
    PROVE  \E ids : Descending(ids, S)
<1> DEFINE Sized(n) == {T \in SUBSET Nat : IsFiniteSet(T) /\ Cardinality(T) = n}
           Good == {n \in Nat : \A T \in Sized(n) : \E ids : Descending(ids, T)}
<1>1. 0 \in Good
  <2> SUFFICES ASSUME NEW T \in Sized(0) PROVE \E ids : Descending(ids, T)
    OBVIOUS
  <2>1. T = {} /\ Cardinality(T) = 0
    BY FS_EmptySet
  <2>2. Descending([i \in {} |-> 0], T)
    BY <2>1 DEF Descending
  <2>3. QED
    BY <2>2
<1>2. ASSUME NEW n \in Nat, n \in Good PROVE n + 1 \in Good
  <2> SUFFICES ASSUME NEW T \in Sized(n + 1) PROVE \E ids : Descending(ids, T)
    BY <1>2
  <2>1. T \in SUBSET Nat /\ IsFiniteSet(T) /\ Cardinality(T) = n + 1
    OBVIOUS
  <2>2. T # {}
    BY <2>1, FS_EmptySet
  <2>3. PICK b \in Nat : \A x \in T : x <= b
    BY <2>1, FiniteBounded
  <2>4. PICK m \in T : \A x \in T : x <= m
    BY <2>1, <2>2, <2>3, GreatestNat
  <2>5. IsFiniteSet(T \ {m}) /\ Cardinality(T \ {m}) = n
    <3>1. IsFiniteSet(T \ {m})
      BY <2>1, FS_RemoveElement
    <3>2. Cardinality(T \ {m}) = Cardinality(T) - 1
      BY <2>1, <2>4, FS_RemoveElement
    <3>3. (n + 1) - 1 = n
      OBVIOUS
    <3>4. QED
      BY <2>1, <3>1, <3>2, <3>3
  <2>6. T \ {m} \in Sized(n)
    BY <2>1, <2>5
  <2>7. PICK ids : Descending(ids, T \ {m})
    BY <1>2, <2>6
  <2>8. ids \in [1..n -> T \ {m}] /\ \A i, j \in 1..n : i < j => ids[i] > ids[j]
    BY <2>5, <2>7 DEF Descending
  <2> DEFINE all == [i \in 1..(n + 1) |-> IF i = 1 THEN m ELSE ids[i - 1]]
  <2>9. \A i \in 1..(n + 1) : i = 1 \/ i - 1 \in 1..n
    OBVIOUS
  <2>10. all \in [1..(n + 1) -> T]
    BY <2>8, <2>9
  <2>11. ASSUME NEW i \in 1..(n + 1), NEW j \in 1..(n + 1), i < j PROVE all[i] > all[j]
    <3>1. j # 1 /\ j - 1 \in 1..n /\ all[j] = ids[j - 1]
      BY <2>9, <2>11
    <3>2. CASE i = 1
      <4>1. ids[j - 1] \in T \ {m}
        BY <2>8, <3>1
      <4>2. ids[j - 1] <= m /\ ids[j - 1] # m /\ ids[j - 1] \in Nat /\ m \in Nat
        BY <2>1, <2>4, <4>1
      <4>3. m > ids[j - 1]
        BY <4>2
      <4>4. QED
        BY <3>1, <3>2, <4>3
    <3>3. CASE i # 1
      <4>1. i - 1 \in 1..n /\ all[i] = ids[i - 1] /\ i - 1 < j - 1
        BY <2>9, <2>11, <3>3
      <4>2. QED
        BY <2>8, <3>1, <4>1
    <3>4. QED
      BY <3>2, <3>3
  <2>12. Descending(all, T)
    <3>1. DOMAIN all = 1..(n + 1)
      OBVIOUS
    <3> HIDE DEF all
    <3>2. QED
      BY <2>1, <2>10, <2>11, <3>1 DEF Descending
  <2>13. QED
    BY <2>12
<1> HIDE DEF Good
<1>3. Nat \subseteq Good
  BY <1>1, <1>2, InductionSet
<1>4. Cardinality(S) \in Good
  BY <1>3, FS_CardinalityType
<1>5. QED
  BY <1>4 DEF Good

LEMMA FoundFiles ==
    ASSUME DirectoryInv
    PROVE  /\ Descending(Found, DOMAIN files)
           /\ Found \in Seq(Nat)
           /\ \A i \in DOMAIN Found : Found[i] \in DOMAIN files
<1>1. DOMAIN files \in SUBSET Nat /\ IsFiniteSet(DOMAIN files)
  BY DEF DirectoryInv
<1>2. \E ids \in [1..Cardinality(DOMAIN files) -> DOMAIN files] :
         \A i, j \in DOMAIN ids : i < j => ids[i] > ids[j]
  BY <1>1, DescendingExists DEF Descending
<1>3. Descending(Found, DOMAIN files)
  BY <1>2 DEF Found, Descending
<1>4. Cardinality(DOMAIN files) \in Nat
  BY <1>1, FS_CardinalityType
<1>5. Found \in [1..Cardinality(DOMAIN files) -> DOMAIN files]
  BY <1>3 DEF Descending
<1>6. QED
  BY <1>1, <1>3, <1>4, <1>5

\* There is a next record, and it is sooner than all others.
LEMMA NextIsSooner ==
    ASSUME wal \in Seq(WalRecords), NEW L \in SUBSET (DOMAIN wal), L # {}, todo.left = L
    PROVE  /\ NextRecord \in L
           /\ \A j \in L \ {NextRecord} : Sooner(NextRecord, j)
<1>1. \A i \in L : i \in Nat /\ wal[i] \in WalRecords
  OBVIOUS
<1>2. \A i \in L : wal[i].tranc_id \in Nat
  BY <1>1 DEF WalRecords, MarkRecords, WriteRecords
<1> DEFINE ids == {wal[i].tranc_id : i \in L}
<1>3. PICK a \in ids : \A b \in ids : a <= b
  <2>1. ids \in SUBSET Nat /\ ids # {}
    BY <1>2
  <2> HIDE DEF ids
  <2>2. QED
    BY <2>1, LeastNat
<1> DEFINE first == {i \in L : wal[i].tranc_id = a}
<1>4. PICK p \in first : \A q \in first : p <= q
  <2>1. first \in SUBSET Nat /\ first # {}
    BY <1>1, <1>3
  <2> HIDE DEF first
  <2>2. QED
    BY <2>1, LeastNat
<1>5. ASSUME NEW j \in L \ {p} PROVE Sooner(p, j)
  <2>1. /\ p \in L /\ wal[p].tranc_id = a /\ wal[j].tranc_id \in ids
        /\ a \in Nat /\ wal[j].tranc_id \in Nat /\ p \in Nat /\ j \in Nat
    BY <1>1, <1>2, <1>3, <1>4
  <2>2. a <= wal[j].tranc_id
    BY <1>3, <2>1
  <2>3. CASE wal[j].tranc_id = a
    <3>1. p <= j
      BY <1>4, <2>3
    <3>2. p < j
      BY <2>1, <3>1
    <3>3. QED
      BY <2>1, <2>3, <3>2 DEF Sooner
  <2>4. CASE wal[j].tranc_id # a
    <3>1. a < wal[j].tranc_id
      BY <2>1, <2>2, <2>4
    <3>2. QED
      BY <2>1, <3>1 DEF Sooner
  <2>5. QED
    BY <2>3, <2>4
<1>6. \E i \in todo.left : \A j \in todo.left \ {i} : Sooner(i, j)
  BY <1>4, <1>5
<1>7. QED
  BY <1>6 DEF NextRecord

\* A record that writes has what it writes.
LEMMA WriteRecordType ==
    ASSUME NEW r \in WalRecords
    PROVE  /\ r.tranc_id \in Nat
           /\ r.op \in {"PUT", "DELETE"} => r.key \in Keys /\ r.value \in Payload
<1>1. CASE r \in WriteRecords
  BY <1>1 DEF WriteRecords
<1>2. CASE r \in MarkRecords
  BY <1>2 DEF MarkRecords
<1>3. QED
  BY <1>1, <1>2 DEF WalRecords

LEMMA StateOpenFails ==
    ASSUME StateInv, OpenFails
    PROVE  StateInv' /\ Away /\ Away'
<1>1. /\ Away /\ Away' /\ ~Serving' /\ ~Closing' /\ ~Replaying' /\ todo'.op = "failed"
      /\ UNCHANGED <<engineVars, tranVars, files, session>>
  BY PhaseOps DEF OpenFails, StateInv, PhaseInv, Away, Serving, Closing, Replaying, Idle
<1>2. TypeInv'
  BY <1>1 DEF StateInv, TypeInv, EngineTypeOK, Counted, IdFileOK, engineVars, tranVars
<1>3. DirectoryInv'
  BY <1>1 DEF StateInv, DirectoryInv, engineVars
<1>4. DOMAIN activeTrans = {}
  BY <1>1, PhaseOps DEF StateInv, SessionsInv
<1>5. SessionsInv'
  BY <1>1, <1>4 DEF StateInv, SessionsInv, engineVars, tranVars
<1>6. QED
  BY <1>1, <1>2, <1>3, <1>5 DEF StateInv, PhaseInv

LEMMA StateStartOpen ==
    ASSUME StateInv, StartOpen
    PROVE  /\ StateInv' /\ Away /\ Replaying' /\ ~Serving' /\ ~Closing' /\ ~Away'
           /\ todo'.left = DOMAIN wal /\ UNCHANGED wal
<1>1. /\ Away /\ DOMAIN activeTrans = {}
      /\ memtable = NewMemTable /\ level_sst_ids = <<>> /\ next_sst_id = 0
  BY PhaseOps DEF StartOpen, StateInv, PhaseInv, SessionsInv
<1>2. \A i \in DOMAIN wal : wal[i].tranc_id > 0
  <2>1. \A i \in DOMAIN wal : wal[i].tranc_id \in Nat /\ wal[i].tranc_id # 0
    BY WriteRecordType DEF StateInv, TypeInv
  <2>2. QED
    BY <2>1
<1>3. PICK a \in Nat \ {0}, c \in Nat : tranc_id_file = <<a, 0, c>>
  BY DEF StartOpen, StateInv, TypeInv, IdFileOK
<1>4. tranc_id_file[1] = a /\ tranc_id_file[2] = 0 /\ tranc_id_file[3] = c
  BY <1>3
<1>5. Recover(0) = DOMAIN wal
  BY <1>2 DEF Recover
<1>6. /\ ssts' = files /\ level_sst_ids' = Found /\ nextTransactionId' = a
      /\ max_flushed_tranc_id' = 0 /\ max_finished_tranc_id' = c
      /\ todo' = [op |-> "recover", left |-> DOMAIN wal]
      /\ session < MaxSession
      /\ \A id \in DOMAIN files : files[id] # Torn
      /\ UNCHANGED <<memtable, next_sst_id, activeTrans, wal, tranc_id_file, unlinked, files,
                     session>>
  BY <1>4, <1>5 DEF StartOpen
<1>7. /\ Replaying' /\ ~Serving' /\ ~Closing' /\ ~Away' /\ todo'.op = "recover"
      /\ todo'.left = DOMAIN wal
  BY <1>6 DEF Serving, Closing, Away, Replaying, Idle
<1>8. files \in [DOMAIN files -> Table]
  BY <1>6 DEF StateInv, DirectoryInv
<1>9. EngineTypeOK'
  <2>1. Found \in Seq(Nat) /\ \A i \in DOMAIN Found : Found[i] \in DOMAIN files
    BY FoundFiles DEF StateInv
  <2>2. memtable' \in MemTables /\ next_sst_id' \in Nat
    BY <1>6 DEF StateInv, TypeInv, EngineTypeOK
  <2>3. DOMAIN ssts' \subseteq Nat
    BY <1>6 DEF StateInv, DirectoryInv
  <2>4. QED
    BY <1>6, <1>8, <2>1, <2>2, <2>3 DEF EngineTypeOK
<1>10. TypeInv'
  <2>1. Counted(memtable)'
    BY <1>6 DEF StateInv, TypeInv, Counted
  <2>2. QED
    BY <1>6, <1>9, <2>1 DEF StateInv, TypeInv, IdFileOK
<1>11. DirectoryInv'
  BY <1>6 DEF StateInv, DirectoryInv
<1>12. SessionsInv'
  BY <1>1, <1>6, <1>7 DEF StateInv, SessionsInv
<1>13. QED
  BY <1>1, <1>6, <1>7, <1>10, <1>11, <1>12 DEF StateInv, PhaseInv

\* What one turn of the replay does.
LEMMA ReplayTurn ==
    ASSUME StateInv, RecoverTurn
    PROVE  /\ Replaying /\ todo.left # {} /\ NextRecord \in todo.left
           /\ NextRecord \in DOMAIN wal /\ wal[NextRecord] \in WalRecords
           /\ todo' = [op |-> "recover", left |-> todo.left \ {NextRecord}]
           /\ UNCHANGED <<nextTransactionId, max_flushed_tranc_id, activeTrans, wal,
                          tranc_id_file, unlinked, session>>
           /\ FilesFollow
           /\ max_finished_tranc_id' \in Nat
<1>1. Replaying /\ todo.left # {}
  BY PhaseOps DEF RecoverTurn, StateInv, PhaseInv
<1>2. NextRecord \in todo.left /\ todo.left \subseteq DOMAIN wal /\ wal \in Seq(WalRecords)
  <2>1. todo.left \in SUBSET (DOMAIN wal) /\ wal \in Seq(WalRecords)
    BY <1>1, PhaseOps DEF StateInv, TypeInv
  <2>2. QED
    BY <1>1, <2>1, NextIsSooner
<1>3. NextRecord \in DOMAIN wal /\ wal[NextRecord] \in WalRecords
  BY <1>2, ElementsOf
<1>4. todo' = [op |-> "recover", left |-> todo.left \ {NextRecord}]
  <2>1. todo' = [todo EXCEPT !.left = todo.left \ {NextRecord}]
    BY DEF RecoverTurn
  <2>2. todo = [op |-> "recover", left |-> todo.left]
    BY <1>1 DEF Replaying
  <2>3. QED
    BY <2>1, <2>2
<1>5. max_finished_tranc_id' \in Nat
  <2>1. wal[NextRecord].tranc_id \in Nat
    BY <1>3, WriteRecordType
  <2>2. max_finished_tranc_id' = Largest(max_finished_tranc_id, wal[NextRecord].tranc_id)
    BY DEF RecoverTurn
  <2>3. QED
    BY <2>1, <2>2 DEF Largest, StateInv, TypeInv
<1>6. QED
  BY <1>1, <1>2, <1>3, <1>4, <1>5 DEF RecoverTurn

\* The engine, in one turn of the replay.
LEMMA ReplayEngine ==
    ASSUME StateInv, RecoverTurn
    PROVE  \/ /\ wal[NextRecord].op \notin {"PUT", "DELETE"}
              /\ UNCHANGED engineVars
           \/ /\ wal[NextRecord].op \in {"PUT", "DELETE"}
              /\ wal[NextRecord].key \in Keys /\ wal[NextRecord].value \in Payload
              /\ wal[NextRecord].tranc_id \in Nat
              /\ Replayed \in MemTables /\ Counted(Replayed)
              /\ FlushIfFull(Replayed)
<1>1. wal[NextRecord] \in WalRecords
  BY ReplayTurn
<1>2. memtable \in MemTables /\ Counted(memtable)
  BY DEF StateInv, TypeInv, EngineTypeOK
<1>3. ASSUME wal[NextRecord].op \in {"PUT", "DELETE"}
      PROVE  /\ wal[NextRecord].key \in Keys /\ wal[NextRecord].value \in Payload
             /\ wal[NextRecord].tranc_id \in Nat
             /\ Replayed \in MemTables /\ Counted(Replayed)
  <2>1. /\ wal[NextRecord].key \in Keys /\ wal[NextRecord].value \in Payload
        /\ wal[NextRecord].tranc_id \in Nat
    BY <1>1, <1>3, WriteRecordType
  <2>2. QED
    BY <1>2, <2>1, MemPutType, PutCounted DEF Replayed
<1>4. QED
  BY <1>3 DEF RecoverTurn

LEMMA StateRecoverTurn ==
    ASSUME StateInv, RecoverTurn
    PROVE  StateInv' /\ Replaying /\ Replaying' /\ ~Serving' /\ ~Closing' /\ ~Away'
<1>1. /\ todo' = [op |-> "recover", left |-> todo.left \ {NextRecord}]
      /\ UNCHANGED <<nextTransactionId, max_flushed_tranc_id, activeTrans, wal,
                     tranc_id_file, unlinked, session>>
      /\ Replaying
      /\ FilesFollow
      /\ max_finished_tranc_id' \in Nat
  BY ReplayTurn
<1>2. Replaying' /\ ~Serving' /\ ~Closing' /\ ~Away' /\ todo'.op = "recover"
  BY <1>1 DEF Serving, Closing, Away, Replaying, Idle
<1>3. EngineTypeOK /\ Counted(memtable)
  BY DEF StateInv, TypeInv
<1>4. EngineTypeOK' /\ Counted(memtable') /\ FilesMove
  <2>1. CASE UNCHANGED engineVars
    BY <1>3, <2>1 DEF engineVars, EngineTypeOK, FilesMove
  <2>2. CASE Replayed \in MemTables /\ Counted(Replayed) /\ FlushIfFull(Replayed)
    <3> DEFINE m == Replayed
    <3>1. m \in MemTables /\ Counted(m) /\ FlushIfFull(m)
      BY <2>2
    <3> HIDE DEF m
    <3>2. QED
      BY <1>3, <3>1, FlushIfFullType, FlushIfFullCounted, FlushMovesFiles DEF FlushIfFull
  <2>3. QED
    BY <2>1, <2>2, ReplayEngine
<1>5. TypeInv'
  <2>1. Counted(memtable)'
    BY <1>4 DEF Counted
  <2>2. QED
    BY <1>1, <1>4, <2>1 DEF StateInv, TypeInv, IdFileOK
<1>6. DirectoryInv'
  BY <1>1, <1>3, <1>4, DirectoryFollows DEF StateInv
<1>7. SessionsInv'
  BY <1>1, <1>2, PhaseOps DEF StateInv, SessionsInv
<1>8. QED
  BY <1>1, <1>2, <1>5, <1>6, <1>7 DEF StateInv, PhaseInv

LEMMA StateEndOpen ==
    ASSUME StateInv, EndOpen
    PROVE  StateInv' /\ Replaying /\ Serving' /\ session' = session + 1
<1>1. /\ Replaying /\ DOMAIN activeTrans = {} /\ session < MaxSession /\ session \in 1..MaxSession
  BY PhaseOps DEF EndOpen, StateInv, PhaseInv, SessionsInv
<1>2. /\ wal' = <<>> /\ todo' = Idle /\ session' = session + 1
      /\ UNCHANGED <<engineVars, nextTransactionId, max_flushed_tranc_id,
                     max_finished_tranc_id, activeTrans, tranc_id_file, unlinked, files>>
  BY DEF EndOpen
<1>3. Serving' /\ ~Closing' /\ ~Away' /\ ~Replaying' /\ todo'.op = "idle"
  BY <1>2 DEF Serving, Closing, Away, Replaying, Idle
<1>4. TypeInv'
  BY <1>2 DEF StateInv, TypeInv, EngineTypeOK, Counted, IdFileOK, engineVars
<1>5. DirectoryInv'
  BY <1>2 DEF StateInv, DirectoryInv, engineVars
<1>6. LogInv' /\ RecordsInv'
  BY <1>1, <1>2 DEF LogInv, RecordsInv
<1>7. session' \in 1..MaxSession
  BY <1>1, <1>2, SessionsBounded
<1>8. SessionsInv'
  BY <1>3, <1>6, <1>7 DEF SessionsInv
<1>9. QED
  BY <1>1, <1>2, <1>3, <1>4, <1>5, <1>8 DEF StateInv, PhaseInv

\* Types and phases are kept by every step.
LEMMA StateStep ==
    ASSUME StateInv, [RecoveryNext]_recoveryVars
    PROVE  StateInv'
<1>1. CASE UNCHANGED recoveryVars
  <2>1. /\ UNCHANGED <<memtable, level_sst_ids, ssts, next_sst_id, nextTransactionId,
                       max_flushed_tranc_id, max_finished_tranc_id, activeTrans, wal,
                       tranc_id_file, unlinked, todo, files, session>>
    BY <1>1 DEF recoveryVars, vars, engineVars, tranVars
  <2>2. PhaseInv'
    BY <2>1 DEF StateInv, PhaseInv, Serving, Closing, Away, Replaying
  <2>3. TypeInv'
    BY <2>1 DEF StateInv, TypeInv, EngineTypeOK, Counted, IdFileOK
  <2>4. DirectoryInv'
    BY <2>1 DEF StateInv, DirectoryInv
  <2>5. LogInv /\ RecordsInv => LogInv' /\ RecordsInv'
    BY <2>1 DEF LogInv, RecordsInv
  <2>6. SessionsInv'
    BY <2>1, <2>5 DEF StateInv, SessionsInv, Serving, Closing, Away, Replaying
  <2>7. QED
    BY <2>2, <2>3, <2>4, <2>6 DEF StateInv
<1>2. CASE SessionCall
  BY <1>2, StateSession
<1>3. CASE Ending
  BY <1>3, StateStartClose, StateCloseTurn, StateEndClose, StateCrash, StateCrashInCommit,
     StateCrashInFlush DEF Ending
<1>4. CASE Opening
  BY <1>4, StateOpenFails, StateStartOpen, StateRecoverTurn, StateEndOpen DEF Opening
<1>5. QED
  BY <1>1, <1>2, <1>3, <1>4 DEF RecoveryNext

-----------------------------------------------------------------------------
(* What is kept *)

\* A flush takes the oldest table out of memory, and nothing else.
LEMMA FlushSplits ==
    ASSUME NEW m \in MemTables, ~NothingToFlush(m), NEW n \in VersionsIn(m)
    PROVE  n \in VersionsIn(AfterFlush(m)) \/ n \in FlushedTable(m)
<1> DEFINE f == FreezeForFlush(m)
           a == TablesOf(AfterFlush(m))
           T == FlushedTable(m)
           b == TablesOf(f)
<1>1. n \in VersionsIn(f)
  BY FrozenCurTableKeeps DEF FreezeForFlush
<1>2. a \in Seq(Table) /\ T \in Table /\ b \in Seq(Table)
  BY AfterFlushType, FlushedTableType, FreezeForFlushType, TablesOfType
<1>3. a \o (<<T>> \o <<>>) = b \o <<>>
  <2>1. <<>> \in Seq(Table)
    OBVIOUS
  <2>2. QED
    BY <2>1, FlushMoves
<1>4. PICK i \in DOMAIN b : n \in b[i]
  BY <1>1 DEF VersionsIn
<1>5. n \in VersionsIn(AfterFlush(m)) <=> \E j \in DOMAIN a : n \in a[j]
  BY DEF VersionsIn
<1> HIDE DEF a, b, T, f
<1>6. a \o <<T>> = b
  BY <1>2, <1>3
<1>7. CASE i \in DOMAIN a
  <2>1. b[i] = a[i]
    BY <1>2, <1>6, <1>7
  <2>2. QED
    BY <1>4, <1>5, <1>7, <2>1
<1>8. CASE i \notin DOMAIN a
  <2>1. b[i] = T
    BY <1>2, <1>4, <1>6, <1>8
  <2>2. QED
    BY <1>4, <2>1 DEF T
<1>9. QED
  BY <1>7, <1>8

\* A version that was in the memtable, or in a file of this session.
KeptIn(m, n) ==
    \/ n \in VersionsIn(m)
    \/ \E id \in DOMAIN ssts : Made(id) /\ n \in ssts[id]

LEMMA FlushKeeps ==
    ASSUME EngineTypeOK, NEW m \in MemTables, FlushFrom(m), NEW n, KeptIn(m, n)
    PROVE  Kept(n)'
<1>1. /\ next_sst_id \in Nat /\ next_sst_id' = next_sst_id + 1 /\ memtable' = AfterFlush(m)
      /\ ssts' = [id \in DOMAIN ssts \cup {next_sst_id} |->
                    IF id # next_sst_id THEN ssts[id]
                    ELSE IF NothingToFlush(m) THEN NullSst ELSE FlushedTable(m)]
  BY DEF FlushFrom, EngineTypeOK
<1>2. CASE n \in VersionsIn(m)
  <2>1. CASE NothingToFlush(m)
    BY <1>1, <1>2, <2>1 DEF AfterFlush, Kept
  <2>2. CASE ~NothingToFlush(m) /\ n \in VersionsIn(AfterFlush(m))
    BY <1>1, <2>2 DEF Kept
  <2>3. CASE ~NothingToFlush(m) /\ n \in FlushedTable(m)
    <3>1. FlushedTable(m) # NullSst
      BY <2>3, FlushedTableType, MarksAssumption
    <3>2. /\ next_sst_id \in DOMAIN ssts' /\ ssts'[next_sst_id] = FlushedTable(m)
          /\ next_sst_id < next_sst_id'
      BY <1>1, <2>3
    <3>3. QED
      BY <2>3, <3>1, <3>2 DEF Kept, Made
  <2>4. QED
    BY <1>2, <2>1, <2>2, <2>3, FlushSplits
<1>3. CASE \E id \in DOMAIN ssts : Made(id) /\ n \in ssts[id]
  <2>1. PICK id \in DOMAIN ssts : Made(id) /\ n \in ssts[id]
    BY <1>3
  <2>2. id < next_sst_id /\ id \in Nat /\ ssts[id] # NullSst
    BY <2>1 DEF Made, EngineTypeOK
  <2>3. id # next_sst_id /\ id < next_sst_id'
    BY <1>1, <2>2
  <2>4. id \in DOMAIN ssts' /\ ssts'[id] = ssts[id]
    BY <1>1, <2>1, <2>3
  <2>5. QED
    BY <2>1, <2>2, <2>3, <2>4 DEF Kept, Made
<1>4. QED
  BY <1>2, <1>3 DEF KeptIn

LEMMA FlushIfFullKeeps ==
    ASSUME EngineTypeOK, NEW m \in MemTables, FlushIfFull(m), NEW n, KeptIn(m, n)
    PROVE  Kept(n)'
<1>1. CASE FlushFrom(m)
  BY <1>1, FlushKeeps
<1>2. CASE memtable' = m /\ UNCHANGED <<level_sst_ids, ssts, next_sst_id>>
  BY <1>2 DEF KeptIn, Kept, Made
<1>3. QED
  BY <1>1, <1>2 DEF FlushIfFull

\* A commit leaves the versions of other keys and ids, and has its own.
LEMMA PutAllKeeps ==
    ASSUME NEW m \in MemTables, NEW D \in SUBSET Keys, IsFiniteSet(D),
           NEW map \in [D -> Payload], NEW t \in Nat
    PROVE  /\ \A n \in VersionsIn(m) :
                 ~(n.key \in D /\ n.tranc_id = t) => n \in VersionsIn(MemPutAll_(m, map, t))
           /\ \A k \in D : Node(k, map[k], t) \in VersionsIn(MemPutAll_(m, map, t))
<1> DEFINE w == MemPutAll_(m, map, t)
<1>1. w \in MemTables
  BY MemPutAll_Type
<1>2. /\ w.frozen_tables = m.frozen_tables
      /\ w.current_table = {n \in m.current_table : ~(n.key \in DOMAIN map /\ n.tranc_id = t)}
                              \cup {Node(k, map[k], t) : k \in DOMAIN map}
  BY DEF MemPutAll_, MemTables
<1>3. DOMAIN map = D
  OBVIOUS
<1> HIDE DEF w
<1>4. QED
  BY <1>1, <1>2, <1>3, VersionsInParts DEF w

\* So does a put.
LEMMA PutKeeps ==
    ASSUME NEW m \in MemTables, NEW k \in Keys, NEW v \in Payload, NEW t \in Nat
    PROVE  /\ \A n \in VersionsIn(m) :
                 ~(n.key = k /\ n.tranc_id = t) => n \in VersionsIn(MemPut(m, k, v, t))
           /\ Node(k, v, t) \in VersionsIn(MemPut(m, k, v, t))
<1> DEFINE map == [j \in {k} |-> v]
           w == MemPut_(m, k, v, t)
<1>1. w = MemPutAll_(m, map, t) /\ w \in MemTables
  BY MemPut_IsMemPutAll_, MemPut_Type
<1>2. /\ \A n \in VersionsIn(m) : ~(n.key \in {k} /\ n.tranc_id = t) => n \in VersionsIn(w)
      /\ Node(k, map[k], t) \in VersionsIn(w)
  <2>1. {k} \in SUBSET Keys /\ IsFiniteSet({k}) /\ map \in [{k} -> Payload]
    BY FS_Singleton
  <2> HIDE DEF map, w
  <2>2. QED
    BY <1>1, <2>1, PutAllKeeps
<1>3. map[k] = v
  OBVIOUS
<1>4. VersionsIn(FrozenCurTable(w)) = VersionsIn(w)
  BY <1>1, FrozenCurTableKeeps
<1>5. MemPut(m, k, v, t) \in {w, FrozenCurTable(w)}
  BY DEF MemPut
<1> HIDE DEF map, w
<1>6. QED
  BY <1>2, <1>3, <1>4, <1>5

-----------------------------------------------------------------------------
(* What is logged *)

LEMMA LogShowsKept ==
    ASSUME NEW log \in Seq(WalRecords), NEW ops \in Seq(WalRecords), NEW t,
           \A i \in DOMAIN log : log[i].tranc_id # t,
           \A i \in DOMAIN ops : ops[i].tranc_id = t,
           NEW n, LogShows(log, n)
    PROVE  LogShows(log \o ops, n)
<1> DEFINE all == log \o ops
<1>1. PICK j \in DOMAIN log :
         /\ WritesTo(log[j], n.key, n.tranc_id)
         /\ log[j].value = n.value
         /\ \A i \in DOMAIN log : WritesTo(log[i], n.key, n.tranc_id) => i <= j
  BY DEF LogShows
<1>2. n.tranc_id # t
  BY <1>1 DEF WritesTo
<1>3. \A i \in DOMAIN all : (i \in DOMAIN log /\ all[i] = log[i]) \/ all[i].tranc_id = t
  BY AppendedWrites
<1>4. j \in DOMAIN all /\ all[j] = log[j]
  BY <1>1
<1> HIDE DEF all
<1>5. \A i \in DOMAIN all : WritesTo(all[i], n.key, n.tranc_id) => i <= j
  BY <1>1, <1>2, <1>3 DEF WritesTo
<1>6. LogShows(all, n)
  BY <1>1, <1>4, <1>5 DEF LogShows
<1>7. QED
  BY <1>6 DEF all

\* The writes of a commit are in the records it appends.
LEMMA LogShowsCommit ==
    ASSUME NEW log \in Seq(WalRecords), NEW ops \in Seq(WalRecords), NEW t,
           \A i \in DOMAIN log : log[i].tranc_id # t,
           \A i \in DOMAIN ops : ops[i].tranc_id = t,
           NEW map, Matches(ops, map), NEW k \in DOMAIN map
    PROVE  LogShows(log \o ops, Node(k, map[k], t))
<1> DEFINE all == log \o ops
           n   == Node(k, map[k], t)
<1>1. PICK j \in DOMAIN ops : /\ WritesKey(ops[j], k) /\ ops[j].value = map[k]
                              /\ \A i \in DOMAIN ops : WritesKey(ops[i], k) => i <= j
  BY DEF Matches
<1>2. n.key = k /\ n.value = map[k] /\ n.tranc_id = t
  BY DEF Node
<1>3. /\ Len(log) + j \in DOMAIN all
      /\ all[Len(log) + j] = ops[j]
      /\ \A i \in DOMAIN all : \/ i \in DOMAIN log /\ all[i] = log[i]
                               \/ /\ i - Len(log) \in DOMAIN ops
                                  /\ all[i] = ops[i - Len(log)]
      /\ DOMAIN all \subseteq Nat /\ Len(log) \in Nat /\ j \in Nat
      /\ DOMAIN log = 1..Len(log)
  OBVIOUS
<1> HIDE DEF all, n
<1>4. ASSUME NEW i \in DOMAIN all, WritesTo(all[i], k, t) PROVE i <= Len(log) + j
  <2>1. CASE i \in DOMAIN log /\ all[i] = log[i]
    BY <1>4, <2>1 DEF WritesTo
  <2>2. CASE i - Len(log) \in DOMAIN ops /\ all[i] = ops[i - Len(log)]
    <3>1. WritesKey(ops[i - Len(log)], k)
      BY <1>4, <2>2 DEF WritesTo, WritesKey
    <3>2. i - Len(log) <= j
      BY <1>1, <2>2, <3>1
    <3>3. i \in Nat /\ Len(log) \in Nat /\ j \in Nat
      BY <1>3
    <3>4. QED
      BY <3>2, <3>3
  <2>3. QED
    BY <1>3, <2>1, <2>2
<1>5. WritesTo(all[Len(log) + j], k, t)
  BY <1>1, <1>3 DEF WritesTo, WritesKey
<1>6. LogShows(all, n)
  BY <1>1, <1>2, <1>3, <1>4, <1>5 DEF LogShows
<1>7. QED
  BY <1>6 DEF all, n

\* The records of a commit, and that none of its id came before.
LEMMA CommitLogs ==
    ASSUME StateInv, Serving, NEW t \in Open,
           \/ CommitSucceeds(t) \/ CommitTestFail(t)
    PROVE  \E ops \in Seq(WalRecords) :
              /\ wal' = wal \o ops
              /\ \A i \in DOMAIN ops : ops[i].tranc_id = t
              /\ \A i \in DOMAIN wal : wal[i].tranc_id # t
              /\ Matches(ops, activeTrans[t].temp_map)
<1> DEFINE old == activeTrans[t].operations
           ops == Append(old, Record(t, "COMMIT"))
<1>1. TypeOK /\ ~unlinked /\ LogInv /\ RecordsInv
  BY ServingType DEF StateInv, TypeInv, SessionsInv
<1>2. t \in DOMAIN activeTrans /\ t \in Nat /\ old \in Seq(WalRecords)
  BY <1>1 DEF Open, TypeOK, IsTran
<1>3. wal' = wal \o ops
  BY <1>1 DEF CommitSucceeds, CommitTestFail
<1>4. OwnRecords(old, t) /\ Matches(old, activeTrans[t].temp_map)
  BY <1>1, <1>2 DEF LogInv, RecordsInv
<1>5. /\ Record(t, "COMMIT") \in WalRecords
      /\ Record(t, "COMMIT").tranc_id = t
      /\ Record(t, "COMMIT").op # "CREATE"
  BY <1>2 DEF Record, WalRecords, MarkRecords
<1> HIDE DEF old
<1>6. OwnRecords(ops, t) /\ ops \in Seq(WalRecords) /\ Matches(ops, activeTrans[t].temp_map)
  BY <1>2, <1>4, <1>5, OwnRecordsAppend, MatchesMark
<1> HIDE DEF ops
<1>7. \A i \in DOMAIN wal : wal[i].tranc_id # t
  BY <1>1, OpenUnlogged
<1>8. \A i \in DOMAIN ops : ops[i].tranc_id = t
  BY <1>6 DEF OwnRecords
<1>9. QED
  BY <1>3, <1>6, <1>7, <1>8

\* What the log shows it goes on showing in a session.
LEMMA SessionLogged ==
    ASSUME StateInv, SessionCall, NEW n, LogShows(wal, n)
    PROVE  LogShows(wal', n)
<1>1. Serving /\ wal \in Seq(WalRecords)
  BY StateSession DEF StateInv, TypeInv
<1>2. CASE UNCHANGED wal
  BY <1>2
<1>3. ASSUME NEW t \in Open, CommitSucceeds(t) \/ CommitTestFail(t) PROVE LogShows(wal', n)
  <2>1. PICK ops \in Seq(WalRecords) :
              /\ wal' = wal \o ops
              /\ \A i \in DOMAIN ops : ops[i].tranc_id = t
              /\ \A i \in DOMAIN wal : wal[i].tranc_id # t
    BY <1>1, <1>3, CommitLogs
  <2>2. QED
    BY <1>1, <2>1, LogShowsKept
<1>4. UNCHANGED wal \/ \E t \in Open : CommitSucceeds(t) \/ CommitTestFail(t)
  BY DEF SessionCall, SessionPut, SessionCommit, SessionOther, Put, Get, Flush, StartFlushAll,
         FlushAllTurn, FlushLoopTurn, EndFlushAll, BeginTran, TranWrite, CommitFails, Abort,
         tranVars
<1>5. QED
  BY <1>2, <1>3, <1>4

-----------------------------------------------------------------------------
(* What is owed, in a session *)

LEMMA Acknowledged ==
    ASSUME NEW map, NEW t, NEW by, Acknowledge(map, t, by), NEW w \in owed'
    PROVE  \/ /\ w \in owed
              /\ w.session = session => ~(w.node.key \in DOMAIN map /\ w.node.tranc_id = t)
           \/ \E k \in DOMAIN map :
                 w.node = Node(k, map[k], t) /\ w.by = by /\ w.session = session
BY DEF Acknowledge, Owed

\* A put keeps what was kept and keeps what it writes.
LEMMA PutOwed ==
    ASSUME StateInv, OwedInv, SessionCall, SessionPut
    PROVE  OwedType' /\ OwedKept' /\ OwedLogged'
<1>1. /\ Serving /\ Serving' /\ session' = session /\ session \in 1..MaxSession
      /\ EngineTypeOK /\ memtable \in MemTables /\ nextTransactionId \in Nat
  BY StateSession DEF StateInv, TypeInv, SessionsInv, EngineTypeOK, SessionCall
<1>2. PICK k \in Keys, v \in Payload :
         Put(k, v) /\ Acknowledge([j \in {k} |-> v], nextTransactionId, "put")
  BY DEF SessionPut
<1> DEFINE t == nextTransactionId
           m == MemPut(memtable, k, v, t)
<1>3. FlushIfFull(m) /\ m \in MemTables
  BY <1>1, <1>2, MemPutType DEF Put, EnginePut
<1>4. /\ \A n \in VersionsIn(memtable) : ~(n.key = k /\ n.tranc_id = t) => n \in VersionsIn(m)
      /\ Node(k, v, t) \in VersionsIn(m)
  BY <1>1, PutKeeps
<1> HIDE DEF m
<1>5. ASSUME NEW w \in owed'
      PROVE  \/ /\ w \in owed
                /\ w.session = session => ~(w.node.key = k /\ w.node.tranc_id = t)
             \/ w.node = Node(k, v, t) /\ w.by = "put" /\ w.session = session
  <2> DEFINE map == [j \in {k} |-> v]
  <2>1. DOMAIN map = {k} /\ map[k] = v
    OBVIOUS
  <2>2. Acknowledge(map, t, "put")
    BY <1>2
  <2> HIDE DEF map
  <2>3. QED
    BY <1>5, <2>1, <2>2, Acknowledged
<1>6. Node(k, v, t) \in Version
  BY <1>1, NodeType
<1>7. OwedType'
  BY <1>1, <1>5, <1>6 DEF OwedInv, OwedType
<1>8. ASSUME NEW w \in owed', w.session = session PROVE Kept(w.node)'
  <2>1. KeptIn(m, w.node)
    <3>1. CASE w \in owed /\ ~(w.node.key = k /\ w.node.tranc_id = t)
      BY <1>1, <1>4, <1>8, <3>1 DEF OwedInv, OwedKept, Kept, KeptIn
    <3>2. CASE w.node = Node(k, v, t)
      BY <1>4, <3>2 DEF KeptIn
    <3>3. QED
      BY <1>5, <1>8, <3>1, <3>2
  <2>2. QED
    BY <1>1, <1>3, <2>1, FlushIfFullKeeps
<1>9. ASSUME NEW w \in owed', w.session = session, w.by = "commit" PROVE LogShows(wal', w.node)
  <2>1. w \in owed
    BY <1>5, <1>9
  <2>2. LogShows(wal, w.node)
    BY <1>9, <2>1 DEF OwedInv, OwedLogged
  <2>3. QED
    BY <2>2, SessionLogged
<1>10. QED
  BY <1>1, <1>7, <1>8, <1>9 DEF OwedKept, OwedLogged

\* So does a commit, and the log shows what it writes.
LEMMA CommitOwed ==
    ASSUME StateInv, OwedInv, SessionCall, SessionCommit
    PROVE  OwedType' /\ OwedKept' /\ OwedLogged'
<1>1. /\ Serving /\ Serving' /\ session' = session /\ session \in 1..MaxSession
      /\ TypeOK /\ memtable \in MemTables
  BY StateSession, ServingType DEF StateInv, TypeInv, SessionsInv, EngineTypeOK, SessionCall
<1>2. PICK t \in Open : CommitSucceeds(t) /\ Acknowledge(activeTrans[t].temp_map, t, "commit")
  BY DEF SessionCommit
<1> DEFINE map == activeTrans[t].temp_map
           D   == DOMAIN map
<1>3. t \in Nat /\ t \in DOMAIN activeTrans /\ IsTran(activeTrans[t])
  BY <1>1 DEF Open, TypeOK
<1>4. D \in SUBSET Keys /\ IsFiniteSet(D) /\ map \in [D -> Payload]
  BY <1>3 DEF IsTran, IsMap
<1>5. /\ memtable' = MemPutAll_(memtable, map, t)
      /\ UNCHANGED <<level_sst_ids, ssts, next_sst_id>>
      /\ Acknowledge(map, t, "commit")
  BY <1>2 DEF CommitSucceeds
<1>6. PICK ops \in Seq(WalRecords) :
         /\ wal' = wal \o ops
         /\ \A i \in DOMAIN ops : ops[i].tranc_id = t
         /\ \A i \in DOMAIN wal : wal[i].tranc_id # t
         /\ Matches(ops, map)
  BY <1>1, <1>2, CommitLogs
<1>7. wal \in Seq(WalRecords)
  BY <1>1 DEF TypeOK
<1> HIDE DEF map
<1>8. ASSUME NEW w \in owed'
      PROVE  \/ w \in owed /\ (w.session = session => ~(w.node.key \in D /\ w.node.tranc_id = t))
             \/ \E k \in D : w.node = Node(k, map[k], t) /\ w.by = "commit" /\ w.session = session
  BY <1>5, <1>8, Acknowledged
<1>9. /\ \A n \in VersionsIn(memtable) :
            ~(n.key \in D /\ n.tranc_id = t) => n \in VersionsIn(memtable')
      /\ \A k \in D : Node(k, map[k], t) \in VersionsIn(memtable')
  <2> HIDE DEF D
  <2>1. /\ \A n \in VersionsIn(memtable) :
              ~(n.key \in D /\ n.tranc_id = t) => n \in VersionsIn(MemPutAll_(memtable, map, t))
        /\ \A k \in D : Node(k, map[k], t) \in VersionsIn(MemPutAll_(memtable, map, t))
    BY <1>1, <1>3, <1>4, PutAllKeeps
  <2>2. QED
    BY <1>5, <2>1
<1>10. \A k \in D : Node(k, map[k], t) \in Version
  BY <1>3, <1>4, NodeType
<1>11. OwedType'
  BY <1>1, <1>8, <1>10 DEF OwedInv, OwedType
<1>12. ASSUME NEW w \in owed', w.session = session PROVE Kept(w.node)'
  <2>1. CASE w \in owed /\ ~(w.node.key \in D /\ w.node.tranc_id = t)
    <3>1. Kept(w.node)
      BY <1>1, <1>12, <2>1 DEF OwedInv, OwedKept
    <3>2. QED
      BY <1>5, <1>9, <2>1, <3>1 DEF Kept, Made
  <2>2. CASE \E k \in D : w.node = Node(k, map[k], t)
    BY <1>9, <2>2 DEF Kept
  <2>3. QED
    BY <1>8, <1>12, <2>1, <2>2
<1>13. ASSUME NEW w \in owed', w.session = session, w.by = "commit" PROVE LogShows(wal', w.node)
  <2>1. CASE w \in owed
    <3>1. LogShows(wal, w.node)
      BY <1>13, <2>1 DEF OwedInv, OwedLogged
    <3>2. QED
      BY <3>1, SessionLogged
  <2>2. ASSUME NEW k \in D, w.node = Node(k, map[k], t) PROVE LogShows(wal', w.node)
    BY <1>6, <1>7, <2>2, LogShowsCommit
  <2>3. QED
    BY <1>8, <2>1, <2>2
<1>14. QED
  BY <1>1, <1>11, <1>12, <1>13 DEF OwedKept, OwedLogged

\* The other calls of a session keep what was kept.
LEMMA OtherOwed ==
    ASSUME StateInv, OwedInv, SessionCall, SessionOther
    PROVE  OwedType' /\ OwedKept' /\ OwedLogged'
<1>1. /\ Serving /\ Serving' /\ session' = session /\ owed' = owed
      /\ EngineTypeOK /\ memtable \in MemTables
  BY StateSession DEF StateInv, TypeInv, EngineTypeOK, SessionCall, SessionOther
<1>2. UNCHANGED engineVars \/ EngineFlush
  <2>1. CASE \/ Get \/ StartFlushAll \/ EndFlushAll \/ BeginTran
             \/ \E t \in Open : CommitFails(t) \/ CommitTestFail(t) \/ Abort(t)
    BY <2>1 DEF Get, StartFlushAll, EndFlushAll, BeginTran, CommitFails, CommitTestFail, Abort
  <2>2. CASE Flush \/ FlushAllTurn
    BY <2>2 DEF Flush, FlushAllTurn, FlushLoopTurn
  <2>3. CASE \E t \in Open, k \in Keys, v \in Payload : TranWrite(t, k, v)
    BY <2>3, Level DEF TranWrite, WritesAside
  <2>4. QED
    BY <2>1, <2>2, <2>3 DEF SessionOther
<1>3. ASSUME NEW n, Kept(n) PROVE Kept(n)'
  <2>1. CASE UNCHANGED engineVars
    BY <1>3, <2>1 DEF engineVars, Kept, Made
  <2>2. CASE EngineFlush
    <3>1. KeptIn(memtable, n) /\ FlushFrom(memtable)
      BY <1>3, <2>2 DEF Kept, KeptIn, EngineFlush
    <3>2. QED
      BY <1>1, <3>1, FlushKeeps
  <2>3. QED
    BY <1>2, <2>1, <2>2
<1>4. OwedKept'
  BY <1>1, <1>3 DEF OwedInv, OwedKept
<1>5. OwedLogged'
  BY <1>1, SessionLogged DEF OwedInv, OwedLogged
<1>6. QED
  BY <1>1, <1>4, <1>5 DEF OwedInv, OwedType

LEMMA OwedSession ==
    ASSUME StateInv, OwedInv, SessionCall
    PROVE  OwedInv'
<1>1. OwedType' /\ OwedKept' /\ OwedLogged'
  BY PutOwed, CommitOwed, OtherOwed DEF SessionCall
<1>2. OwedOnDisk'
  <2>1. Serving'
    BY StateSession
  <2>2. ~Away'
    BY <2>1 DEF Serving, Away, Idle
  <2>3. QED
    BY <2>2 DEF OwedOnDisk
<1>3. QED
  BY <1>1, <1>2 DEF OwedInv

-----------------------------------------------------------------------------
(* What is owed, at the end of a session *)

\* A memtable of total size 0 holds nothing.
LEMMA NothingInMemory ==
    ASSUME NEW m \in MemTables, Counted(m), MemTotalSize(m) = 0
    PROVE  VersionsIn(m) = {}
<1> DEFINE s == m.frozen_tables
           w == Weigh(TableSizes, s)
<1>1. m.current_table \in Table /\ s \in Seq(Table) /\ m.frozen_bytes \in Int
  BY DEF MemTables
<1>2. \A i \in DOMAIN s : s[i] \in Table
  BY <1>1
<1>3. /\ Len(w) = Len(s) /\ Len(s) \in Nat /\ DOMAIN s = 1..Len(s) /\ DOMAIN w = 1..Len(s)
      /\ \A i \in 1..Len(s) : w[i] = TableSize(s[i])
  <2>1. Len(w) = Len(s) /\ w \in Seq(Int)
    BY <1>1, TableSizesType, WeighType
  <2>2. \A i \in 1..Len(s) : w[i] = TableSizes[s[i]]
    BY DEF Weigh
  <2>3. QED
    BY <1>1, <1>2, <2>1, <2>2 DEF TableSizes
<1>4. \A T \in Table : TableSize(T) \in Nat /\ (TableSize(T) = 0 => T = {})
  BY TableSizeType, FS_EmptySet DEF TableSize, Table
<1>5. w \in Seq(Nat)
  <2>1. w = [i \in 1..Len(s) |-> w[i]]
    BY DEF Weigh
  <2>2. \A i \in 1..Len(s) : w[i] \in Nat
    BY <1>2, <1>3, <1>4
  <2>3. Len(s) \in Nat
    BY <1>3
  <2>4. w \in [1..Len(s) -> Nat]
    <3> HIDE DEF w
    <3>1. QED
      BY <2>1, <2>2
  <2> HIDE DEF w, s
  <2>5. QED
    BY <2>3, <2>4
<1>6. m.frozen_bytes = Total(w) /\ m.frozen_bytes + TableSize(m.current_table) = 0
  BY DEF Counted, MemTotalSize
<1> HIDE DEF w
<1>7. \A j \in 1..Len(s) : w[j] <= Total(w) /\ w[j] \in Nat
  BY <1>2, <1>3, <1>4, <1>5, TotalAbove
<1>8. Total(w) \in Int
  BY <1>1, <1>6
<1>9. TableSize(m.current_table) \in Nat
  BY <1>1, <1>4
<1>10. CASE s = <<>>
  <2>1. w = <<>>
    BY <1>3, <1>5, <1>10
  <2>2. TableSize(m.current_table) = 0
    <3>1. Total(w) = 0
      BY <2>1, TotalEmpty
    <3>2. 0 + TableSize(m.current_table) = 0
      BY <1>6, <3>1
    <3>3. QED
      BY <1>9, <3>2
  <2>3. m.current_table = {}
    BY <1>1, <1>4, <2>2
  <2>4. QED
    BY <1>10, <2>3, EmptyMemTable
<1>11. CASE s # <<>>
  <2>1. 1 \in 1..Len(s)
    BY <1>1, <1>11
  <2>2. Total(w) >= 0
    BY <1>7, <1>8, <2>1
  <2>3. Total(w) = 0 /\ TableSize(m.current_table) = 0
    BY <1>6, <1>8, <1>9, <2>2
  <2>4. \A j \in 1..Len(s) : w[j] = 0
    BY <1>7, <2>3
  <2>5. \A j \in DOMAIN s : s[j] = {}
    BY <1>2, <1>3, <1>4, <2>4
  <2>6. m.current_table = {}
    BY <1>1, <1>4, <2>3
  <2>7. QED
    BY <2>5, <2>6, VersionsInParts
<1>12. QED
  BY <1>10, <1>11

LEMMA OwedStartClose ==
    ASSUME StateInv, OwedInv, StartClose
    PROVE  OwedInv'
<1>1. /\ Serving /\ Closing' /\ ~Away'
      /\ UNCHANGED <<memtable, level_sst_ids, ssts, next_sst_id, wal, session, owed>>
  BY DEF StartClose, Serving, Closing, Away, Idle, engineVars, tranVars
<1>2. OwedKept'
  BY <1>1 DEF OwedInv, OwedKept, Kept, Made
<1>3. QED
  BY <1>1, <1>2 DEF OwedInv, OwedType, OwedOnDisk, OwedLogged

LEMMA OwedCloseTurn ==
    ASSUME StateInv, OwedInv, CloseTurn
    PROVE  OwedInv'
<1>1. Closing /\ Closing' /\ ~Away'
  BY StateCloseTurn DEF Closing, Away
<1>2. /\ FlushFrom(memtable) /\ UNCHANGED <<wal, session, owed>>
      /\ EngineTypeOK /\ memtable \in MemTables
  <2>1. UNCHANGED session /\ UNCHANGED owed /\ FlushLoopTurn
    BY DEF CloseTurn
  <2>2. FlushFrom(memtable) /\ UNCHANGED wal
    BY <2>1 DEF FlushLoopTurn, EngineFlush
  <2>3. QED
    BY <2>1, <2>2 DEF StateInv, TypeInv, EngineTypeOK
<1>3. ASSUME NEW n, Kept(n) PROVE Kept(n)'
  <2>1. KeptIn(memtable, n)
    BY <1>3 DEF Kept, KeptIn
  <2>2. QED
    BY <1>2, <2>1, FlushKeeps
<1>4. OwedKept'
  BY <1>1, <1>2, <1>3 DEF OwedInv, OwedKept
<1>5. QED
  BY <1>1, <1>2, <1>4 DEF OwedInv, OwedType, OwedOnDisk, OwedLogged

\* The destructor leaves all of it in files.
LEMMA OwedEndClose ==
    ASSUME StateInv, OwedInv, EndClose
    PROVE  OwedInv'
<1>1. Closing /\ Away' /\ ~Serving' /\ ~Closing'
  BY StateEndClose DEF Away, Serving, Closing, Idle
<1>2. UNCHANGED <<wal, files, session, owed>> /\ MemTotalSize(memtable) = 0
  BY DEF EndClose
<1>3. VersionsIn(memtable) = {}
  BY <1>2, NothingInMemory DEF StateInv, TypeInv, EngineTypeOK
<1>4. ASSUME NEW w \in owed, w.session = session PROVE OnDisk(w.node)
  <2>1. Kept(w.node)
    BY <1>1, <1>4 DEF OwedInv, OwedKept
  <2>2. PICK id \in DOMAIN ssts : Made(id) /\ w.node \in ssts[id]
    BY <1>3, <2>1 DEF Kept
  <2>3. id \in DOMAIN files /\ files[id] = ssts[id] /\ ssts[id] # NullSst
    BY <2>2 DEF Made, StateInv, DirectoryInv
  <2>4. files[id] # Torn
    BY <2>2, <2>3, MarksAssumption DEF StateInv, TypeInv, EngineTypeOK
  <2>5. QED
    BY <2>2, <2>3, <2>4 DEF OnDisk
<1>5. OwedOnDisk'
  BY <1>2, <1>4 DEF OwedOnDisk, OnDisk
<1>6. QED
  BY <1>1, <1>2, <1>5 DEF OwedInv, OwedType, OwedKept, OwedLogged

\* A crash leaves the commits in the log.
LEMMA OwedCrash ==
    ASSUME StateInv, OwedInv, Crash \/ CrashInFlush \/ \E t \in Open : CrashInCommit(t)
    PROVE  OwedInv'
<1>1. Away' /\ ~Serving' /\ ~Closing' /\ ForgetPuts /\ UNCHANGED session
  <2>1. Away' /\ ForgetPuts /\ UNCHANGED session
    BY StateCrash, StateCrashInFlush, StateCrashInCommit DEF Crash, CrashInFlush, CrashInCommit
  <2>2. QED
    BY <2>1 DEF Away, Serving, Closing, Idle
<1>2. \A w \in owed' : w \in owed /\ (w.session < session \/ w.by = "commit")
  BY <1>1 DEF ForgetPuts
<1>3. OwedType'
  BY <1>1, <1>2 DEF OwedInv, OwedType
<1>4. session \in Nat
  BY DEF StateInv, SessionsInv
<1>5. OwedOnDisk'
  <2> SUFFICES ASSUME NEW w \in owed', w.session = session, w.by = "put" PROVE FALSE
    BY <1>1 DEF OwedOnDisk
  <2>1. w.session < session
    BY <1>2
  <2>2. QED
    BY <1>4, <2>1
<1>6. ASSUME NEW n, LogShows(wal, n) PROVE LogShows(wal', n)
  <2>1. CASE UNCHANGED wal
    BY <1>6, <2>1
  <2>2. ASSUME NEW t \in Open, CrashInCommit(t) PROVE LogShows(wal', n)
    <3>1. PICK ops \in Seq(WalRecords) :
             wal' = wal \o ops /\ \A i \in DOMAIN ops : ops[i].tranc_id = t
      BY <2>2, CrashLogs
    <3>2. wal \in Seq(WalRecords) /\ Serving
      BY <2>2, CrashLogs DEF StateInv, TypeInv
    <3>3. \A i \in DOMAIN wal : wal[i].tranc_id # t
      BY <3>2, OpenUnlogged DEF StateInv, SessionsInv
    <3>4. QED
      BY <1>6, <3>1, <3>2, <3>3, LogShowsKept
  <2>3. QED
    BY <2>1, <2>2 DEF Crash, CrashInFlush
<1>7. OwedLogged'
  BY <1>1, <1>2, <1>6 DEF OwedInv, OwedLogged
<1>8. QED
  BY <1>1, <1>3, <1>5, <1>7 DEF OwedInv, OwedKept

-----------------------------------------------------------------------------
(* What is owed, at an opening *)

LEMMA OwedOpening ==
    ASSUME StateInv, OwedInv, Opening
    PROVE  OwedInv'
<1>1. CASE OpenFails
  <2>1. Away /\ Away' /\ ~Serving' /\ ~Closing'
    BY <1>1, StateOpenFails DEF Away, Serving, Closing, Idle
  <2>2. UNCHANGED <<wal, files, session, owed>>
    BY <1>1 DEF OpenFails, tranVars
  <2>3. QED
    BY <2>1, <2>2 DEF OwedInv, OwedType, OwedKept, OwedOnDisk, OnDisk, OwedLogged
<1>2. CASE StartOpen \/ RecoverTurn
  <2>1. ~Away' /\ ~Serving' /\ ~Closing'
    BY <1>2, StateStartOpen, StateRecoverTurn
  <2>2. UNCHANGED <<wal, session, owed>>
    BY <1>2 DEF StartOpen, RecoverTurn
  <2>3. QED
    BY <2>1, <2>2 DEF OwedInv, OwedType, OwedKept, OwedOnDisk, OwedLogged
<1>3. CASE EndOpen
  <2>1. session' = session + 1 /\ session \in Nat /\ UNCHANGED owed
    BY <1>3 DEF EndOpen, StateInv, SessionsInv
  <2>2. \A w \in owed' : w.session # session' /\ w.session \in 1..session'
    BY <2>1 DEF OwedInv, OwedType
  <2>3. QED
    BY <2>1, <2>2 DEF OwedInv, OwedType, OwedKept, OwedOnDisk, OwedLogged
<1>4. QED
  BY <1>1, <1>2, <1>3 DEF Opening

LEMMA OwedStep ==
    ASSUME StateInv, OwedInv, [RecoveryNext]_recoveryVars
    PROVE  OwedInv'
<1>1. CASE UNCHANGED recoveryVars
  <2>1. UNCHANGED <<memtable, level_sst_ids, ssts, next_sst_id, wal, todo, files, session, owed>>
    BY <1>1 DEF recoveryVars, vars, engineVars, tranVars
  <2>2. UNCHANGED <<Serving, Closing, Away>>
    BY <2>1 DEF Serving, Closing, Away
  <2>3. QED
    BY <2>1, <2>2 DEF OwedInv, OwedType, OwedKept, Kept, Made, OwedOnDisk, OnDisk, OwedLogged
<1>2. CASE SessionCall
  BY <1>2, OwedSession
<1>3. CASE Ending
  BY <1>3, OwedStartClose, OwedCloseTurn, OwedEndClose, OwedCrash DEF Ending
<1>4. CASE Opening
  BY <1>4, OwedOpening
<1>5. QED
  BY <1>1, <1>2, <1>3, <1>4 DEF RecoveryNext

-----------------------------------------------------------------------------
(* The replay *)

\* Position p comes after all of done in the order of the replay.
Follows(log, done, p) ==
    \A j \in done :
        \/ log[j].tranc_id < log[p].tranc_id
        \/ log[j].tranc_id = log[p].tranc_id /\ j < p

LEMMA PrependTable ==
    ASSUME NEW T \in Table, NEW rest \in Seq(Table)
    PROVE  /\ <<T>> \o rest \in Seq(Table)
           /\ DOMAIN (<<T>> \o rest) = 1..(Len(rest) + 1)
           /\ (<<T>> \o rest)[1] = T
           /\ \A i \in DOMAIN rest : i + 1 \in 2..(Len(rest) + 1) /\ (<<T>> \o rest)[i + 1] = rest[i]
           /\ \A i \in 2..(Len(rest) + 1) :
                 i - 1 \in DOMAIN rest /\ (<<T>> \o rest)[i] = rest[i - 1]
           /\ Len(rest) \in Nat /\ DOMAIN rest = 1..Len(rest)
OBVIOUS

\* What the replay has made it has made with a fresh table in front as well.
LEMMA ReplaysEmpty ==
    ASSUME NEW log, NEW done, NEW S \in Seq(Table), Replays(log, done, S)
    PROVE  Replays(log, done, <<{}>> \o S)
<1> DEFINE P == <<{}>> \o S
<1>1. /\ DOMAIN P = 1..(Len(S) + 1) /\ P[1] = {} /\ Len(S) \in Nat /\ DOMAIN S = 1..Len(S)
      /\ \A i \in DOMAIN S : P[i + 1] = S[i]
      /\ \A i \in 2..(Len(S) + 1) : i - 1 \in DOMAIN S /\ P[i] = S[i - 1]
  BY PrependTable, EmptyTable
<1>2. NewestTableFirst(P, Keys)
  BY EmptyInFront DEF Replays
<1> HIDE DEF P
<1>3. \A i \in DOMAIN P : P[i] = {} \/ \E h \in DOMAIN S : P[i] = S[h]
  <2>1. \A i \in DOMAIN P : i = 1 \/ i \in 2..(Len(S) + 1)
    BY <1>1
  <2>2. QED
    BY <1>1, <2>1
<1>4. \A i \in DOMAIN P : DistinctIds(P[i])
  BY <1>3 DEF Replays, DistinctIds
<1>5. \A i \in DOMAIN P : \A n \in P[i] : \E j \in done : WritesTo(log[j], n.key, n.tranc_id)
  BY <1>3 DEF Replays
<1>6. ASSUME NEW j \in done, LastDone(log, done, j) PROVE Shows(P, log[j])
  <2> DEFINE r == log[j]
  <2>1. Shows(S, r)
    BY <1>6 DEF Replays
  <2> HIDE DEF r
  <2>2. PICK i \in DOMAIN S :
          /\ Node(r.key, r.value, r.tranc_id) \in S[i]
          /\ \A h \in 1..(i - 1) : \A n \in S[h] : ~(n.key = r.key /\ n.tranc_id = r.tranc_id)
    BY <2>1 DEF Shows
  <2>3. i + 1 \in DOMAIN P /\ P[i + 1] = S[i] /\ i \in Nat
    BY <1>1
  <2>4. ASSUME NEW h \in 1..((i + 1) - 1), NEW n \in P[h]
        PROVE  ~(n.key = r.key /\ n.tranc_id = r.tranc_id)
    <3>1. h # 1
      BY <1>1, <2>4
    <3>2. h \in 2..(Len(S) + 1) /\ h - 1 \in 1..(i - 1)
      BY <1>1, <2>3, <2>4, <3>1
    <3>3. P[h] = S[h - 1]
      BY <1>1, <3>2
    <3>4. QED
      BY <2>2, <2>4, <3>2, <3>3
  <2>5. Shows(P, r)
    BY <2>2, <2>3, <2>4 DEF Shows
  <2>6. QED
    BY <2>5 DEF r
<1>7. Replays(log, done, P)
  BY <1>2, <1>4, <1>5, <1>6 DEF Replays
<1>8. QED
  BY <1>7 DEF P

\* A record that writes nothing changes nothing.
LEMMA ReplaysMark ==
    ASSUME NEW log, NEW done, NEW S, Replays(log, done, S), NEW p,
           log[p].op \notin {"PUT", "DELETE"}
    PROVE  Replays(log, done \cup {p}, S)
<1>1. ASSUME NEW j \in done \cup {p}, LastDone(log, done \cup {p}, j)
      PROVE  j \in done /\ LastDone(log, done, j)
  BY <1>1 DEF LastDone
<1>2. QED
  BY <1>1 DEF Replays

\* A record that writes goes in front of all that was written before it, and in the
\* place of what its own transaction wrote before.
LEMMA ReplaysWrite ==
    ASSUME NEW log \in Seq(WalRecords), NEW done \in SUBSET (DOMAIN log),
           NEW T \in Table, NEW rest \in Seq(Table), Replays(log, done, <<T>> \o rest),
           NEW p \in DOMAIN log, Follows(log, done, p),
           NEW k \in Keys, NEW v \in Payload, NEW t \in Nat,
           log[p].op \in {"PUT", "DELETE"},
           log[p].key = k, log[p].value = v, log[p].tranc_id = t
    PROVE  Replays(log, done \cup {p}, <<TablePut(T, k, v, t)>> \o rest)
<1> DEFINE S == <<T>> \o rest
           U == TablePut(T, k, v, t)
           P == <<U>> \o rest
           N == Node(k, v, t)
<1>1. U \in Table /\ N \in Version
  BY TablePutType, NodeType
<1>2. /\ \A n \in U : n = N \/ (n \in T /\ ~(n.key = k /\ n.tranc_id = t))
      /\ \A n \in T : ~(n.key = k /\ n.tranc_id = t) => n \in U
      /\ N \in U
      /\ N.key = k /\ N.value = v /\ N.tranc_id = t
  BY DEF TablePut, Node
<1> HIDE DEF U, N
<1>3. /\ DOMAIN S = 1..(Len(rest) + 1) /\ S[1] = T
      /\ \A i \in 2..(Len(rest) + 1) : i - 1 \in DOMAIN rest /\ S[i] = rest[i - 1]
      /\ \A i \in DOMAIN rest : i + 1 \in 2..(Len(rest) + 1) /\ S[i + 1] = rest[i]
      /\ Len(rest) \in Nat /\ DOMAIN rest = 1..Len(rest)
  BY PrependTable
<1>4. /\ DOMAIN P = 1..(Len(rest) + 1) /\ P[1] = U
      /\ \A i \in 2..(Len(rest) + 1) : P[i] = rest[i - 1]
  BY <1>1, PrependTable
<1>5. NewestTableFirst(S, Keys) <=>
         /\ NewestTableFirst(rest, Keys)
         /\ \A i \in DOMAIN rest : AboveOn(Keys, T, rest[i])
  BY HeadAndRest
<1>6. NewestTableFirst(P, Keys) <=>
         /\ NewestTableFirst(rest, Keys)
         /\ \A i \in DOMAIN rest : AboveOn(Keys, U, rest[i])
  BY <1>1, HeadAndRest
<1>7. Replays(log, done, S)
  OBVIOUS
<1> HIDE DEF S, P
<1>8. \A i \in DOMAIN S : i = 1 \/ i \in 2..(Len(rest) + 1)
  BY <1>3
<1>9. \A j \in done : j \in Nat /\ log[j].tranc_id \in Nat
  <2>1. \A j \in DOMAIN log : j \in Nat /\ log[j] \in WalRecords
    OBVIOUS
  <2>2. QED
    BY <2>1, WriteRecordType
<1>10. p \in Nat
  OBVIOUS
<1>11. \A i \in DOMAIN S : \A n \in S[i] : \E j \in done : WritesTo(log[j], n.key, n.tranc_id)
  BY <1>7 DEF Replays
<1>12. \A i \in DOMAIN S : \A n \in S[i] : n.tranc_id <= t
  <2> SUFFICES ASSUME NEW i \in DOMAIN S, NEW n \in S[i] PROVE n.tranc_id <= t
    OBVIOUS
  <2>1. PICK j \in done : n.tranc_id = log[j].tranc_id
    BY <1>11 DEF WritesTo
  <2>2. log[j].tranc_id \in Nat
    BY <1>9
  <2>3. log[j].tranc_id < t \/ log[j].tranc_id = t
    BY DEF Follows
  <2>4. QED
    BY <2>1, <2>2, <2>3
<1>13. NewestTableFirst(P, Keys)
  <2>1. NewestTableFirst(rest, Keys) /\ \A i \in DOMAIN rest : AboveOn(Keys, T, rest[i])
    BY <1>5, <1>7 DEF Replays
  <2>2. ASSUME NEW i \in DOMAIN rest PROVE AboveOn(Keys, U, rest[i])
    <3>1. \A o \in rest[i] : o.tranc_id <= t
      BY <1>3, <1>12
    <3>2. QED
      BY <1>2, <2>1, <3>1 DEF AboveOn
  <2>3. QED
    BY <1>6, <2>1, <2>2
<1>14. \A i \in DOMAIN P : DistinctIds(P[i])
  <2>1. \A i \in DOMAIN S : DistinctIds(S[i])
    BY <1>7 DEF Replays
  <2>2. DistinctIds(T)
    BY <1>3, <2>1
  <2>3. DistinctIds(U)
    BY <1>2, <2>2 DEF DistinctIds
  <2>4. QED
    BY <1>3, <1>4, <1>8, <2>1, <2>3
<1>15. \A i \in DOMAIN P : \A n \in P[i] :
          \E j \in done \cup {p} : WritesTo(log[j], n.key, n.tranc_id)
  <2> SUFFICES ASSUME NEW i \in DOMAIN P, NEW n \in P[i]
               PROVE  \E j \in done \cup {p} : WritesTo(log[j], n.key, n.tranc_id)
    OBVIOUS
  <2>1. CASE n = N
    BY <1>2, <2>1 DEF WritesTo
  <2>2. CASE n \in S[i]
    BY <1>3, <1>4, <1>11, <2>2
  <2>3. n = N \/ n \in S[i]
    BY <1>2, <1>3, <1>4, <1>8
  <2>4. QED
    BY <2>1, <2>2, <2>3
<1>16. ASSUME NEW j \in done \cup {p}, LastDone(log, done \cup {p}, j) PROVE Shows(P, log[j])
  <2> DEFINE r == log[j]
  <2>1. CASE j = p
    <3>1. r.key = k /\ r.value = v /\ r.tranc_id = t
      BY <2>1
    <3>2. 1 \in DOMAIN P /\ Node(k, v, t) \in P[1] /\ \A h \in 1..(1 - 1) : FALSE
      BY <1>2, <1>3, <1>4 DEF N
    <3> HIDE DEF r
    <3>3. Shows(P, r)
      BY <3>1, <3>2 DEF Shows
    <3>4. QED
      BY <3>3 DEF r
  <2>2. CASE j # p
    <3>1. j \in done /\ LastDone(log, done, j)
      BY <1>16, <2>2 DEF LastDone
    <3>2. Shows(S, r)
      BY <1>7, <3>1 DEF Replays
    <3>3. ~(r.key = k /\ r.tranc_id = t)
      <4> SUFFICES ASSUME r.key = k, r.tranc_id = t PROVE FALSE
        OBVIOUS
      <4>1. WritesTo(log[p], log[j].key, log[j].tranc_id)
        BY DEF WritesTo
      <4>2. p <= j
        BY <1>16, <4>1 DEF LastDone
      <4>3. j < p
        <5>1. log[j].tranc_id < log[p].tranc_id \/ j < p
          BY <3>1 DEF Follows
        <5>2. log[j].tranc_id = t /\ log[p].tranc_id = t
          OBVIOUS
        <5>3. QED
          BY <5>1, <5>2
      <4>4. QED
        BY <1>9, <1>10, <3>1, <4>2, <4>3
    <3> DEFINE M == Node(r.key, r.value, r.tranc_id)
    <3>4. M.key = r.key /\ M.tranc_id = r.tranc_id
      BY DEF Node
    <3>5. PICK i \in DOMAIN S :
            /\ M \in S[i]
            /\ \A h \in 1..(i - 1) : \A n \in S[h] : ~(n.key = r.key /\ n.tranc_id = r.tranc_id)
      BY <3>2 DEF Shows
    <3> HIDE DEF r, M
    <3>6. i \in DOMAIN P /\ M \in P[i]
      <4>1. CASE i = 1
        BY <1>2, <1>3, <1>4, <3>3, <3>4, <3>5, <4>1
      <4>2. CASE i \in 2..(Len(rest) + 1)
        BY <1>3, <1>4, <3>5, <4>2
      <4>3. QED
        BY <1>8, <4>1, <4>2
    <3>7. ASSUME NEW h \in 1..(i - 1), NEW n \in P[h]
          PROVE  ~(n.key = r.key /\ n.tranc_id = r.tranc_id)
      <4>1. h \in DOMAIN S /\ \A o \in S[h] : ~(o.key = r.key /\ o.tranc_id = r.tranc_id)
        BY <1>3, <3>5
      <4>2. n = N \/ n \in S[h]
        BY <1>2, <1>3, <1>4, <1>8, <3>7, <4>1
      <4>3. QED
        BY <1>2, <3>3, <4>1, <4>2
    <3>8. Shows(P, r)
      BY <3>6, <3>7 DEF Shows, M
    <3>9. QED
      BY <3>8 DEF r
  <2>3. QED
    BY <2>1, <2>2
<1>17. Replays(log, done \cup {p}, P)
  BY <1>13, <1>14, <1>15, <1>16 DEF Replays
<1>18. QED
  BY <1>17 DEF P, U

\* The memtable frozen: a fresh table in front.
LEMMA ReplaysFreeze ==
    ASSUME NEW log, NEW done, NEW m \in MemTables, NEW rest \in Seq(Table),
           Replays(log, done, TablesOf(m) \o rest)
    PROVE  Replays(log, done, TablesOf(FrozenCurTable(m)) \o rest)
<1> DEFINE s == TablesOf(m)
<1>1. s \in Seq(Table)
  BY TablesOfType
<1>2. TablesOf(FrozenCurTable(m)) = <<{}>> \o s
  BY DEF TablesOf, FrozenCurTable
<1> HIDE DEF s
<1>3. <<{}>> \in Seq(Table) /\ s \o rest \in Seq(Table)
  BY <1>1, EmptyTable
<1>4. (<<{}>> \o s) \o rest = <<{}>> \o (s \o rest)
  BY <1>1, <1>3, CatAssoc
<1>5. Replays(log, done, s \o rest)
  BY DEF s
<1>6. Replays(log, done, <<{}>> \o (s \o rest))
  BY <1>3, <1>5, ReplaysEmpty
<1>7. QED
  BY <1>2, <1>4, <1>6

\* MemTable::put of a record, with the freeze it may bring about.
LEMMA ReplaysPut ==
    ASSUME NEW log \in Seq(WalRecords), NEW done \in SUBSET (DOMAIN log),
           NEW m \in MemTables, NEW rest \in Seq(Table),
           Replays(log, done, TablesOf(m) \o rest),
           NEW p \in DOMAIN log, Follows(log, done, p),
           NEW k \in Keys, NEW v \in Payload, NEW t \in Nat,
           log[p].op \in {"PUT", "DELETE"},
           log[p].key = k, log[p].value = v, log[p].tranc_id = t
    PROVE  Replays(log, done \cup {p}, TablesOf(MemPut(m, k, v, t)) \o rest)
<1> DEFINE w == MemPut_(m, k, v, t)
           behind == Behind(m, rest)
           T == m.current_table
           U == TablePut(T, k, v, t)
           frozen == m.frozen_tables
<1>1. /\ T \in Table /\ frozen \in Seq(Table) /\ w \in MemTables /\ U \in Table
      /\ behind \in Seq(Table)
  BY MemPut_Type, TablePutType, DirectParts DEF MemTables
<1>2. w.current_table = U /\ w.frozen_tables = frozen
  BY DEF MemPut_, MemTables
<1>3. TablesOf(m) = <<T>> \o frozen /\ TablesOf(w) = <<U>> \o frozen /\ behind = frozen \o rest
  BY <1>2 DEF TablesOf, Behind
<1> HIDE DEF w, behind, T, U, frozen
<1>4. <<T>> \in Seq(Table) /\ <<U>> \in Seq(Table)
  BY <1>1
<1>5. TablesOf(m) \o rest = <<T>> \o behind /\ TablesOf(w) \o rest = <<U>> \o behind
  <2>1. (<<T>> \o frozen) \o rest = <<T>> \o (frozen \o rest)
    BY <1>1, <1>4, CatAssoc
  <2>2. (<<U>> \o frozen) \o rest = <<U>> \o (frozen \o rest)
    BY <1>1, <1>4, CatAssoc
  <2>3. QED
    BY <1>3, <2>1, <2>2
<1>6. Replays(log, done \cup {p}, <<U>> \o behind)
  <2>1. Replays(log, done, <<T>> \o behind)
    BY <1>5
  <2>2. Replays(log, done \cup {p}, <<TablePut(T, k, v, t)>> \o behind)
    BY <1>1, <2>1, ReplaysWrite
  <2>3. QED
    BY <2>2 DEF U
<1>7. Replays(log, done \cup {p}, TablesOf(w) \o rest)
  BY <1>5, <1>6
<1>8. Replays(log, done \cup {p}, TablesOf(FrozenCurTable(w)) \o rest)
  BY <1>1, <1>7, ReplaysFreeze
<1>9. MemPut(m, k, v, t) \in {w, FrozenCurTable(w)}
  BY DEF MemPut, w
<1>10. QED
  BY <1>7, <1>8, <1>9

\* The flush of the oldest table puts it in front of the files: nothing moves.
LEMMA ReplaysFlush ==
    ASSUME NEW log, NEW done, NEW m \in MemTables, NEW rest \in Seq(Table), ~NothingToFlush(m),
           Replays(log, done, TablesOf(m) \o rest)
    PROVE  Replays(log, done, TablesOf(AfterFlush(m)) \o (<<FlushedTable(m)>> \o rest))
<1>1. TablesOf(AfterFlush(m)) \o (<<FlushedTable(m)>> \o rest)
         = TablesOf(FreezeForFlush(m)) \o rest
  BY FlushMoves
<1>2. FreezeForFlush(m) = m \/ FreezeForFlush(m) = FrozenCurTable(m)
  BY DEF FreezeForFlush
<1>3. Replays(log, done, TablesOf(FreezeForFlush(m)) \o rest)
  BY <1>2, ReplaysFreeze
<1>4. QED
  BY <1>1, <1>3

LEMMA MadeFilesType ==
    ASSUME EngineTypeOK, FilesMade
    PROVE  /\ MadeFiles \in Seq(Table)
           /\ Len(MadeFiles) = next_sst_id
           /\ DOMAIN MadeFiles = 1..next_sst_id
           /\ MadeTables = Tables \o MadeFiles
<1>1. next_sst_id \in Nat /\ DOMAIN level_sst_ids = 1..Len(level_sst_ids) /\ Len(level_sst_ids) \in Nat
  BY DEF EngineTypeOK
<1>2. \A i \in 1..next_sst_id : ssts[level_sst_ids[i]] \in Table
  <2> SUFFICES ASSUME NEW i \in 1..next_sst_id PROVE ssts[level_sst_ids[i]] \in Table
    OBVIOUS
  <2>1. i \in DOMAIN level_sst_ids
    BY <1>1 DEF FilesMade
  <2>2. level_sst_ids[i] \in DOMAIN ssts
    BY <2>1 DEF EngineTypeOK
  <2>3. ssts[level_sst_ids[i]] \in Table \cup {NullSst}
    BY <2>2 DEF EngineTypeOK
  <2>4. QED
    BY <2>3 DEF FilesMade
<1>3. QED
  BY <1>1, <1>2 DEF MadeFiles, MadeTables

\* What a flush does to the files the replay has made.
LEMMA MadeFilesGrow ==
    ASSUME EngineTypeOK, FilesMade, NEW m \in MemTables, ~NothingToFlush(m), FlushFrom(m)
    PROVE  FilesMade' /\ MadeFiles' = <<FlushedTable(m)>> \o MadeFiles
<1> DEFINE T == FlushedTable(m)
           n == next_sst_id
           all == <<T>> \o MadeFiles
           new == MadeFiles'
<1>1. /\ n \in Nat /\ level_sst_ids \in Seq(Nat) /\ DOMAIN level_sst_ids = 1..Len(level_sst_ids)
      /\ Len(level_sst_ids) \in Nat /\ T \in Table
  BY FlushedTableType DEF EngineTypeOK
<1>2. /\ next_sst_id' = n + 1
      /\ level_sst_ids' = <<n>> \o level_sst_ids
      /\ ssts' = [id \in DOMAIN ssts \cup {n} |-> IF id # n THEN ssts[id] ELSE T]
  BY DEF FlushFrom
<1>3. /\ Len(level_sst_ids') = Len(level_sst_ids) + 1
      /\ level_sst_ids'[1] = n
      /\ \A i \in 1..Len(level_sst_ids) : level_sst_ids'[i + 1] = level_sst_ids[i]
  <2> DEFINE s == level_sst_ids
  <2>1. s \in Seq(Nat) /\ n \in Nat /\ level_sst_ids' = <<n>> \o s
    BY <1>1, <1>2
  <2> HIDE DEF s, n
  <2>2. /\ Len(<<n>> \o s) = Len(s) + 1
        /\ (<<n>> \o s)[1] = n
        /\ \A i \in 1..Len(s) : (<<n>> \o s)[i + 1] = s[i]
    BY <2>1, PrependOf
  <2>3. QED
    BY <2>1, <2>2 DEF s
<1> HIDE DEF T
<1>4. /\ n <= Len(level_sst_ids)
      /\ \A i \in 1..n : level_sst_ids[i] = n - i /\ ssts[level_sst_ids[i]] # NullSst
  BY DEF FilesMade
<1>5. /\ level_sst_ids'[1] = (n + 1) - 1 /\ ssts'[level_sst_ids'[1]] = T /\ T # NullSst
  BY <1>1, <1>2, <1>3, MarksAssumption
<1>6. ASSUME NEW i \in 2..(n + 1)
      PROVE  /\ i - 1 \in 1..n
             /\ level_sst_ids'[i] = (n + 1) - i
             /\ ssts'[level_sst_ids'[i]] = ssts[level_sst_ids[i - 1]]
             /\ ssts[level_sst_ids[i - 1]] # NullSst
  <2>1. i - 1 \in 1..n /\ i - 1 \in 1..Len(level_sst_ids) /\ (i - 1) + 1 = i
    BY <1>1, <1>4
  <2>2. level_sst_ids'[i] = level_sst_ids[i - 1]
    BY <1>3, <2>1
  <2>3. level_sst_ids[i - 1] = n - (i - 1) /\ ssts[level_sst_ids[i - 1]] # NullSst
    BY <1>4, <2>1
  <2>4. n - (i - 1) = (n + 1) - i /\ n - (i - 1) # n
    BY <1>1
  <2>5. level_sst_ids[i - 1] \in DOMAIN ssts
    BY <1>1, <2>1 DEF EngineTypeOK
  <2>6. QED
    BY <1>2, <2>1, <2>2, <2>3, <2>4, <2>5
<1>7. \A i \in 1..(n + 1) : i = 1 \/ i \in 2..(n + 1)
  BY <1>1
<1>8. FilesMade'
  <2>1. next_sst_id' <= Len(level_sst_ids')
    BY <1>1, <1>2, <1>3, <1>4
  <2>2. ASSUME NEW i \in 1..next_sst_id'
        PROVE  level_sst_ids'[i] = next_sst_id' - i /\ ssts'[level_sst_ids'[i]] # NullSst
    BY <1>2, <1>5, <1>6, <1>7
  <2>3. QED
    BY <2>1, <2>2 DEF FilesMade
<1>9. MadeFiles \in Seq(Table) /\ Len(MadeFiles) = n
  BY MadeFilesType
<1>10. new = [i \in 1..(n + 1) |-> ssts'[level_sst_ids'[i]]]
  BY <1>2 DEF MadeFiles
<1>11. \A i \in 1..n : MadeFiles[i] = ssts[level_sst_ids[i]]
  BY DEF MadeFiles
<1>12. /\ all = [i \in 1..(n + 1) |-> all[i]]
       /\ all[1] = T /\ \A i \in 2..(n + 1) : all[i] = MadeFiles[i - 1]
  <2> DEFINE s == MadeFiles
  <2>1. s \in Seq(Table) /\ Len(s) = n /\ T \in Table
    BY <1>1, <1>9
  <2> HIDE DEF s
  <2>2. <<T>> \o s \in Seq(Table) /\ DOMAIN (<<T>> \o s) = 1..(n + 1)
    BY <2>1, PrependTable
  <2>3. (<<T>> \o s)[1] = T /\ \A i \in 2..(n + 1) : (<<T>> \o s)[i] = s[i - 1]
    BY <2>1, PrependTable
  <2>4. (<<T>> \o s) = [i \in 1..(n + 1) |-> (<<T>> \o s)[i]]
    <3> DEFINE c == <<T>> \o s
    <3>1. c \in Seq(Table) /\ DOMAIN c = 1..(n + 1)
      BY <2>2
    <3> HIDE DEF c
    <3>2. c = [i \in DOMAIN c |-> c[i]]
      BY <3>1
    <3>3. c = [i \in 1..(n + 1) |-> c[i]]
      BY <3>1, <3>2
    <3>4. QED
      BY <3>3 DEF c
  <2>5. QED
    BY <2>3, <2>4 DEF s
<1>13. \A i \in 1..(n + 1) : all[i] = ssts'[level_sst_ids'[i]]
  <2> HIDE DEF all, new
  <2>1. QED
    BY <1>5, <1>6, <1>7, <1>11, <1>12
<1> HIDE DEF all, new
<1>14. new = all
  BY <1>10, <1>12, <1>13
<1>15. QED
  BY <1>8, <1>14 DEF new, all, T

-----------------------------------------------------------------------------
(* The replay, step by step *)

\* A flush finds something to write out: the limit is positive.
LEMMA FullIsSomething ==
    ASSUME NEW m \in MemTables, Counted(m), MemTotalSize(m) >= TotMemLimit
    PROVE  ~NothingToFlush(m)
<1> SUFFICES ASSUME m.frozen_tables = <<>>, m.current_table = {} PROVE FALSE
  BY DEF NothingToFlush
<1>1. Weigh(TableSizes, <<>>) = <<>>
  BY DEF Weigh
<1>2. m.frozen_bytes = 0
  BY <1>1, TotalEmpty DEF Counted
<1>3. MemTotalSize(m) = 0
  BY <1>2, FS_EmptySet DEF MemTotalSize, TableSize
<1>4. QED
  BY <1>3, TotMemLimitAssumption

\* The engine write of a turn of the replay.
LEMMA ReplayedFlush ==
    ASSUME EngineTypeOK, EngineTypeOK', FilesMade, NEW done, NEW m \in MemTables, Counted(m),
           FlushIfFull(m), Replays(wal, done, TablesOf(m) \o MadeFiles), UNCHANGED wal
    PROVE  FilesMade' /\ Replays(wal, done, MadeTables')
<1> DEFINE rest == MadeFiles
<1>1. rest \in Seq(Table)
  BY MadeFilesType
<1>2. CASE MemTotalSize(m) >= TotMemLimit /\ FlushFrom(m)
  <2>1. ~NothingToFlush(m)
    BY <1>2, FullIsSomething
  <2>2. FilesMade' /\ MadeFiles' = <<FlushedTable(m)>> \o rest
    BY <1>2, <2>1, MadeFilesGrow
  <2>3. memtable' = AfterFlush(m)
    BY <1>2 DEF FlushFrom
  <2>4. MadeTables' = TablesOf(AfterFlush(m)) \o (<<FlushedTable(m)>> \o rest)
    BY <2>2, <2>3 DEF MadeTables, Tables, MadeFiles
  <2> HIDE DEF rest
  <2>5. Replays(wal, done, TablesOf(AfterFlush(m)) \o (<<FlushedTable(m)>> \o rest))
    BY <1>1, <2>1, ReplaysFlush DEF rest
  <2>6. QED
    BY <2>2, <2>4, <2>5
<1>3. CASE memtable' = m /\ UNCHANGED <<level_sst_ids, ssts, next_sst_id>>
  <2>1. FilesMade'
    BY <1>3 DEF FilesMade
  <2>2. MadeTables' = TablesOf(m) \o rest
    BY <1>3 DEF MadeTables, Tables, MadeFiles
  <2>3. QED
    BY <2>1, <2>2
<1>4. QED
  BY <1>2, <1>3 DEF FlushIfFull

LEMMA ReplayStarts ==
    ASSUME StateInv, StartOpen
    PROVE  ReplayInv'
<1>1. todo'.left = DOMAIN wal /\ UNCHANGED wal
  BY StateStartOpen
<1>2. memtable' = NewMemTable /\ next_sst_id' = 0 /\ level_sst_ids' = Found
  BY StateStartOpen DEF StateInv, SessionsInv, StartOpen
<1>3. FilesMade'
  <2>1. Len(level_sst_ids') \in Nat
    BY <1>2, FoundFiles DEF StateInv
  <2>2. QED
    BY <1>2, <2>1 DEF FilesMade
<1>4. MadeTables' = <<{}>>
  <2>1. Tables' = <<{}>>
    BY <1>2 DEF Tables, TablesOf, NewMemTable
  <2>2. [i \in 1..next_sst_id' |-> ssts'[level_sst_ids'[i]]] = <<>>
    BY <1>2
  <2>3. MadeTables' = Tables' \o [i \in 1..next_sst_id' |-> ssts'[level_sst_ids'[i]]]
    BY DEF MadeTables
  <2>4. <<{}>> \o <<>> = <<{}>>
    OBVIOUS
  <2>5. MadeTables' = <<{}>> \o <<>>
    BY <2>1, <2>2, <2>3
  <2>6. QED
    BY <2>4, <2>5
<1>5. Replays(wal', {}, <<{}>>)
  BY DEF Replays, NewestTableFirst, DistinctIds
<1>6. DOMAIN wal' \ todo'.left = {}
  BY <1>1
<1>7. QED
  BY <1>3, <1>4, <1>5, <1>6 DEF ReplayInv

LEMMA ReplayGoesOn ==
    ASSUME StateInv, ReplayInv, RecoverTurn
    PROVE  ReplayInv'
<1> DEFINE p    == NextRecord
           done == DOMAIN wal \ todo.left
           left == todo.left
<1>1. /\ Replaying /\ left \subseteq DOMAIN wal /\ left # {} /\ p \in left
      /\ p \in DOMAIN wal /\ wal[p] \in WalRecords
      /\ todo' = [op |-> "recover", left |-> left \ {p}] /\ UNCHANGED wal
      /\ wal \in Seq(WalRecords)
  BY ReplayTurn, PhaseOps DEF StateInv, TypeInv
<1>2. /\ FilesMade
      /\ Replays(wal, done, MadeTables)
      /\ \A i \in done, j \in left : Sooner(i, j)
  BY <1>1 DEF ReplayInv
<1>3. \A j \in left \ {p} : Sooner(p, j)
  <2>1. left \in SUBSET (DOMAIN wal)
    BY <1>1
  <2>2. QED
    BY <1>1, <2>1, NextIsSooner
<1>4. EngineTypeOK /\ EngineTypeOK' /\ memtable \in MemTables
  BY StateRecoverTurn DEF StateInv, TypeInv, EngineTypeOK
<1>5. todo'.left = left \ {p} /\ DOMAIN wal' \ todo'.left = done \cup {p}
  BY <1>1
<1> HIDE DEF p, done, left
<1>6. \A i \in done \cup {p}, j \in left \ {p} : Sooner(i, j)
  BY <1>2, <1>3
<1>7. done \in SUBSET (DOMAIN wal) /\ Follows(wal, done, p)
  BY <1>1, <1>2 DEF done, Follows, Sooner
<1>8. MadeFiles \in Seq(Table) /\ MadeTables = TablesOf(memtable) \o MadeFiles
  BY <1>2, <1>4, MadeFilesType DEF Tables
<1>9. FilesMade' /\ Replays(wal, done \cup {p}, MadeTables')
  <2>1. CASE wal[p].op \notin {"PUT", "DELETE"} /\ UNCHANGED engineVars
    <3>1. FilesMade' /\ MadeTables' = MadeTables
      BY <1>2, <2>1 DEF engineVars, FilesMade, MadeTables, Tables
    <3>2. QED
      BY <1>2, <2>1, <3>1, ReplaysMark
  <2>2. CASE /\ wal[p].op \in {"PUT", "DELETE"}
             /\ wal[p].key \in Keys /\ wal[p].value \in Payload /\ wal[p].tranc_id \in Nat
             /\ Replayed \in MemTables /\ Counted(Replayed)
             /\ FlushIfFull(Replayed)
    <3> DEFINE m == Replayed
    <3>1. m = MemPut(memtable, wal[p].key, wal[p].value, wal[p].tranc_id)
      BY DEF Replayed, p
    <3>2. Replays(wal, done, TablesOf(memtable) \o MadeFiles)
      BY <1>2, <1>8
    <3>3. Replays(wal, done \cup {p}, TablesOf(m) \o MadeFiles)
      <4> HIDE DEF m
      <4>1. QED
        BY <1>1, <1>4, <1>7, <1>8, <2>2, <3>1, <3>2, ReplaysPut
    <3> HIDE DEF m
    <3>4. m \in MemTables /\ Counted(m) /\ FlushIfFull(m)
      BY <2>2 DEF m
    <3>5. QED
      BY <1>1, <1>2, <1>4, <3>3, <3>4, ReplayedFlush
  <2>3. QED
    BY <2>1, <2>2, ReplayEngine DEF p
<1>10. \A i, j : Sooner(i, j)' <=> Sooner(i, j)
  BY <1>1 DEF Sooner
<1>11. QED
  BY <1>1, <1>5, <1>6, <1>9, <1>10 DEF ReplayInv

LEMMA ReplayStep ==
    ASSUME StateInv, ReplayInv, [RecoveryNext]_recoveryVars
    PROVE  ReplayInv'
<1>1. CASE UNCHANGED recoveryVars
  <2>1. UNCHANGED <<memtable, level_sst_ids, ssts, next_sst_id, wal, todo>>
    BY <1>1 DEF recoveryVars, vars, engineVars, tranVars
  <2>2. /\ UNCHANGED <<Replaying, FilesMade, MadeTables>>
        /\ \A i, j : Sooner(i, j)' <=> Sooner(i, j)
    BY <2>1 DEF Replaying, FilesMade, MadeTables, Tables, Sooner
  <2>3. QED
    BY <2>1, <2>2 DEF ReplayInv
<1>2. CASE SessionCall \/ Ending \/ OpenFails \/ EndOpen
  <2>1. Serving' \/ Closing' \/ Away'
    BY <1>2, StateSession, StateStartClose, StateCloseTurn, StateEndClose, StateCrash,
       StateCrashInCommit, StateCrashInFlush, StateOpenFails, StateEndOpen DEF Ending
  <2>2. ~Replaying'
    BY <2>1 DEF Serving, Closing, Away, Replaying, Idle
  <2>3. QED
    BY <2>2 DEF ReplayInv
<1>3. CASE StartOpen \/ RecoverTurn
  BY <1>3, ReplayStarts, ReplayGoesOn
<1>4. QED
  BY <1>1, <1>2, <1>3 DEF RecoveryNext, Opening

-----------------------------------------------------------------------------
(* What the invariant gives *)

\* A version is the node of its own fields.
LEMMA VersionIsNode ==
    ASSUME NEW n \in Version
    PROVE  n = Node(n.key, n.value, n.tranc_id)
BY DEF Version, Node

\* The positions that write k for t have a last one.
LEMMA LastWrite ==
    ASSUME wal \in Seq(WalRecords), NEW k, NEW t, LogWrites(t, k) # {}
    PROVE  \E last \in LogWrites(t, k) : \A i \in LogWrites(t, k) : i <= last
<1>1. LogWrites(t, k) \in SUBSET Nat /\ Len(wal) \in Nat /\ \A i \in LogWrites(t, k) : i <= Len(wal)
  BY DEF LogWrites
<1> DEFINE S == LogWrites(t, k)
<1> HIDE DEF S
<1>2. S \in SUBSET Nat /\ Len(wal) \in Nat /\ S # {} /\ \A i \in S : i <= Len(wal)
  BY <1>1 DEF S
<1>3. QED
  BY <1>2, GreatestNat DEF S

LEMMA LastLoggedIs ==
    ASSUME wal \in Seq(WalRecords), NEW k, NEW t, NEW last \in LogWrites(t, k),
           \A i \in LogWrites(t, k) : i <= last
    PROVE  LastLogged(t, k) = Node(k, wal[last].value, t)
<1> DEFINE S == LogWrites(t, k)
           c == CHOOSE i \in S : \A j \in S : j <= i
<1>1. S \subseteq Nat
  BY DEF LogWrites
<1> HIDE DEF S
<1>2. last \in S /\ \A i \in S : i <= last
  BY DEF S
<1>3. c \in S /\ \A j \in S : j <= c
  BY <1>2
<1> HIDE DEF c
<1>4. c = last
  <2>1. c <= last /\ last <= c /\ c \in Nat /\ last \in Nat
    BY <1>1, <1>2, <1>3
  <2>2. QED
    BY <2>1
<1>5. S # {} /\ LastLogged(t, k) = IF S = {} THEN NoNode ELSE Node(k, wal[c].value, t)
  BY <1>2 DEF LastLogged, S, c
<1>6. QED
  BY <1>4, <1>5

LEMMA ShownIsInLog ==
    ASSUME wal \in Seq(WalRecords), NEW n \in Version, LogShows(wal, n)
    PROVE  InLog(n)
<1>1. PICK j \in DOMAIN wal :
        /\ WritesTo(wal[j], n.key, n.tranc_id)
        /\ wal[j].value = n.value
        /\ \A i \in DOMAIN wal : WritesTo(wal[i], n.key, n.tranc_id) => i <= j
  BY DEF LogShows
<1>2. \A i : i \in LogWrites(n.tranc_id, n.key) <=>
                i \in DOMAIN wal /\ WritesTo(wal[i], n.key, n.tranc_id)
  BY DEF LogWrites, WritesTo
<1>3. j \in LogWrites(n.tranc_id, n.key) /\ \A i \in LogWrites(n.tranc_id, n.key) : i <= j
  BY <1>1, <1>2
<1>4. LastLogged(n.tranc_id, n.key) = Node(n.key, n.value, n.tranc_id)
  BY <1>1, <1>3, LastLoggedIs
<1>5. QED
  BY <1>4, VersionIsNode DEF InLog

LEMMA KeptIsInTables ==
    ASSUME EngineTypeOK, NEW n, Kept(n)
    PROVE  InTables(n)
<1>1. CASE n \in VersionsIn(memtable)
  BY <1>1 DEF VersionsIn, InTables, AllTables, Tables
<1>2. CASE \E id \in DOMAIN ssts : Made(id) /\ n \in ssts[id]
  BY <1>2 DEF Made, InTables, AllTables, SstTables
<1>3. QED
  BY <1>1, <1>2 DEF Kept

LEMMA GivesTypes == StateInv /\ OwedInv => RecoveryTypeOK
<1> SUFFICES ASSUME StateInv, OwedInv PROVE RecoveryTypeOK
  OBVIOUS
<1>1. \/ todo \in [op : {"down", "failed", "close"}]
      \/ todo \in [op : {"recover"}, left : SUBSET (DOMAIN wal)]
      \/ TodoTypeOK
  <2>1. CASE Serving
    BY <2>1 DEF Serving, TodoTypeOK
  <2>2. CASE Closing \/ Away
    BY <2>2 DEF Closing, Away
  <2>3. CASE Replaying
    BY <2>3 DEF Replaying
  <2>4. QED
    BY <2>1, <2>2, <2>3 DEF StateInv, PhaseInv
<1>2. \A w \in owed : w.node \in Version /\ w.session \in 1..session
  BY DEF OwedInv, OwedType
<1>3. EngineTypeOK /\ wal \in Seq(WalRecords) /\ session \in 1..MaxSession
  BY DEF StateInv, TypeInv, SessionsInv
<1>4. DOMAIN files \subseteq Nat /\ files \in [DOMAIN files -> Table \cup {Torn}]
  BY DEF StateInv, DirectoryInv
<1>5. QED
  BY <1>1, <1>2, <1>3, <1>4 DEF RecoveryTypeOK

LEMMA GivesDurable == StateInv /\ OwedInv => SessionDurable
<1> SUFFICES ASSUME StateInv, OwedInv, NEW w \in owed, w.session = session
             PROVE  \/ InSession /\ InTables(w.node)
                    \/ ~InSession /\ (OnDisk(w.node) \/ InLog(w.node))
                    \/ todo.op = "recover" /\ w.by = "put"
  BY DEF SessionDurable
<1>1. w.node \in Version /\ w.by \in {"put", "commit"}
  BY DEF OwedInv, OwedType
<1>2. w.by = "commit" => InLog(w.node)
  <2>1. w.by = "commit" => LogShows(wal, w.node)
    BY DEF OwedInv, OwedLogged
  <2>2. QED
    BY <1>1, <2>1, ShownIsInLog DEF StateInv, TypeInv
<1>3. CASE Serving \/ Closing
  <2>1. InSession
    BY <1>3, PhaseOps DEF InSession
  <2>2. Kept(w.node)
    BY <1>3 DEF OwedInv, OwedKept
  <2>3. QED
    BY <2>1, <2>2, KeptIsInTables DEF StateInv, TypeInv
<1>4. CASE Away
  <2>1. ~InSession
    BY <1>4, PhaseOps DEF InSession
  <2>2. w.by = "put" => OnDisk(w.node)
    BY <1>4 DEF OwedInv, OwedOnDisk
  <2>3. QED
    BY <1>1, <1>2, <2>1, <2>2
<1>5. CASE Replaying
  <2>1. ~InSession /\ todo.op = "recover"
    BY <1>5, PhaseOps DEF InSession
  <2>2. QED
    BY <1>1, <1>2, <2>1
<1>6. QED
  BY <1>3, <1>4, <1>5 DEF StateInv, PhaseInv

LEMMA GivesOrdered == StateInv /\ ReplayInv => RecoveryOrdered
BY PhaseOps DEF StateInv, PhaseInv, ReplayInv, Replays, RecoveryOrdered

\* What a replay of the whole log has made shows the log.
LEMMA GivesLog == StateInv /\ ReplayInv => RecoversLog
<1> SUFFICES ASSUME StateInv, ReplayInv, todo.op = "recover", todo.left = {},
                    NEW k \in Keys, NEW t \in 0..MaxTrancId
             PROVE  FirstMade(k, t) = LastLogged(t, k)
  BY DEF RecoversLog
<1> DEFINE S == MadeTables
           with == {i \in DOMAIN S : \E n \in S[i] : n.key = k /\ n.tranc_id = t}
           W == LogWrites(t, k)
<1>1. Replaying /\ wal \in Seq(WalRecords) /\ EngineTypeOK
  BY PhaseOps DEF StateInv, PhaseInv, TypeInv
<1>2. FilesMade /\ Replays(wal, DOMAIN wal, S)
  <2>1. DOMAIN wal \ todo.left = DOMAIN wal
    OBVIOUS
  <2>2. QED
    BY <1>1, <2>1 DEF ReplayInv
<1>3. DOMAIN S \subseteq Nat
  <2> DEFINE a == Tables
             b == MadeFiles
  <2>1. a \in Seq(Table) /\ b \in Seq(Table) /\ S = a \o b
    BY <1>1, <1>2, MadeFilesType, TablesOfType DEF Tables, EngineTypeOK
  <2> HIDE DEF a, b, S
  <2>2. QED
    BY <2>1
<1>4. FirstMade(k, t) = IF with = {} THEN NoNode
                        ELSE CHOOSE n \in S[CHOOSE i \in with : \A j \in with : i <= j] :
                                n.key = k /\ n.tranc_id = t
  BY DEF FirstMade
<1> HIDE DEF S
<1>5. \A i \in with : W # {}
  <2> SUFFICES ASSUME NEW i \in with PROVE W # {}
    OBVIOUS
  <2>1. PICK n \in S[i] : n.key = k /\ n.tranc_id = t
    OBVIOUS
  <2>2. PICK j \in DOMAIN wal : WritesTo(wal[j], n.key, n.tranc_id)
    BY <1>2 DEF Replays
  <2>3. j \in W
    BY <2>1, <2>2 DEF WritesTo, LogWrites
  <2>4. QED
    BY <2>3
<1>6. CASE W = {}
  <2>1. with = {}
    BY <1>5, <1>6
  <2>2. LastLogged(t, k) = NoNode
    BY <1>6 DEF LastLogged
  <2>3. QED
    BY <1>4, <2>1, <2>2
<1>7. CASE W # {}
  <2>1. PICK last \in W : \A i \in W : i <= last
    BY <1>1, <1>7, LastWrite
  <2> DEFINE N == Node(k, wal[last].value, t)
             r == wal[last]
  <2>2. LastLogged(t, k) = N
    BY <1>1, <2>1, LastLoggedIs
  <2>3. last \in DOMAIN wal /\ r.op \in {"PUT", "DELETE"} /\ r.key = k /\ r.tranc_id = t
    BY <2>1 DEF LogWrites
  <2>4. LastDone(wal, DOMAIN wal, last)
    BY <2>1, <2>3 DEF LastDone, LogWrites, WritesTo
  <2>5. Shows(S, r)
    BY <1>2, <2>3, <2>4 DEF Replays
  <2>6. PICK i \in DOMAIN S :
          /\ N \in S[i]
          /\ \A h \in 1..(i - 1) : \A n \in S[h] : ~(n.key = k /\ n.tranc_id = t)
    <3>1. Node(r.key, r.value, r.tranc_id) = N
      BY <2>3
    <3>2. r.key = k /\ r.tranc_id = t
      BY <2>3
    <3> HIDE DEF N, r
    <3>3. QED
      BY <2>5, <3>1, <3>2 DEF Shows
  <2>7. N.key = k /\ N.tranc_id = t
    BY DEF Node
  <2> HIDE DEF N, r
  <2>8. i \in with /\ i \in Nat
    BY <1>3, <2>6, <2>7
  <2>9. ASSUME NEW j \in with PROVE i <= j
    <3>1. PICK n \in S[j] : n.key = k /\ n.tranc_id = t
      OBVIOUS
    <3>2. j \notin 1..(i - 1)
      BY <2>6, <3>1
    <3>3. j \in Nat /\ j >= 1
      <4>1. j \in DOMAIN S
        OBVIOUS
      <4>2. \E len \in Nat : DOMAIN S = 1..len
        <5> DEFINE a == Tables
                   b == MadeFiles
        <5>1. a \in Seq(Table) /\ b \in Seq(Table) /\ S = a \o b
          BY <1>1, <1>2, MadeFilesType, TablesOfType DEF Tables, EngineTypeOK, S
        <5> HIDE DEF a, b
        <5>2. a \o b \in Seq(Table)
          BY <5>1
        <5>3. QED
          BY <5>1, <5>2
      <4>3. QED
        BY <4>1, <4>2
    <3>4. QED
      BY <2>8, <3>2, <3>3
  <2> DEFINE c == CHOOSE h \in with : \A j \in with : h <= j
  <2>10. c = i
    <3> HIDE DEF with
    <3>1. c \in with /\ \A j \in with : c <= j
      BY <2>8, <2>9
    <3> HIDE DEF c
    <3>2. c <= i /\ i <= c /\ c \in Nat /\ i \in Nat
      BY <1>3, <2>8, <2>9, <3>1 DEF with
    <3>3. QED
      BY <3>2
  <2>11. DistinctIds(S[i])
    BY <1>2, <2>6 DEF Replays
  <2>12. \A n \in S[i] : n.key = k /\ n.tranc_id = t <=> n = N
    BY <2>6, <2>7, <2>11 DEF DistinctIds
  <2>13. (CHOOSE n \in S[i] : n.key = k /\ n.tranc_id = t) = N
    BY <2>6, <2>7, <2>12
  <2>14. with # {}
    BY <2>8
  <2> HIDE DEF with
  <2>15. FirstMade(k, t) = CHOOSE n \in S[c] : n.key = k /\ n.tranc_id = t
    BY <1>4, <2>14
  <2>16. QED
    BY <2>2, <2>10, <2>13, <2>15
<1>8. QED
  BY <1>6, <1>7

-----------------------------------------------------------------------------
(* The theorems *)

LEMMA InitRecovery == RecoveryInit => RecoveryInv
<1> SUFFICES ASSUME RecoveryInit PROVE OwedInv /\ ReplayInv
  BY InitState DEF StateInv, RecoveryInv
<1>1. owed = {}
  BY DEF RecoveryInit
<1>2. ~Replaying
  BY InitState DEF Serving, Replaying, Idle
<1>3. QED
  BY <1>1, <1>2 DEF OwedInv, OwedType, OwedKept, OwedOnDisk, OwedLogged, ReplayInv

LEMMA RecoveryStep == RecoveryInv /\ [RecoveryNext]_recoveryVars => RecoveryInv'
<1> SUFFICES ASSUME RecoveryInv, [RecoveryNext]_recoveryVars PROVE RecoveryInv'
  OBVIOUS
<1>1. StateInv /\ OwedInv /\ ReplayInv
  BY DEF RecoveryInv, StateInv
<1>2. StateInv' /\ OwedInv' /\ ReplayInv'
  BY <1>1, StateStep, OwedStep, ReplayStep
<1>3. QED
  BY <1>2 DEF RecoveryInv, StateInv

LEMMA RecoveryHolds == RecoverySpec => []RecoveryInv
BY InitRecovery, RecoveryStep, PTL DEF RecoverySpec

\* Over every life of a directory, with its crashes, closes, failed openings and replays:
\* the engine, the files, the log and the loop that opens or closes have their types.
THEOREM DirectoryTypes == RecoverySpec => []RecoveryTypeOK
<1>1. RecoveryInv => RecoveryTypeOK
  BY GivesTypes DEF RecoveryInv, StateInv
<1>2. QED
  BY <1>1, RecoveryHolds, PTL

\* What a session has acknowledged is in memory or in a file while it lasts and in a file
\* after a close; after a crash, in a commit or a flush or between two calls, its commits
\* are in the log until the replay is over.
THEOREM AcknowledgedIsDurable == RecoverySpec => []SessionDurable
<1>1. RecoveryInv => SessionDurable
  BY GivesDurable DEF RecoveryInv, StateInv
<1>2. QED
  BY <1>1, RecoveryHolds, PTL

\* A replay that is over has made of the log what it says and nothing else: for every
\* transaction and key the write logged last is the one a search meets first, whatever
\* freezes and flushes the replay went through.
THEOREM ReplayMakesTheLog == RecoverySpec => []RecoversLog
<1>1. RecoveryInv => RecoversLog
  BY GivesLog DEF RecoveryInv, StateInv
<1>2. QED
  BY <1>1, RecoveryHolds, PTL

\* At every turn of a replay the tables it has made, in memory and on disk, hold the
\* newest versions first, in whatever order the transactions had committed.
THEOREM ReplaySortsTheLog == RecoverySpec => []RecoveryOrdered
<1>1. RecoveryInv => RecoveryOrdered
  BY GivesOrdered DEF RecoveryInv, StateInv
<1>2. QED
  BY <1>1, RecoveryHolds, PTL

-----------------------------------------------------------------------------
(* The files of the first session, as an opening finds them *)

\* The keys of which nothing is in the log: written directly, if at all.
Unlogged == Keys \ LoggedKeys

\* A file with a greater id has the newer versions.
FilesInOrder(fs, K) ==
    \A a, b \in DOMAIN fs :
        a > b /\ fs[a] # Torn /\ fs[b] # Torn => AboveOn(K, fs[a], fs[b])

\* Memory is in order, and in front of each file.
MemoryInFront(fs, m, K) ==
    /\ DirectOrdered(m, <<>>, K)
    /\ \A id \in DOMAIN fs : fs[id] # Torn => DirectOrdered(m, <<fs[id]>>, K)

\* The versions of a memtable and of the files have ids below b.
IdsBelow(fs, m, b) ==
    /\ \A n \in VersionsIn(m) : n.tranc_id < b
    /\ \A id \in DOMAIN fs : fs[id] # Torn => \A n \in fs[id] : n.tranc_id < b

\* Files fs behind a memtable, under ids below next, with versions of ids below b.
FirstFiles(fs, m, K, b, next) ==
    /\ FilesInOrder(fs, K)
    /\ MemoryInFront(fs, m, K)
    /\ IdsBelow(fs, m, b)
    /\ \A id \in DOMAIN fs : id < next

\* The inductive invariant of the first session.  Its files are made under growing ids,
\* with what is oldest in memory; and a replay writes over them only versions of logged keys.
FoundInv ==
    session = 1 =>
        /\ FilesInOrder(files, Unlogged)
        /\ Serving \/ Closing =>
              FirstFiles(files, memtable, Unlogged, nextTransactionId, next_sst_id)

\* For fewer keys the same holds.
LEMMA FewerKeys ==
    ASSUME NEW fs, NEW m, NEW K, NEW L \in SUBSET K
    PROVE  /\ FilesInOrder(fs, K) => FilesInOrder(fs, L)
           /\ MemoryInFront(fs, m, K) => MemoryInFront(fs, m, L)
<1>1. FilesInOrder(fs, K) => FilesInOrder(fs, L)
  BY DEF FilesInOrder, AboveOn
<1>2. \A rest : DirectOrdered(m, rest, K) => DirectOrdered(m, rest, L)
  BY DEF DirectOrdered, NewestTableFirst
<1>3. QED
  BY <1>1, <1>2 DEF MemoryInFront

\* Files that are some of the old ones are in order.
LEMMA FewerFiles ==
    ASSUME NEW old, NEW new, NEW K, FilesInOrder(old, K),
           \A id \in DOMAIN new :
              new[id] = Torn \/ (id \in DOMAIN old /\ new[id] = old[id])
    PROVE  FilesInOrder(new, K)
BY DEF FilesInOrder

\* A file for each SST: the files are the old ones and, from a flush, one more.
LEMMA FilesStay ==
    ASSUME DirectoryInv, FilesFollow, UNCHANGED ssts
    PROVE  \A id \in DOMAIN files' : id \in DOMAIN files /\ files'[id] = files[id]
BY DEF DirectoryInv, FilesFollow

LEMMA FilesGrow ==
    ASSUME DirectoryInv, FilesFollow, NEW m \in MemTables, FlushFrom(m)
    PROVE  \A id \in DOMAIN files' :
              \/ id \in DOMAIN files /\ files'[id] = files[id]
              \/ id = next_sst_id /\ ~NothingToFlush(m) /\ files'[id] = FlushedTable(m)
<1>1. ssts' = [id \in DOMAIN ssts \cup {next_sst_id} |->
                 IF id # next_sst_id THEN ssts[id]
                 ELSE IF NothingToFlush(m) THEN NullSst ELSE FlushedTable(m)]
  BY DEF FlushFrom
<1> DEFINE built == {id \in DOMAIN ssts' : ssts'[id] # NullSst}
<1>2. /\ DOMAIN files' = DOMAIN files \cup built
      /\ \A id \in DOMAIN files' : files'[id] = IF id \in built THEN ssts'[id] ELSE files[id]
  BY DEF FilesFollow
<1>3. \A id \in built : \/ id = next_sst_id /\ ~NothingToFlush(m) /\ ssts'[id] = FlushedTable(m)
                        \/ id \in DOMAIN ssts /\ ssts[id] # NullSst /\ ssts'[id] = ssts[id]
  BY <1>1
<1> HIDE DEF built
<1>4. \A id \in DOMAIN ssts : ssts[id] # NullSst => id \in DOMAIN files /\ files[id] = ssts[id]
  BY DEF DirectoryInv
<1>5. QED
  BY <1>2, <1>3, <1>4

\* In front of a table in front of another is in front of both.
LEMMA FrontOfTwo ==
    ASSUME NEW s \in Seq(Table), NEW A \in Table, NEW T \in Table, NEW K,
           NewestTableFirst(s \o (<<A>> \o <<T>>), K)
    PROVE  NewestTableFirst(s \o <<T>>, K) /\ AboveOn(K, A, T)
<1> DEFINE long  == s \o (<<A>> \o <<T>>)
           short == s \o <<T>>
           n == Len(s)
<1>1. /\ n \in Nat /\ DOMAIN long = 1..(n + 2) /\ DOMAIN short = 1..(n + 1)
      /\ long[n + 1] = A /\ long[n + 2] = T /\ short[n + 1] = T
      /\ \A i \in 1..n : long[i] = s[i] /\ short[i] = s[i]
  OBVIOUS
<1>2. \A i, j \in DOMAIN long : i < j => AboveOn(K, long[i], long[j])
  BY DEF NewestTableFirst, AboveOn
<1> HIDE DEF long, short, n
<1>3. AboveOn(K, A, T)
  <2>1. n + 1 \in DOMAIN long /\ n + 2 \in DOMAIN long /\ n + 1 < n + 2
    BY <1>1
  <2>2. QED
    BY <1>1, <1>2, <2>1
<1>4. ASSUME NEW i \in DOMAIN short, NEW j \in DOMAIN short, i < j
      PROVE  AboveOn(K, short[i], short[j])
  <2>1. i \in 1..n /\ i \in DOMAIN long /\ short[i] = long[i]
    BY <1>1, <1>4
  <2>2. CASE j = n + 1
    <3>1. n + 2 \in DOMAIN long /\ i < n + 2 /\ short[j] = long[n + 2]
      BY <1>1, <2>1, <2>2
    <3>2. QED
      BY <1>2, <2>1, <3>1
  <2>3. CASE j # n + 1
    <3>1. j \in 1..n /\ j \in DOMAIN long /\ short[j] = long[j]
      BY <1>1, <2>3
    <3>2. QED
      BY <1>2, <1>4, <2>1, <3>1
  <2>4. QED
    BY <2>2, <2>3
<1>5. NewestTableFirst(short, K)
  BY <1>4 DEF NewestTableFirst, AboveOn
<1>6. QED
  BY <1>3, <1>5 DEF short

\* Tables in front of one are in order themselves.
LEMMA FrontAlone ==
    ASSUME NEW s \in Seq(Table), NEW A \in Table, NEW K, NewestTableFirst(s \o <<A>>, K)
    PROVE  NewestTableFirst(s \o <<>>, K)
<1> DEFINE long == s \o <<A>>
<1>1. /\ DOMAIN s \subseteq DOMAIN long /\ \A i \in DOMAIN s : long[i] = s[i]
      /\ s \o <<>> = s
  OBVIOUS
<1> HIDE DEF long
<1>2. NewestTableFirst(s, K)
  BY <1>1 DEF NewestTableFirst, long
<1>3. QED
  BY <1>1, <1>2

\* A flush in the first session: the new file has the greatest id and what was oldest in
\* memory, so it is in front of the others and behind the rest of memory.
LEMMA FirstFlush ==
    ASSUME EngineTypeOK, DirectoryInv, FilesFollow, NEW m \in MemTables, FlushFrom(m),
           NEW K, NEW b, FirstFiles(files, m, K, b, next_sst_id)
    PROVE  FirstFiles(files', memtable', K, b, next_sst_id')
<1>1. \A id \in DOMAIN files' :
         \/ id \in DOMAIN files /\ files'[id] = files[id]
         \/ id = next_sst_id /\ ~NothingToFlush(m) /\ files'[id] = FlushedTable(m)
  BY FilesGrow
<1>2. /\ memtable' = AfterFlush(m) /\ next_sst_id' = next_sst_id + 1 /\ next_sst_id \in Nat
      /\ DOMAIN files \subseteq Nat
      /\ \A id \in DOMAIN files : files[id] # Torn => files[id] \in Table
  BY DEF FlushFrom, EngineTypeOK, DirectoryInv
<1>3. /\ FilesInOrder(files, K) /\ MemoryInFront(files, m, K) /\ IdsBelow(files, m, b)
      /\ \A id \in DOMAIN files : id < next_sst_id
  BY DEF FirstFiles
<1>4. \A id \in DOMAIN files' : id < next_sst_id'
  BY <1>1, <1>2, <1>3
<1>5. CASE NothingToFlush(m)
  <2>1. /\ memtable' = m
        /\ \A id \in DOMAIN files' : id \in DOMAIN files /\ files'[id] = files[id]
    BY <1>1, <1>2, <1>5 DEF AfterFlush
  <2>2. FilesInOrder(files', K)
    BY <1>3, <2>1, FewerFiles
  <2>3. MemoryInFront(files', m, K) /\ IdsBelow(files', m, b)
    BY <1>3, <2>1 DEF MemoryInFront, IdsBelow
  <2>4. QED
    BY <1>4, <2>1, <2>2, <2>3 DEF FirstFiles
<1>6. CASE ~NothingToFlush(m)
  <2> DEFINE A == FlushedTable(m)
             w == AfterFlush(m)
             s == TablesOf(w)
  <2>1. A \in Table /\ w \in MemTables
    BY <1>6, FlushedTableType, AfterFlushType
  <2>2. s \in Seq(Table)
    BY <2>1, TablesOfType
  <2>3. \A n \in A : n.tranc_id < b
    <3>1. A \in TablesIn(m) \cup {{}}
      BY <1>6, TablesAfterFlush
    <3>2. \A n \in A : n \in VersionsIn(m)
      BY <3>1 DEF TablesIn, VersionsIn
    <3>3. QED
      BY <1>3, <3>2 DEF IdsBelow
  <2>4. \A n \in VersionsIn(w) : n.tranc_id < b
    BY <1>3, AfterFlushKeeps DEF IdsBelow
  <2>5. \A rest \in Seq(Table) :
           DirectOrdered(m, rest, K) => NewestTableFirst(s \o (<<A>> \o rest), K)
    BY <1>6, FlushDirect DEF DirectOrdered
  <2> HIDE DEF A, s, w
  <2>6. NewestTableFirst(s \o <<A>>, K)
    <3>1. <<>> \in Seq(Table) /\ <<A>> \o <<>> = <<A>>
      BY <2>1
    <3>2. QED
      BY <1>3, <2>5, <3>1 DEF MemoryInFront
  <2>7. NewestTableFirst(s \o <<>>, K)
    BY <2>1, <2>2, <2>6, FrontAlone
  <2>8. ASSUME NEW id \in DOMAIN files, files[id] # Torn
        PROVE  NewestTableFirst(s \o <<files[id]>>, K) /\ AboveOn(K, A, files[id])
    <3> DEFINE T == files[id]
    <3>1. T \in Table
      BY <1>2, <2>8
    <3>2. DirectOrdered(m, <<T>>, K)
      BY <1>3, <2>8 DEF MemoryInFront
    <3> HIDE DEF T
    <3>3. <<T>> \in Seq(Table)
      BY <3>1
    <3>4. NewestTableFirst(s \o (<<A>> \o <<T>>), K)
      BY <2>5, <3>2, <3>3
    <3>5. NewestTableFirst(s \o <<T>>, K) /\ AboveOn(K, A, T)
      BY <2>1, <2>2, <3>1, <3>4, FrontOfTwo
    <3>6. QED
      BY <3>5 DEF T
  <2>9. \A id \in DOMAIN files' :
           \/ id \in DOMAIN files /\ files'[id] = files[id]
           \/ id = next_sst_id /\ files'[id] = A
    BY <1>1 DEF A
  <2>10. FilesInOrder(files', K)
    <3> SUFFICES ASSUME NEW a \in DOMAIN files', NEW c \in DOMAIN files', a > c,
                        files'[a] # Torn, files'[c] # Torn
                 PROVE  AboveOn(K, files'[a], files'[c])
      BY DEF FilesInOrder
    <3>1. a \in Nat /\ c \in Nat /\ a <= next_sst_id
      BY <1>2, <1>3, <2>9
    <3>2. c < next_sst_id
      BY <1>2, <3>1
    <3>3. c \in DOMAIN files /\ files'[c] = files[c]
      BY <2>9, <3>2, <1>2, <3>1
    <3>4. CASE a \in DOMAIN files /\ files'[a] = files[a]
      BY <1>3, <3>3, <3>4 DEF FilesInOrder
    <3>5. CASE a = next_sst_id /\ files'[a] = A
      BY <2>8, <3>3, <3>5
    <3>6. QED
      BY <2>9, <3>4, <3>5
  <2>11. MemoryInFront(files', w, K)
    <3>1. DirectOrdered(w, <<>>, K)
      BY <2>7 DEF DirectOrdered, s
    <3>2. ASSUME NEW id \in DOMAIN files', files'[id] # Torn
          PROVE  DirectOrdered(w, <<files'[id]>>, K)
      <4>1. NewestTableFirst(s \o <<files'[id]>>, K)
        BY <2>6, <2>8, <2>9, <3>2
      <4>2. QED
        BY <4>1 DEF DirectOrdered, s
    <3>3. QED
      BY <3>1, <3>2 DEF MemoryInFront
  <2>12. IdsBelow(files', w, b)
    <3>1. \A id \in DOMAIN files : files[id] # Torn => \A n \in files[id] : n.tranc_id < b
      BY <1>3 DEF IdsBelow
    <3>2. QED
      BY <2>3, <2>4, <2>9, <3>1 DEF IdsBelow
  <2>13. memtable' = w
    BY <1>2 DEF w
  <2>14. QED
    BY <1>4, <2>10, <2>11, <2>12, <2>13 DEF FirstFiles
<1>7. QED
  BY <1>5, <1>6

LEMMA FirstFlushIfFull ==
    ASSUME EngineTypeOK, DirectoryInv, FilesFollow, NEW m \in MemTables,
           NEW K, NEW b, FirstFiles(files, m, K, b, next_sst_id),
           FlushIfFull(m) \/ FlushFrom(m) \/ (memtable' = m /\ UNCHANGED <<ssts, next_sst_id>>)
    PROVE  FirstFiles(files', memtable', K, b, next_sst_id')
<1>1. CASE FlushFrom(m)
  BY <1>1, FirstFlush
<1>2. CASE memtable' = m /\ UNCHANGED <<ssts, next_sst_id>>
  <2>1. \A id \in DOMAIN files' : id \in DOMAIN files /\ files'[id] = files[id]
    BY <1>2, FilesStay
  <2>2. /\ FilesInOrder(files, K) /\ MemoryInFront(files, m, K) /\ IdsBelow(files, m, b)
        /\ \A id \in DOMAIN files : id < next_sst_id
    BY DEF FirstFiles
  <2>3. FilesInOrder(files', K)
    BY <2>1, <2>2, FewerFiles
  <2>4. MemoryInFront(files', m, K) /\ IdsBelow(files', m, b)
    BY <2>1, <2>2 DEF MemoryInFront, IdsBelow
  <2>5. QED
    BY <1>2, <2>1, <2>2, <2>3, <2>4 DEF FirstFiles
<1>3. QED
  BY <1>1, <1>2 DEF FlushIfFull

\* A put under an id above all others.
LEMMA FirstPut ==
    ASSUME NEW fs, \A id \in DOMAIN fs : fs[id] # Torn => fs[id] \in Table,
           NEW m \in MemTables, NEW k \in Keys, NEW v \in Payload, NEW t \in Nat,
           NEW K, NEW next, FirstFiles(fs, m, K, t, next)
    PROVE  FirstFiles(fs, MemPut(m, k, v, t), K, t + 1, next)
<1> DEFINE w == MemPut(m, k, v, t)
<1>1. FilesInOrder(fs, K) /\ MemoryInFront(fs, m, K) /\ IdsBelow(fs, m, t)
      /\ \A id \in DOMAIN fs : id < next
  BY DEF FirstFiles
<1>2. \A T \in Table : \A n \in T : n.tranc_id \in Nat
  BY DEF Table, Version
<1>3. m.frozen_tables \in Seq(Table)
  BY DEF MemTables
<1>4. \A i \in DOMAIN m.frozen_tables : \A n \in m.frozen_tables[i] : n.tranc_id <= t
  <2> SUFFICES ASSUME NEW i \in DOMAIN m.frozen_tables, NEW n \in m.frozen_tables[i]
               PROVE  n.tranc_id <= t
    OBVIOUS
  <2>1. n \in VersionsIn(m)
    BY VersionsInParts
  <2>2. n.tranc_id < t
    BY <1>1, <2>1 DEF IdsBelow
  <2>3. n.tranc_id \in Nat
    BY <1>2, <1>3
  <2>4. QED
    BY <2>2, <2>3
<1>5. DirectOrdered(w, <<>>, K)
  <2>1. Behind(m, <<>>) = m.frozen_tables /\ <<>> \in Seq(Table)
    BY <1>3 DEF Behind
  <2>2. \A i \in DOMAIN Behind(m, <<>>) : \A n \in Behind(m, <<>>)[i] : n.tranc_id <= t
    BY <1>4, <2>1
  <2>3. DirectOrdered(m, <<>>, K)
    BY <1>1 DEF MemoryInFront
  <2>4. QED
    BY <2>1, <2>2, <2>3, PutDirect
<1>6. ASSUME NEW id \in DOMAIN fs, fs[id] # Torn PROVE DirectOrdered(w, <<fs[id]>>, K)
  <2> DEFINE T == fs[id]
             f == m.frozen_tables
  <2>1. T \in Table /\ DirectOrdered(m, <<T>>, K)
    BY <1>1, <1>6 DEF MemoryInFront
  <2>2. \A n \in T : n.tranc_id <= t
    <3> SUFFICES ASSUME NEW n \in T PROVE n.tranc_id <= t
      OBVIOUS
    <3>1. n.tranc_id < t
      BY <1>1, <1>6 DEF IdsBelow
    <3>2. n.tranc_id \in Nat
      BY <1>2, <2>1
    <3>3. QED
      BY <3>1, <3>2
  <2>3. f \in Seq(Table) /\ \A i \in DOMAIN f : \A n \in f[i] : n.tranc_id <= t
    BY <1>3, <1>4
  <2> HIDE DEF T, f
  <2>4. \A i \in DOMAIN (f \o <<T>>) : (f \o <<T>>)[i] = T \/ (i \in DOMAIN f /\ (f \o <<T>>)[i] = f[i])
    BY <2>3
  <2>5. \A i \in DOMAIN (f \o <<T>>) : \A n \in (f \o <<T>>)[i] : n.tranc_id <= t
    BY <2>2, <2>3, <2>4
  <2>6. Behind(m, <<T>>) = f \o <<T>>
    BY DEF Behind, f
  <2>7. <<T>> \in Seq(Table)
    BY <2>1
  <2>8. DirectOrdered(MemPut(m, k, v, t), <<T>>, K)
    BY <2>1, <2>5, <2>6, <2>7, PutDirect
  <2>9. QED
    BY <2>8 DEF T
<1>7. IdsBelow(fs, w, t + 1)
  <2>1. ASSUME NEW n \in VersionsIn(w) PROVE n.tranc_id < t + 1
    <3>1. n \in VersionsIn(m) \/ n = Node(k, v, t)
      BY MemPutKeeps
    <3>2. CASE n = Node(k, v, t)
      BY <3>2 DEF Node
    <3>3. CASE n \in VersionsIn(m)
      <4>1. n.tranc_id < t
        BY <1>1, <3>3 DEF IdsBelow
      <4>2. n.tranc_id \in Nat
        <5>1. n \in m.current_table \/ \E i \in DOMAIN m.frozen_tables : n \in m.frozen_tables[i]
          BY <3>3, VersionsInParts
        <5>2. m.current_table \in Table
          BY DEF MemTables
        <5>3. QED
          BY <1>2, <1>3, <5>1, <5>2
      <4>3. QED
        BY <4>1, <4>2
    <3>4. QED
      BY <3>1, <3>2, <3>3
  <2>2. ASSUME NEW id \in DOMAIN fs, fs[id] # Torn, NEW n \in fs[id] PROVE n.tranc_id < t + 1
    <3>1. n.tranc_id < t
      BY <1>1, <2>2 DEF IdsBelow
    <3>2. n.tranc_id \in Nat
      BY <1>2, <2>2
    <3>3. QED
      BY <3>1, <3>2
  <2>3. QED
    BY <2>1, <2>2 DEF IdsBelow
<1> HIDE DEF w
<1>8. QED
  BY <1>1, <1>5, <1>6, <1>7 DEF FirstFiles, MemoryInFront, w

\* A commit under other keys.
LEMMA FirstCommit ==
    ASSUME NEW fs, \A id \in DOMAIN fs : fs[id] # Torn => fs[id] \in Table,
           NEW m \in MemTables, NEW D \in SUBSET Keys, IsFiniteSet(D),
           NEW map \in [D -> Payload], NEW t \in Nat, NEW K, D \cap K = {},
           NEW b, t < b, NEW next, FirstFiles(fs, m, K, b, next)
    PROVE  FirstFiles(fs, MemPutAll_(m, map, t), K, b, next)
<1> DEFINE w == MemPutAll_(m, map, t)
<1>1. FilesInOrder(fs, K) /\ MemoryInFront(fs, m, K) /\ IdsBelow(fs, m, b)
      /\ \A id \in DOMAIN fs : id < next
  BY DEF FirstFiles
<1>2. \A rest \in Seq(Table) : DirectOrdered(m, rest, K) => DirectOrdered(w, rest, K)
  BY CommitDirect
<1>3. \A n \in VersionsIn(w) : n \in VersionsIn(m) \/ n.tranc_id = t
  BY MemPutAll_Keeps
<1> HIDE DEF w
<1>4. IdsBelow(fs, w, b)
  BY <1>1, <1>3 DEF IdsBelow
<1>5. <<>> \in Seq(Table) /\ \A T \in Table : <<T>> \in Seq(Table)
  OBVIOUS
<1>6. MemoryInFront(fs, w, K)
  BY <1>1, <1>2, <1>5 DEF MemoryInFront
<1>7. QED
  BY <1>1, <1>4, <1>6 DEF FirstFiles, w

\* The log of a session only grows.
LEMMA LogGrows ==
    ASSUME wal \in Seq(WalRecords), NEW ops \in Seq(WalRecords), wal' = wal \o ops
    PROVE  /\ Unlogged' \subseteq Unlogged
           /\ \A j \in DOMAIN ops : ops[j].op \in {"PUT", "DELETE"} => ops[j].key \in LoggedKeys'
<1> DEFINE all == wal \o ops
<1>1. /\ \A i \in DOMAIN wal : i \in DOMAIN all /\ all[i] = wal[i]
      /\ \A j \in DOMAIN ops : Len(wal) + j \in DOMAIN all /\ all[Len(wal) + j] = ops[j]
  OBVIOUS
<1> HIDE DEF all
<1>2. LoggedKeys' = {all[i].key : i \in {j \in DOMAIN all : all[j].op \in {"PUT", "DELETE"}}}
  BY DEF LoggedKeys, all
<1>3. ASSUME NEW i \in DOMAIN all, all[i].op \in {"PUT", "DELETE"}
      PROVE  all[i].key \in LoggedKeys'
  BY <1>2, <1>3
<1>4. ASSUME NEW k \in LoggedKeys PROVE k \in LoggedKeys'
  <2>1. PICK i \in DOMAIN wal : wal[i].op \in {"PUT", "DELETE"} /\ wal[i].key = k
    BY DEF LoggedKeys
  <2>2. i \in DOMAIN all /\ all[i] = wal[i]
    BY <1>1
  <2>3. QED
    BY <1>3, <2>1, <2>2
<1>5. ASSUME NEW j \in DOMAIN ops, ops[j].op \in {"PUT", "DELETE"}
      PROVE  ops[j].key \in LoggedKeys'
  <2>1. Len(wal) + j \in DOMAIN all /\ all[Len(wal) + j] = ops[j]
    BY <1>1
  <2>2. QED
    BY <1>3, <1>5, <2>1
<1>6. QED
  BY <1>4, <1>5 DEF Unlogged

LEMMA SessionGrowsLog ==
    ASSUME StateInv, SessionCall
    PROVE  Unlogged' \subseteq Unlogged
<1>1. Serving /\ wal \in Seq(WalRecords)
  BY StateSession DEF StateInv, TypeInv
<1>2. CASE UNCHANGED wal
  BY <1>2 DEF Unlogged, LoggedKeys
<1>3. ASSUME NEW t \in Open, CommitSucceeds(t) \/ CommitTestFail(t)
      PROVE  Unlogged' \subseteq Unlogged
  <2>1. PICK ops \in Seq(WalRecords) : wal' = wal \o ops
    BY <1>1, <1>3, CommitLogs
  <2>2. QED
    BY <1>1, <2>1, LogGrows
<1>4. UNCHANGED wal \/ \E t \in Open : CommitSucceeds(t) \/ CommitTestFail(t)
  BY DEF SessionCall, SessionPut, SessionCommit, SessionOther, Put, Get, Flush, StartFlushAll,
         FlushAllTurn, FlushLoopTurn, EndFlushAll, BeginTran, TranWrite, CommitFails, Abort,
         tranVars
<1>5. QED
  BY <1>2, <1>3, <1>4

\* What holds of the first files holds of them for fewer keys, and for a greater id.
LEMMA FirstWeaker ==
    ASSUME NEW fs, \A id \in DOMAIN fs : fs[id] # Torn => fs[id] \in Table,
           NEW m \in MemTables, NEW K, NEW L \in SUBSET K,
           NEW b \in Nat, NEW c \in Nat, b <= c, NEW next, FirstFiles(fs, m, K, b, next)
    PROVE  FirstFiles(fs, m, L, c, next)
<1>1. /\ FilesInOrder(fs, K) /\ MemoryInFront(fs, m, K) /\ IdsBelow(fs, m, b)
      /\ \A id \in DOMAIN fs : id < next
  BY DEF FirstFiles
<1>2. FilesInOrder(fs, L) /\ MemoryInFront(fs, m, L)
  BY <1>1, FewerKeys
<1>3. \A T \in Table : \A n \in T : n.tranc_id \in Nat
  BY DEF Table, Version
<1>4. \A n \in VersionsIn(m) : n.tranc_id \in Nat
  <2>1. m.current_table \in Table /\ \A i \in DOMAIN m.frozen_tables : m.frozen_tables[i] \in Table
    BY DEF MemTables
  <2>2. QED
    BY <1>3, <2>1, VersionsInParts
<1>5. ASSUME NEW x \in Nat, x < b PROVE x < c
  BY <1>5
<1>6. \A n \in VersionsIn(m) : n.tranc_id < c
  BY <1>1, <1>4, <1>5 DEF IdsBelow
<1>7. \A id \in DOMAIN fs : fs[id] # Torn => \A n \in fs[id] : n.tranc_id < c
  <2> SUFFICES ASSUME NEW id \in DOMAIN fs, fs[id] # Torn, NEW n \in fs[id] PROVE n.tranc_id < c
    OBVIOUS
  <2>1. n.tranc_id \in Nat
    BY <1>3
  <2>2. n.tranc_id < b
    BY <1>1 DEF IdsBelow
  <2>3. QED
    BY <1>5, <2>1, <2>2
<1>8. QED
  BY <1>1, <1>2, <1>6, <1>7 DEF FirstFiles, IdsBelow

\* A call of the first session.
LEMMA FoundSession ==
    ASSUME StateInv, FoundInv, SessionCall
    PROVE  FoundInv'
<1> SUFFICES ASSUME session = 1
             PROVE  FirstFiles(files', memtable', Unlogged', nextTransactionId', next_sst_id')
  <2>1. UNCHANGED session
    BY DEF SessionCall
  <2>2. QED
    BY <2>1 DEF FoundInv, FirstFiles
<1>1. /\ Serving /\ FilesFollow /\ EngineTypeOK /\ DirectoryInv /\ memtable \in MemTables
      /\ nextTransactionId \in Nat /\ LogInv /\ TypeOK
  BY StateSession, ServingType DEF StateInv, TypeInv, SessionsInv, EngineTypeOK, SessionCall
<1>2. \A id \in DOMAIN files : files[id] # Torn => files[id] \in Table
  BY <1>1 DEF DirectoryInv
<1> DEFINE K == Unlogged'
           b == nextTransactionId
<1>3. K \in SUBSET Unlogged
  BY SessionGrowsLog
<1>4. FirstFiles(files, memtable, Unlogged, b, next_sst_id)
  BY <1>1 DEF FoundInv
<1> HIDE DEF K
<1>5. FirstFiles(files, memtable, K, b, next_sst_id)
  <2>1. b <= b
    BY <1>1
  <2> HIDE DEF b
  <2>2. b \in Nat
    BY <1>1 DEF b
  <2>3. QED
    BY <1>1, <1>2, <1>3, <1>4, <2>1, <2>2, FirstWeaker
<1>6. CASE SessionPut
  <2>1. PICK k \in Keys, v \in Payload : Put(k, v)
    BY <1>6 DEF SessionPut
  <2> DEFINE m == MemPut(memtable, k, v, b)
  <2>2. m \in MemTables
    BY <1>1, MemPutType
  <2>3. FlushIfFull(m) /\ nextTransactionId' = b + 1
    BY <2>1 DEF Put, EnginePut, TakeId
  <2>4. FirstFiles(files, m, K, b + 1, next_sst_id)
    BY <1>1, <1>2, <1>5, FirstPut
  <2> HIDE DEF m, b
  <2>5. FirstFiles(files', memtable', K, b + 1, next_sst_id')
    BY <1>1, <2>2, <2>3, <2>4, FirstFlushIfFull
  <2>6. QED
    BY <2>3, <2>5 DEF K
<1>7. CASE SessionCommit
  <2>1. PICK t \in Open : CommitSucceeds(t)
    BY <1>7 DEF SessionCommit
  <2> DEFINE map == activeTrans[t].temp_map
             D   == DOMAIN map
             m   == MemPutAll_(memtable, map, t)
  <2>2. t \in Nat /\ t \in DOMAIN activeTrans /\ IsTran(activeTrans[t]) /\ t < b
    BY <1>1 DEF Open, TypeOK, LogInv
  <2>3. D \in SUBSET Keys /\ IsFiniteSet(D) /\ map \in [D -> Payload]
    BY <2>2 DEF IsTran, IsMap
  <2>4. /\ memtable' = m /\ UNCHANGED <<ssts, next_sst_id>> /\ nextTransactionId' = b
    BY <2>1 DEF CommitSucceeds
  <2>5. D \cap K = {}
    <3>1. PICK ops \in Seq(WalRecords) : wal' = wal \o ops /\ Matches(ops, map)
      BY <1>1, <2>1, CommitLogs
    <3>2. wal \in Seq(WalRecords)
      BY <1>1 DEF TypeOK
    <3>3. \A j \in DOMAIN ops : ops[j].op \in {"PUT", "DELETE"} => ops[j].key \in LoggedKeys'
      BY <3>1, <3>2, LogGrows
    <3>4. \A k \in D : \E j \in DOMAIN ops : WritesKey(ops[j], k)
      BY <3>1 DEF Matches
    <3> HIDE DEF D
    <3>5. QED
      BY <3>3, <3>4 DEF WritesKey, K, Unlogged
  <2>6. m \in MemTables
    BY <1>1, <2>2, <2>3, MemPutAll_Type
  <2>7. FirstFiles(files, m, K, b, next_sst_id)
    <3> HIDE DEF map, b
    <3>1. QED
      BY <1>1, <1>2, <1>5, <2>2, <2>3, <2>5, FirstCommit
  <2> HIDE DEF m, b, D, map
  <2>8. FirstFiles(files', memtable', K, b, next_sst_id')
    BY <1>1, <2>4, <2>6, <2>7, FirstFlushIfFull
  <2>9. QED
    BY <2>4, <2>8 DEF K
<1>8. CASE SessionOther
  <2>1. UNCHANGED engineVars \/ EngineFlush
    <3>1. CASE \/ Get \/ StartFlushAll \/ EndFlushAll \/ BeginTran
               \/ \E t \in Open : CommitFails(t) \/ CommitTestFail(t) \/ Abort(t)
      BY <3>1 DEF Get, StartFlushAll, EndFlushAll, BeginTran, CommitFails, CommitTestFail, Abort
    <3>2. CASE Flush \/ FlushAllTurn
      BY <3>2 DEF Flush, FlushAllTurn, FlushLoopTurn
    <3>3. CASE \E t \in Open, k \in Keys, v \in Payload : TranWrite(t, k, v)
      BY <3>3, Level DEF TranWrite, WritesAside
    <3>4. QED
      BY <1>8, <3>1, <3>2, <3>3 DEF SessionOther
  <2>2. nextTransactionId' = b \/ nextTransactionId' = b + 1
    BY <1>8 DEF SessionOther, Get, StartFlushAll, EndFlushAll, BeginTran, CommitFails,
                CommitTestFail, Abort, Flush, FlushAllTurn, FlushLoopTurn, TranWrite, TakeId,
                tranVars
  <2>3. b \in Nat /\ nextTransactionId' \in Nat /\ b <= nextTransactionId'
    BY <1>1, <2>2
  <2> DEFINE m == memtable
             c == nextTransactionId'
  <2>4. FlushFrom(m) \/ (memtable' = m /\ UNCHANGED <<ssts, next_sst_id>>)
    BY <2>1 DEF EngineFlush, engineVars
  <2> HIDE DEF b, c
  <2>5. b \in Nat /\ c \in Nat /\ b <= c
    BY <2>3 DEF c
  <2>6. FirstFiles(files, m, K, c, next_sst_id)
    BY <1>1, <1>2, <1>5, <2>5, FirstWeaker
  <2>7. FirstFiles(files', memtable', K, c, next_sst_id')
    <3>1. m \in MemTables
      BY <1>1
    <3> HIDE DEF m
    <3>2. QED
      BY <1>1, <2>4, <2>6, <3>1, FirstFlushIfFull
  <2>8. QED
    BY <2>7 DEF K, c
<1>9. QED
  BY <1>6, <1>7, <1>8 DEF SessionCall

\* The destructor flushes as a call does.
LEMMA FoundClosing ==
    ASSUME StateInv, FoundInv, StartClose \/ CloseTurn
    PROVE  FoundInv'
<1>1. CASE StartClose
  <2>1. /\ Serving
        /\ UNCHANGED <<memtable, files, wal, nextTransactionId, next_sst_id, session>>
    BY <1>1 DEF StartClose, Serving, engineVars, tranVars
  <2>2. Unlogged' = Unlogged
    BY <2>1 DEF Unlogged, LoggedKeys
  <2>3. QED
    BY <2>1, <2>2 DEF FoundInv
<1>2. CASE CloseTurn
  <2>1. Closing
    BY <1>2, StateCloseTurn
  <2>2. /\ FilesFollow /\ EngineTypeOK /\ DirectoryInv /\ memtable \in MemTables
        /\ FlushFrom(memtable) /\ UNCHANGED <<wal, nextTransactionId, session>>
    BY <1>2 DEF CloseTurn, FlushLoopTurn, EngineFlush, StateInv, TypeInv, EngineTypeOK
  <2>3. Unlogged' = Unlogged
    BY <2>2 DEF Unlogged, LoggedKeys
  <2>4. session = 1 => FirstFiles(files', memtable', Unlogged, nextTransactionId, next_sst_id')
    <3> SUFFICES ASSUME session = 1
                 PROVE  FirstFiles(files', memtable', Unlogged, nextTransactionId, next_sst_id')
      OBVIOUS
    <3>1. FirstFiles(files, memtable, Unlogged, nextTransactionId, next_sst_id)
      BY <2>1 DEF FoundInv
    <3>2. QED
      BY <2>2, <3>1, FirstFlush
  <2>5. QED
    BY <2>2, <2>3, <2>4 DEF FoundInv, FirstFiles
<1>3. QED
  BY <1>1, <1>2

\* Where no process is left, or none is ready, only the files count.
LEMMA FoundAway ==
    ASSUME StateInv, FoundInv, session' = session, ~Serving', ~Closing',
           Unlogged' \subseteq Unlogged,
           \A id \in DOMAIN files' :
              files'[id] = Torn \/ (id \in DOMAIN files /\ files'[id] = files[id])
    PROVE  FoundInv'
<1>1. session = 1 => FilesInOrder(files', Unlogged')
  <2> SUFFICES ASSUME session = 1 PROVE FilesInOrder(files', Unlogged')
    OBVIOUS
  <2>1. FilesInOrder(files, Unlogged)
    BY DEF FoundInv
  <2>2. FilesInOrder(files', Unlogged)
    BY <2>1, FewerFiles
  <2> DEFINE L == Unlogged'
  <2>3. L \in SUBSET Unlogged
    OBVIOUS
  <2> HIDE DEF L
  <2>4. FilesInOrder(files', L)
    BY <2>2, <2>3, FewerKeys
  <2>5. QED
    BY <2>4 DEF L
<1>2. QED
  BY <1>1 DEF FoundInv

LEMMA FoundGone ==
    ASSUME StateInv, FoundInv,
           EndClose \/ Crash \/ CrashInFlush \/ \E t \in Open : CrashInCommit(t)
    PROVE  FoundInv'
<1>1. session' = session /\ ~Serving' /\ ~Closing'
  <2>1. Away' /\ UNCHANGED session
    BY StateEndClose, StateCrash, StateCrashInFlush, StateCrashInCommit
       DEF EndClose, Crash, CrashInFlush, CrashInCommit
  <2>2. QED
    BY <2>1 DEF Away, Serving, Closing, Idle
<1>2. Unlogged' \subseteq Unlogged
  <2>1. CASE UNCHANGED wal
    BY <2>1 DEF Unlogged, LoggedKeys
  <2>2. ASSUME NEW t \in Open, CrashInCommit(t) PROVE Unlogged' \subseteq Unlogged
    <3>1. PICK ops \in Seq(WalRecords) : wal' = wal \o ops
      BY <2>2, CrashLogs
    <3>2. wal \in Seq(WalRecords)
      BY DEF StateInv, TypeInv
    <3>3. QED
      BY <3>1, <3>2, LogGrows
  <2>3. QED
    BY <2>1, <2>2 DEF EndClose, Crash, CrashInFlush
<1>3. \A id \in DOMAIN files' :
         files'[id] = Torn \/ (id \in DOMAIN files /\ files'[id] = files[id])
  BY DEF EndClose, Crash, CrashInFlush, CrashInCommit
<1>4. QED
  BY <1>1, <1>2, <1>3, FoundAway

\* A replay writes over the files of the first session only tables of logged keys.
LEMMA FoundReplayed ==
    ASSUME StateInv, ReplayInv, FoundInv, RecoverTurn
    PROVE  FoundInv'
<1>1. /\ Replaying /\ FilesFollow /\ ~Serving' /\ ~Closing' /\ UNCHANGED <<wal, session>>
      /\ EngineTypeOK /\ DirectoryInv /\ memtable \in MemTables
      /\ NextRecord \in DOMAIN wal
  BY ReplayTurn, StateRecoverTurn DEF StateInv, TypeInv, EngineTypeOK
<1>2. Unlogged' = Unlogged
  BY <1>1 DEF Unlogged, LoggedKeys
<1>3. CASE UNCHANGED ssts
  <2>1. \A id \in DOMAIN files' : id \in DOMAIN files /\ files'[id] = files[id]
    BY <1>1, <1>3, FilesStay
  <2>2. QED
    BY <1>1, <1>2, <2>1, FoundAway
<1>4. CASE /\ wal[NextRecord].op \in {"PUT", "DELETE"}
           /\ wal[NextRecord].key \in Keys /\ wal[NextRecord].value \in Payload
           /\ wal[NextRecord].tranc_id \in Nat
           /\ Replayed \in MemTables
           /\ FlushFrom(Replayed)
  <2> DEFINE m == Replayed
             T == FlushedTable(m)
  <2>1. m = MemPut(memtable, wal[NextRecord].key, wal[NextRecord].value,
                   wal[NextRecord].tranc_id)
    BY DEF Replayed
  <2>2. \A n \in VersionsIn(memtable) : n.key \in LoggedKeys
    <3>1. /\ Replays(wal, DOMAIN wal \ todo.left, MadeTables)
          /\ MadeFiles \in Seq(Table) /\ MadeTables = Tables \o MadeFiles
      BY <1>1, MadeFilesType DEF ReplayInv
    <3> DEFINE a == TablesOf(memtable)
               r == MadeFiles
    <3>2. a \in Seq(Table) /\ r \in Seq(Table) /\ MadeTables = a \o r
      BY <1>1, <3>1, TablesOfType DEF Tables
    <3>3. \A n \in VersionsIn(memtable) : \E i \in DOMAIN a : n \in a[i]
      BY DEF VersionsIn
    <3> HIDE DEF a, r
    <3>4. \A i \in DOMAIN a : i \in DOMAIN MadeTables /\ MadeTables[i] = a[i]
      BY <3>2
    <3>5. \A n \in VersionsIn(memtable) :
             \E j \in DOMAIN wal : WritesTo(wal[j], n.key, n.tranc_id)
      BY <3>1, <3>3, <3>4 DEF Replays
    <3>6. QED
      BY <3>5 DEF WritesTo, LoggedKeys
  <2>3. wal[NextRecord].key \in LoggedKeys
    BY <1>1, <1>4 DEF LoggedKeys
  <2>4. \A n \in VersionsIn(m) : n.key \in LoggedKeys
    <3> DEFINE k == wal[NextRecord].key
               v == wal[NextRecord].value
               t == wal[NextRecord].tranc_id
    <3>1. VersionsIn(MemPut(memtable, k, v, t)) \subseteq VersionsIn(memtable) \cup {Node(k, v, t)}
      BY <1>1, <1>4, MemPutKeeps
    <3>2. Node(k, v, t).key = k
      BY DEF Node
    <3> HIDE DEF k, v, t, m
    <3>3. k \in LoggedKeys /\ m = MemPut(memtable, k, v, t)
      BY <2>1, <2>3 DEF k, v, t
    <3>4. QED
      BY <2>2, <3>1, <3>2, <3>3
  <2> HIDE DEF m
  <2>5. m \in MemTables /\ FlushFrom(m)
    BY <1>4 DEF m
  <2>6. ~NothingToFlush(m) => \A n \in T : n.key \notin Unlogged
    <3> SUFFICES ASSUME ~NothingToFlush(m), NEW n \in T PROVE n.key \notin Unlogged
      OBVIOUS
    <3>1. T \in TablesIn(m) \cup {{}}
      BY <2>5, TablesAfterFlush
    <3>2. n \in VersionsIn(m)
      BY <3>1 DEF TablesIn, VersionsIn
    <3>3. QED
      BY <2>4, <3>2 DEF Unlogged
  <2>7. \A id \in DOMAIN files' :
           \/ id \in DOMAIN files /\ files'[id] = files[id]
           \/ id = next_sst_id /\ ~NothingToFlush(m) /\ files'[id] = T
    BY <1>1, <2>5, FilesGrow
  <2> HIDE DEF T
  <2>8. session = 1 => FilesInOrder(files', Unlogged)
    <3> SUFFICES ASSUME session = 1, NEW a \in DOMAIN files', NEW c \in DOMAIN files', a > c,
                        files'[a] # Torn, files'[c] # Torn
                 PROVE  AboveOn(Unlogged, files'[a], files'[c])
      BY DEF FilesInOrder
    <3>1. CASE ~NothingToFlush(m) /\ (files'[a] = T \/ files'[c] = T)
      BY <2>6, <3>1 DEF AboveOn
    <3>2. CASE /\ a \in DOMAIN files /\ files'[a] = files[a]
               /\ c \in DOMAIN files /\ files'[c] = files[c]
      BY <3>2 DEF FoundInv, FilesInOrder
    <3>3. QED
      BY <2>7, <3>1, <3>2
  <2>9. QED
    BY <1>1, <1>2, <2>8 DEF FoundInv
<1>5. QED
  BY <1>3, <1>4, ReplayEngine DEF FlushIfFull, engineVars

LEMMA FoundOpening ==
    ASSUME StateInv, ReplayInv, FoundInv, Opening
    PROVE  FoundInv'
<1>1. CASE OpenFails \/ StartOpen
  <2>1. ~Serving' /\ ~Closing' /\ UNCHANGED <<files, wal, session>>
    <3>1. CASE OpenFails
      <4>1. Away'
        BY <3>1, StateOpenFails
      <4>2. QED
        BY <3>1, <4>1 DEF OpenFails, tranVars, Away, Serving, Closing, Idle
    <3>2. CASE StartOpen
      BY <3>2, StateStartOpen DEF StartOpen
    <3>3. QED
      BY <1>1, <3>1, <3>2
  <2>2. Unlogged' = Unlogged
    BY <2>1 DEF Unlogged, LoggedKeys
  <2>3. QED
    BY <2>1, <2>2, FoundAway
<1>2. CASE RecoverTurn
  BY <1>2, FoundReplayed
<1>3. CASE EndOpen
  <2>1. session' = session + 1 /\ session \in 1..MaxSession
    BY <1>3, StateEndOpen DEF StateInv, SessionsInv
  <2>2. session' # 1
    BY <2>1, SessionsBounded
  <2>3. QED
    BY <2>2 DEF FoundInv
<1>4. QED
  BY <1>1, <1>2, <1>3 DEF Opening

LEMMA FoundInit == RecoveryInit => FoundInv
<1> SUFFICES ASSUME RecoveryInit PROVE FoundInv
  OBVIOUS
<1>1. DOMAIN files = {} /\ memtable = NewMemTable /\ NewMemTable \in MemTables
  BY EmptyTable DEF RecoveryInit, Init, EngineInit, NewMemTable, MemTables
<1>2. FilesInOrder(files, Unlogged)
  BY <1>1 DEF FilesInOrder
<1>3. VersionsIn(memtable) = {}
  <2>1. NewMemTable.current_table = {} /\ NewMemTable.frozen_tables = <<>>
    BY DEF NewMemTable
  <2>2. QED
    BY <1>1, <2>1, VersionsInParts
<1>4. DirectOrdered(memtable, <<>>, Unlogged)
  <2>1. TablesOf(memtable) \o <<>> = <<{}>>
    BY <1>1 DEF TablesOf, NewMemTable
  <2>2. QED
    BY <2>1 DEF DirectOrdered, NewestTableFirst
<1>5. QED
  BY <1>1, <1>2, <1>3, <1>4 DEF FoundInv, FirstFiles, MemoryInFront, IdsBelow

LEMMA FoundStep ==
    ASSUME RecoveryInv, FoundInv, [RecoveryNext]_recoveryVars
    PROVE  FoundInv'
<1>1. StateInv /\ ReplayInv
  BY DEF RecoveryInv, StateInv
<1>2. CASE UNCHANGED recoveryVars
  <2>1. UNCHANGED <<memtable, next_sst_id, nextTransactionId, wal, todo, files, session>>
    BY <1>2 DEF recoveryVars, vars, engineVars, tranVars
  <2>2. UNCHANGED <<Serving, Closing, Unlogged>>
    BY <2>1 DEF Serving, Closing, Unlogged, LoggedKeys
  <2>3. QED
    BY <2>1, <2>2 DEF FoundInv
<1>3. CASE SessionCall
  BY <1>1, <1>3, FoundSession
<1>4. CASE Ending
  BY <1>1, <1>4, FoundClosing, FoundGone DEF Ending
<1>5. CASE Opening
  BY <1>1, <1>5, FoundOpening
<1>6. QED
  BY <1>2, <1>3, <1>4, <1>5 DEF RecoveryNext

\* An opening lists the files of the first session with the newest in front.
LEMMA OpensNewestFirst ==
    ASSUME RecoveryInv, FoundInv, StartOpen, session = 1
    PROVE  NewestTableFirst([i \in DOMAIN level_sst_ids' |-> ssts'[level_sst_ids'[i]]],
                            Keys \ LoggedKeys)
<1>1. /\ ssts' = files /\ level_sst_ids' = Found
      /\ \A id \in DOMAIN files : files[id] # Torn
  BY DEF StartOpen
<1>2. /\ \A i, j \in DOMAIN Found : i < j => Found[i] > Found[j]
      /\ \A i \in DOMAIN Found : Found[i] \in DOMAIN files
  BY FoundFiles DEF RecoveryInv, Descending
<1>3. FilesInOrder(files, Keys \ LoggedKeys)
  BY DEF FoundInv, Unlogged
<1> DEFINE ids == Found
           S == [i \in DOMAIN ids |-> files[ids[i]]]
<1>4. ASSUME NEW i \in DOMAIN ids, NEW j \in DOMAIN ids, i < j
      PROVE  AboveOn(Keys \ LoggedKeys, files[ids[i]], files[ids[j]])
  BY <1>1, <1>2, <1>3, <1>4 DEF FilesInOrder
<1> HIDE DEF ids
<1>5. NewestTableFirst(S, Keys \ LoggedKeys)
  BY <1>4 DEF NewestTableFirst, AboveOn
<1>6. QED
  BY <1>1, <1>5 DEF ids

\* The next opening finds the files of the first session newest first, for the keys of
\* which nothing was logged, in whatever order the session froze, flushed and crashed: the
\* engine lists the greatest id first, and a file of a greater id was written from later
\* memory.
THEOREM FilesFoundInOrder == RecoverySpec => FoundNewestFirst
<1>1. RecoveryInit => FoundInv
  BY FoundInit
<1>2. RecoveryInv /\ FoundInv /\ [RecoveryNext]_recoveryVars => FoundInv'
  BY FoundStep
<1>3. RecoveryInv /\ FoundInv /\ [RecoveryNext]_recoveryVars =>
        [StartOpen /\ session = 1 =>
            NewestTableFirst([i \in DOMAIN level_sst_ids' |-> ssts'[level_sst_ids'[i]]],
                             Keys \ LoggedKeys)]_recoveryVars
  BY OpensNewestFirst
<1>4. QED
  BY <1>1, <1>2, <1>3, RecoveryHolds, PTL DEF RecoverySpec, FoundNewestFirst
=============================================================================
