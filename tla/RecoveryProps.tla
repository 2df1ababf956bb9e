--------------------------- MODULE RecoveryProps ----------------------------
(***************************************************************************)
(* What Recovery.tla is checked for, and what the repository says of it    *)
(* that the code breaks.                                                   *)
(***************************************************************************)
EXTENDS Recovery, LSMProps

\* The directory, the engine and the loop that opens or closes have their types;
\* every file listed in level 0 has been opened.
RecoveryTypeOK ==
    /\ EngineTypeOK
    /\ DOMAIN files \subseteq Nat
    /\ files \in [DOMAIN files -> Table \cup {Torn}]
    /\ session \in 1..MaxSession
    /\ \A w \in owed : w.node \in Version /\ w.session \in 1..session
    /\ wal \in Seq(WalRecords)
    /\ \/ todo \in [op : {"down", "failed", "close"}]
       \/ todo \in [op : {"recover"}, left : SUBSET (DOMAIN wal)]
       \/ TodoTypeOK

-----------------------------------------------------------------------------
(* Durability *)

InTables(n) == \E T \in AllTables : n \in T

OnDisk(n) == \E id \in DOMAIN files : files[id] # Torn /\ n \in files[id]

\* The value transaction t logged last for key k, or NoNode.
LastLogged(t, k) ==
    IF LogWrites(t, k) = {} THEN NoNode
    ELSE LET last == CHOOSE i \in LogWrites(t, k) : \A j \in LogWrites(t, k) : j <= i
         IN  Node(k, wal[last].value, t)

InLog(n) == LastLogged(n.tranc_id, n.key) = n

InSession == todo.op \notin {"down", "failed", "recover"}

\* What a session has acknowledged is in memory or in a file while the session
\* lasts, whatever was frozen and flushed; after a close it is in a file, and after
\* a crash at any point the commits are in a file or in the log, to the end of the
\* replay.  (Direct writes are not logged: a crash may take them, and a replay may
\* write over their file.)
SessionDurable ==
    \A w \in owed : w.session = session =>
        \/ InSession /\ InTables(w.node)
        \/ ~InSession /\ (OnDisk(w.node) \/ InLog(w.node))
        \/ todo.op = "recover" /\ w.by = "put"

-----------------------------------------------------------------------------
(* The replay *)

\* What an opening has made: the tables in memory, then the files it has flushed.
MadeTables == Tables \o [i \in 1..next_sst_id |-> ssts[level_sst_ids[i]]]

\* The version of k by t that a search meets first.
FirstMade(k, t) ==
    LET with == {i \in DOMAIN MadeTables : \E n \in MadeTables[i] : n.key = k /\ n.tranc_id = t}
    IN  IF with = {} THEN NoNode
        ELSE CHOOSE n \in MadeTables[CHOOSE i \in with : \A j \in with : i <= j] :
                n.key = k /\ n.tranc_id = t

\* When the replay is over the store holds the log, no more and no less: for every
\* transaction and key the write that was logged last, wherever freezes and
\* flushes of the replay itself have put it.
RecoversLog ==
    todo.op = "recover" /\ todo.left = {} =>
        \A k \in Keys, t \in 0..MaxTrancId : FirstMade(k, t) = LastLogged(t, k)

\* And it holds them newest first, though the log may not: std::map sorts the
\* transactions by id.
RecoveryOrdered ==
    todo.op = "recover" => NewestTableFirst(MadeTables, Keys)

LoggedKeys == {wal[i].key : i \in {j \in DOMAIN wal : wal[j].op \in {"PUT", "DELETE"}}}

\* The files of the first session are found in the order of their making: for keys
\* that were written directly, a newer version is not behind an older one.
FoundNewestFirst ==
    [][StartOpen /\ session = 1 =>
          NewestTableFirst([i \in DOMAIN level_sst_ids' |-> ssts'[level_sst_ids'[i]]],
                           Keys \ LoggedKeys)]_recoveryVars

-----------------------------------------------------------------------------
(* Claims of the repository *)

\* No later write of w's key has been acknowledged.
Latest(w) ==
    \A x \in owed : x.node.key = w.node.key =>
        \/ x.session < w.session
        \/ x.session = w.session /\ x.node.tranc_id <= w.node.tranc_id

\* "Test persistence across restarts" (test_lsm.cpp:51): a key that was given a value
\* and has not been written since is there in every later session, unless a crash
\* excuses its loss.
Persistence ==
    todo = Idle =>
        \A w \in owed :
            w.node.value # Empty /\ Latest(w) => InTables(w.node) \/ OnDisk(w.node)
=============================================================================
