------------------------------ MODULE Threads -------------------------------
(***************************************************************************)
(* Memtable and engine under several threads: which lock each step of a    *)
(* call waits for and which it keeps, and what other threads see between   *)
(* two steps.  One key is enough: a version is the id it was written with, *)
(* a table the set of ids in it, and a version weighs one byte.  A thread  *)
(* has a role and makes one call after another.  Whatever the code reads   *)
(* or writes without a lock is a step of its own.                          *)
(***************************************************************************)
EXTENDS Integers, FiniteSetsExt, SequencesExt

CONSTANTS
    Writers, Readers, Committers, \* threads, by what they call: put, get,
    Flushers, Closers,             \* transactions; flush, flush_all
    PerMemLimit, TotMemLimit,   \* LSM_PER_MEM_SIZE_LIMIT, LSM_TOL_MEM_SIZE_LIMIT
    Word,           \* sizes are size_t: numbers modulo Word
    LoneFlush,      \* clients call flush and flush_all only while nobody writes
    None,           \* no answer; no table
    MaxTrancId,     \* ids that calls may take
    MaxSst          \* SST ids that flushes may take

Threads == Writers \cup Readers \cup Committers \cup Flushers \cup Closers

\* A thread has one role: a program's thread that makes calls of two kinds is two
\* threads here, which take turns.
ASSUME RolesAssumption ==
    /\ Writers \cap (Readers \cup Committers \cup Flushers \cup Closers) = {}
    /\ Readers \cap (Committers \cup Flushers \cup Closers) = {}
    /\ Committers \cap (Flushers \cup Closers) = {}
    /\ Flushers \cap Closers = {}

ASSUME NoneAssumption == None \notin Nat /\ None \notin [table : Nat, versions : SUBSET Nat]

ASSUME LimitsAssumption ==
    /\ PerMemLimit \in Nat \ {0} /\ TotMemLimit \in Nat \ {0}
    /\ Word \in Nat /\ TotMemLimit < Word
    /\ LoneFlush \in BOOLEAN

VARIABLES
    pc,             \* thread -> the step it is about to make
    id,             \* thread -> the tranc_id of its call
    table,          \* thread -> the table a step has in hand
    sst_id,         \* thread -> the number its flush has taken
    content,        \* every table made so far; the last one is current_table
    frozen_tables,  \* their places in content, newest first
    frozen_bytes,
    next_sst_id, level_sst_ids, ssts,
    nextTransactionId,
    answer,         \* reader -> the version it was answered with
    \* History of the clients:
    done,           \* the versions whose writing call has returned
    before          \* id -> what was done when the call with that id began

memVars == <<content, frozen_tables, frozen_bytes>>
sstVars == <<next_sst_id, level_sst_ids, ssts>>
localVars == <<id, table, sst_id>>
vars == <<pc, localVars, memVars, sstVars, nextTransactionId, answer, done, before>>

Init ==
    /\ pc = [t \in Threads |-> "idle"]
    /\ id = [t \in Threads |-> 0]
    /\ table = [t \in Threads |-> None]
    /\ sst_id = [t \in Threads |-> None]
    /\ content = <<{}>> /\ frozen_tables = <<>> /\ frozen_bytes = 0
    /\ next_sst_id = 0 /\ level_sst_ids = <<>> /\ ssts = <<>>
    /\ nextTransactionId = 1
    /\ answer = [t \in Readers |-> None]
    /\ done = {} /\ before = <<>>

Current == Len(content)
Size(n) == Cardinality(content[n])

-----------------------------------------------------------------------------
(* Locks.  A step that waits is taken once no other thread keeps a lock it  *)
(* wants in a mode that excludes it.                                        *)

Shared(lock) == <<lock, "shared">>
Unique(lock) == <<lock, "unique">>

\* Per function: what a thread keeps while it is about to make a step, and what it
\* must take to make it.
Nothing == [keeps |-> {}, wants |-> {}]

PutLocks(step) ==
    CASE step = "put_cur"    -> [keeps |-> {},              wants |-> {Unique("cur")}]
      [] step = "put_write"  -> [keeps |-> {Unique("cur")}, wants |-> {}]
      [] step = "put_freeze" -> [keeps |-> {Unique("cur")}, wants |-> {Unique("frozen")}]

\* Mutant: the two locks in the other order.
SizeLocksReversed(step) ==
    CASE step = "size_cur"    -> [keeps |-> {}, wants |-> {Shared("frozen")}]
      [] step = "size_frozen" -> [keeps |-> {Shared("frozen")}, wants |-> {Shared("cur")}]
      [] step = "size_again"  -> [keeps |-> {Shared("cur"), Shared("frozen")},
                                  wants |-> {Shared("frozen"), Shared("cur")}]

\* Both locks are taken a second time in get_frozen_size and get_cur_size.
SizeLocks(step) ==
    CASE step = "size_cur"    -> [keeps |-> {}, wants |-> {Shared("cur")}]
      [] step = "size_frozen" -> [keeps |-> {Shared("cur")}, wants |-> {Shared("frozen")}]
      [] step = "size_again"  -> [keeps |-> {Shared("cur"), Shared("frozen")},
                                  wants |-> {Shared("frozen"), Shared("cur")}]

\* Mutant: ssts_mtx is released when the table has been built.
FlushLocksShort(step) ==
    CASE step \in {"flush_load", "flush_inc"} -> Nothing
      [] step = "flush_ssts"   -> [keeps |-> {}, wants |-> {Unique("ssts")}]
      [] step = "flush_frozen" -> [keeps |-> {Unique("ssts")}, wants |-> {Unique("frozen")}]
      [] step = "flush_pop"    -> [keeps |-> {Unique("ssts"), Unique("frozen")}, wants |-> {}]
      [] step \in {"publish_id", "publish_sst"} -> Nothing

FlushLocks(step) ==
    CASE step \in {"flush_load", "flush_inc"} -> Nothing
      [] step = "flush_ssts"   -> [keeps |-> {}, wants |-> {Unique("ssts")}]
      [] step = "flush_frozen" -> [keeps |-> {Unique("ssts")}, wants |-> {Unique("frozen")}]
      [] step = "flush_pop"    -> [keeps |-> {Unique("ssts"), Unique("frozen")}, wants |-> {}]
      [] step \in {"publish_id", "publish_sst"} -> [keeps |-> {Unique("ssts")}, wants |-> {}]

\* LSMEngine::get takes no lock for the SSTs.
GetLocks(step) ==
    CASE step = "get_cur"    -> [keeps |-> {}, wants |-> {Shared("cur")}]
      [] step = "get_frozen" -> [keeps |-> {}, wants |-> {Shared("frozen")}]
      [] step = "get_sst"    -> Nothing

CommitLocks(step) ==
    CASE step = "commit_frozen" -> [keeps |-> {}, wants |-> {Unique("frozen")}]
      [] step = "commit_cur"    -> [keeps |-> {Unique("frozen")}, wants |-> {Unique("cur")}]
      [] step = "commit_ssts"   -> [keeps |-> {Unique("frozen"), Unique("cur")},
                                    wants |-> {Shared("ssts")}]

PutSteps    == {"put_cur", "put_write", "put_freeze"}
SizeSteps   == {"size_cur", "size_frozen", "size_again"}
FlushSteps  == {"flush_load", "flush_inc", "flush_ssts", "flush_frozen", "flush_pop",
                "publish_id", "publish_sst"}
GetSteps    == {"get_cur", "get_frozen", "get_sst"}
CommitSteps == {"commit_frozen", "commit_cur", "commit_ssts"}

Locks(step) ==
    CASE step \in PutSteps    -> PutLocks(step)
      [] step \in SizeSteps   -> SizeLocks(step)
      [] step \in FlushSteps  -> FlushLocks(step)
      [] step \in GetSteps    -> GetLocks(step)
      [] step \in CommitSteps -> CommitLocks(step)
      [] OTHER -> Nothing

Keeps(t) == Locks(pc[t]).keeps
Wants(t) == Locks(pc[t]).wants

Excludes(want, keep) == want[1] = keep[1] /\ "unique" \in {want[2], keep[2]}

\* The threads that keep what t wants.
Holders(t) ==
    {u \in Threads \ {t} : \E want \in Wants(t), keep \in Keeps(u) :
                              Excludes(want, keep)}

\* The threads that have queued for writing on a lock that t wants to share: a
\* std::shared_mutex may let them go first.
QueuedBefore(t) ==
    {u \in Threads \ {t} : \E want \in Wants(t), other \in Wants(u) :
                              want = Shared(want[1]) /\ other = Unique(want[1])}

At(t, step) == pc[t] = step /\ Holders(t) = {}
Goto(t, step) == pc' = [pc EXCEPT ![t] = step]

-----------------------------------------------------------------------------
(* Calls begin with an id and end with what they have acknowledged.         *)

Writing(t) == t \in Writers \cup Committers /\ pc[t] # "idle"
Flushing(t) == t \in Flushers \cup Closers /\ pc[t] # "idle"

TakeId(t) ==
    /\ nextTransactionId <= MaxTrancId
    /\ id' = [id EXCEPT ![t] = nextTransactionId]
    /\ nextTransactionId' = nextTransactionId + 1
    /\ before' = Append(before, done)

\* LSM::put, LSM::get and LSM::begin_tran.
Begin(t) ==
    /\ pc[t] = "idle"
    /\ TakeId(t)
    /\ \/ t \in Readers /\ Goto(t, "get_cur")
       \/ /\ t \in Writers \cup Committers
          /\ LoneFlush => ~\E u \in Threads : Flushing(u)
          /\ Goto(t, IF t \in Writers THEN "put_cur" ELSE "commit_frozen")
    /\ UNCHANGED <<table, sst_id, memVars, sstVars, answer, done>>

\* LSM::flush, and LSM::flush_all, which asks for the size first.
BeginFlush(t) ==
    /\ pc[t] = "idle" /\ t \in Flushers \cup Closers
    /\ LoneFlush => ~\E u \in Threads : Writing(u)
    /\ Goto(t, IF t \in Flushers THEN "flush_load" ELSE "size_cur")
    /\ UNCHANGED <<localVars, memVars, sstVars, nextTransactionId, answer, done, before>>

\* The call of t is over.
Return(t) ==
    /\ Goto(t, "idle")
    /\ done' = IF t \in Writers THEN done \cup {id[t]} ELSE done

-----------------------------------------------------------------------------
(* MemTable::put.                                                           *)

\* The lock is taken and current_table loaded ...
PutLock(t) ==
    /\ At(t, "put_cur")
    /\ table' = [table EXCEPT ![t] = Current]
    /\ Goto(t, "put_write")
    /\ UNCHANGED <<id, sst_id, memVars, sstVars, nextTransactionId, answer, done, before>>

\* ... the table, wherever it is by now, takes the version; the size is that of the
\* table which is current then.
PutWrite(t) ==
    /\ At(t, "put_write")
    /\ content' = [content EXCEPT ![table[t]] = @ \cup {id[t]}]
    /\ table' = [table EXCEPT ![t] = None]
    /\ Goto(t, IF Cardinality(content'[Current]) >= PerMemLimit
               THEN "put_freeze" ELSE "size_cur")
    /\ UNCHANGED <<id, sst_id, frozen_tables, frozen_bytes, sstVars, nextTransactionId,
                   answer, done, before>>

\* Mutant: the list is replaced where it should grow.
FreezeCurrentOnly ==
    /\ frozen_bytes' = Size(Current) % Word
    /\ frozen_tables' = <<Current>>
    /\ content' = Append(content, {})

\* frozen_cur_table_, on a table that becomes the newest frozen one.
FreezeCurrent ==
    /\ frozen_bytes' = (frozen_bytes + Size(Current)) % Word
    /\ frozen_tables' = <<Current>> \o frozen_tables
    /\ content' = Append(content, {})

PutFreeze(t) ==
    /\ At(t, "put_freeze")
    /\ FreezeCurrent
    /\ Goto(t, "size_cur")
    /\ UNCHANGED <<localVars, sstVars, nextTransactionId, answer, done, before>>

-----------------------------------------------------------------------------
(* MemTable::get_total_size, and what its callers do with the answer.       *)

SizeLock(t) ==
    /\ \/ At(t, "size_cur")    /\ Goto(t, "size_frozen")
       \/ At(t, "size_frozen") /\ Goto(t, "size_again")
    /\ UNCHANGED <<localVars, memVars, sstVars, nextTransactionId, answer, done, before>>

TotalSize == (frozen_bytes + Size(Current)) % Word

\* Both locks are taken again inside get_frozen_size and get_cur_size.
SizeRead(t) ==
    /\ At(t, "size_again")
    /\ IF TotalSize >= (IF t \in Writers THEN TotMemLimit ELSE 1)
       THEN Goto(t, "flush_load") /\ UNCHANGED done
       ELSE Return(t)
    /\ UNCHANGED <<localVars, memVars, sstVars, nextTransactionId, answer, before>>

-----------------------------------------------------------------------------
(* LSMEngine::flush.                                                        *)

\* next_sst_id++ is a load and a store, before any lock is taken.
FlushLoad(t) ==
    /\ At(t, "flush_load")
    /\ next_sst_id < MaxSst
    /\ sst_id' = [sst_id EXCEPT ![t] = next_sst_id]
    /\ Goto(t, "flush_inc")
    /\ UNCHANGED <<id, table, memVars, sstVars, nextTransactionId, answer, done, before>>

FlushInc(t) ==
    /\ At(t, "flush_inc")
    /\ next_sst_id' = sst_id[t] + 1
    /\ Goto(t, "flush_ssts")
    /\ UNCHANGED <<localVars, memVars, level_sst_ids, ssts, nextTransactionId,
                   answer, done, before>>

FlushLock(t) ==
    /\ At(t, "flush_ssts")
    /\ Goto(t, "flush_frozen")
    /\ UNCHANGED <<localVars, memVars, sstVars, nextTransactionId, answer, done, before>>

\* Mutant: the current table is pushed without its size.
FlushTakeUncounted(t) ==
    /\ At(t, "flush_frozen")
    /\ IF frozen_tables # <<>>
       THEN Goto(t, "flush_pop") /\ UNCHANGED memVars
       ELSE IF Size(Current) = 0
       THEN Goto(t, "publish_id") /\ UNCHANGED memVars
       ELSE /\ Goto(t, "flush_pop")
            /\ frozen_tables' = <<Current>>
            /\ content' = Append(content, {})
            /\ UNCHANGED frozen_bytes
    /\ UNCHANGED <<localVars, sstVars, nextTransactionId, answer, done, before>>

\* MemTable::flush_last: with nothing frozen it takes the current table, and with
\* that empty too it returns a null pointer.
FlushTake(t) ==
    /\ At(t, "flush_frozen")
    /\ IF frozen_tables # <<>>
       THEN Goto(t, "flush_pop") /\ UNCHANGED memVars
       ELSE IF Size(Current) = 0
       THEN Goto(t, "publish_id") /\ UNCHANGED memVars
       ELSE Goto(t, "flush_pop") /\ FreezeCurrent
    /\ UNCHANGED <<localVars, sstVars, nextTransactionId, answer, done, before>>

\* The oldest table is popped, its size subtracted, and its versions written out.
FlushPop(t) ==
    LET oldest == Last(frozen_tables)
    IN  /\ At(t, "flush_pop")
        /\ frozen_tables' = Front(frozen_tables)
        /\ frozen_bytes' = (frozen_bytes - Size(oldest)) % Word
        /\ table' = [table EXCEPT ![t] = [table |-> oldest, versions |-> content[oldest]]]
        /\ Goto(t, "publish_id")
        /\ UNCHANGED <<id, sst_id, content, sstVars, nextTransactionId, answer, done, before>>

PublishId(t) ==
    /\ At(t, "publish_id")
    /\ level_sst_ids' = <<sst_id[t]>> \o level_sst_ids
    /\ Goto(t, "publish_sst")
    /\ UNCHANGED <<localVars, memVars, next_sst_id, ssts, nextTransactionId,
                   answer, done, before>>

\* The SST enters the map (a null one as None), and the lock on ssts is released.
PublishSst(t) ==
    /\ At(t, "publish_sst")
    /\ ssts' = [n \in {sst_id[t]} \cup DOMAIN ssts |->
                   IF n = sst_id[t] THEN table[t] ELSE ssts[n]]
    /\ table' = [table EXCEPT ![t] = None]
    /\ sst_id' = [sst_id EXCEPT ![t] = None]
    /\ IF t \in Closers
       THEN Goto(t, "size_cur") /\ UNCHANGED done
       ELSE Return(t)
    /\ UNCHANGED <<id, memVars, next_sst_id, level_sst_ids, nextTransactionId,
                   answer, before>>

-----------------------------------------------------------------------------
(* LSMEngine::get: MemTable::get under one lock after the other, and then   *)
(* sst_get_ under none.                                                     *)

VisibleIn(n, t) == {v \in content[n] : v <= id[t]}

Answered(t, versions) ==
    /\ answer' = [answer EXCEPT ![t] = IF versions = {} THEN None ELSE Max(versions)]
    /\ Goto(t, "idle")

GetCur(t) ==
    /\ At(t, "get_cur")
    /\ IF VisibleIn(Current, t) = {}
       THEN Goto(t, "get_frozen") /\ UNCHANGED answer
       ELSE Answered(t, VisibleIn(Current, t))
    /\ UNCHANGED <<localVars, memVars, sstVars, nextTransactionId, done, before>>

\* Mutant: the oldest table that has the key answers.
GetFrozenOldest(t) ==
    LET hits == {i \in DOMAIN frozen_tables : VisibleIn(frozen_tables[i], t) # {}}
    IN  /\ At(t, "get_frozen")
        /\ IF hits = {}
           THEN Goto(t, "get_sst") /\ UNCHANGED answer
           ELSE Answered(t, VisibleIn(frozen_tables[Max(hits)], t))
        /\ UNCHANGED <<localVars, memVars, sstVars, nextTransactionId, done, before>>

GetFrozen(t) ==
    LET hits == {i \in DOMAIN frozen_tables : VisibleIn(frozen_tables[i], t) # {}}
    IN  /\ At(t, "get_frozen")
        /\ IF hits = {}
           THEN Goto(t, "get_sst") /\ UNCHANGED answer
           ELSE Answered(t, VisibleIn(frozen_tables[Min(hits)], t))
        /\ UNCHANGED <<localVars, memVars, sstVars, nextTransactionId, done, before>>

\* Only the first SST of level 0 is searched, whatever the reader's id; a null
\* pointer, or a number whose SST is not in the map yet, is dereferenced.
GetSst(t) ==
    /\ At(t, "get_sst")
    /\ IF level_sst_ids = <<>> THEN Answered(t, {})
       ELSE LET first == Head(level_sst_ids)
            IN  IF first \notin DOMAIN ssts \/ ssts[first] = None
                THEN Goto(t, "crashed") /\ UNCHANGED answer
                ELSE Answered(t, ssts[first].versions)
    /\ UNCHANGED <<localVars, memVars, sstVars, nextTransactionId, done, before>>

-----------------------------------------------------------------------------
(* TranContext::commit of a transaction under REPEATABLE_READ that has      *)
(* written the key.                                                         *)

\* Mutant: cur_mtx is not waited for.
CommitLockCareless(t) ==
    /\ \/ At(t, "commit_frozen") /\ Goto(t, "commit_cur")
       \/ pc[t] = "commit_cur"   /\ Goto(t, "commit_ssts")
    /\ UNCHANGED <<localVars, memVars, sstVars, nextTransactionId, answer, done, before>>

CommitLock(t) ==
    /\ \/ At(t, "commit_frozen") /\ Goto(t, "commit_cur")
       \/ At(t, "commit_cur")    /\ Goto(t, "commit_ssts")
    /\ UNCHANGED <<localVars, memVars, sstVars, nextTransactionId, answer, done, before>>

\* The newest version of the first table that has one, whatever its id; SSTs are
\* skipped, since max_flushed_tranc_id_ stays 0.
NewestInMemory ==
    LET hits == SelectSeq(<<Current>> \o frozen_tables, LAMBDA n : content[n] # {})
    IN  IF hits = <<>> THEN 0 ELSE Max(content[Head(hits)])

\* The conflict check and put_, which looks at no limit.
CommitWrite(t) ==
    /\ At(t, "commit_ssts")
    /\ Goto(t, "idle")
    /\ IF NewestInMemory > id[t]
       THEN UNCHANGED <<content, done>>
       ELSE /\ content' = [content EXCEPT ![Current] = @ \cup {id[t]}]
            /\ done' = done \cup {id[t]}
    /\ UNCHANGED <<localVars, frozen_tables, frozen_bytes, sstVars, nextTransactionId,
                   answer, before>>

-----------------------------------------------------------------------------

Next ==
    \E t \in Threads :
        \/ Begin(t) \/ BeginFlush(t)
        \/ PutLock(t) \/ PutWrite(t) \/ PutFreeze(t)
        \/ SizeLock(t) \/ SizeRead(t)
        \/ FlushLoad(t) \/ FlushInc(t) \/ FlushLock(t) \/ FlushTake(t) \/ FlushPop(t)
        \/ PublishId(t) \/ PublishSst(t)
        \/ GetCur(t) \/ GetFrozen(t) \/ GetSst(t)
        \/ CommitLock(t) \/ CommitWrite(t)

Spec == Init /\ [][Next]_vars

-----------------------------------------------------------------------------
(* Properties.                                                              *)

\* Every thread is somewhere, tables are sets of ids that were given out, and no two
\* threads keep one lock in modes that exclude each other.
TypeOK ==
    /\ pc \in [Threads -> {"idle", "crashed"} \cup PutSteps \cup SizeSteps \cup FlushSteps
                              \cup GetSteps \cup CommitSteps]
    /\ content \in Seq(SUBSET (1..(nextTransactionId - 1)))
    /\ frozen_tables \in Seq(1..(Current - 1)) /\ IsInjective(frozen_tables)
    /\ frozen_bytes \in 0..(Word - 1)
    /\ level_sst_ids \in Seq(Nat) /\ DOMAIN ssts \subseteq ToSet(level_sst_ids)
    /\ \A t, u \in Threads : \A a \in Keeps(t), b \in Keeps(u) : t # u => ~Excludes(a, b)

\* The threads of S wait for one another and for nobody else, for ever.
Stuck(S) == \A t \in S : (Holders(t) \cup QueuedBefore(t)) \cap S # {}

\* put, get and flush take ssts_mtx, cur_mtx and frozen_mtx in that order, so
\* that no threads are stuck without a commit among them, which takes them the other
\* way round (transation.cpp:123), or a get_total_size that takes a lock a second time
\* behind a writer in its queue (memtable.cpp:257).
DeadlocksKnown ==
    LET others == {t \in Threads : /\ Holders(t) \cup QueuedBefore(t) # {}
                                   /\ pc[t] \notin {"commit_cur", "commit_ssts", "size_again"}}
    IN  \A S \in (SUBSET others) \ {{}} : ~Stuck(S)

\* The bytes of a list of tables.
Bytes(tables) ==
    LET sum[i \in 0..Len(tables)] ==
            IF i = 0 THEN 0 ELSE sum[i - 1] + Size(tables[i])
    IN  sum[Len(tables)]

\* frozen_bytes is the size of the frozen tables, as a size_t holds it.
BytesExact == frozen_bytes = Bytes(frozen_tables) % Word

\* t, in MemTable::put under cur_mtx, writes to the table it has in hand although a
\* flush, under frozen_mtx, has frozen that table since it was loaded.
WritesTaken(t) == pc[t] = "put_write" /\ pc'[t] # "put_write" /\ table[t] # Current

\* Three functions keep frozen_bytes under different locks (memtable.cpp:209, 221,
\* 234): among all their interleavings, only a put into a table that a flush has frozen
\* under it makes the count differ from the frozen tables.
OnlyPutsMisstateBytes ==
    [][BytesExact /\ ~BytesExact' => \E t \in Threads : WritesTaken(t)]_vars

\* Two flushes have loaded the same next_sst_id: one SST replaces the other.
Collided == ~IsInjective(level_sst_ids)

\* The SSTs there are, null pointers left aside.
Built == {n \in DOMAIN ssts : ssts[n] # None}

\* The flushes that have taken a table and have not published it.
InHand == {t \in Threads : pc[t] \in {"publish_id", "publish_sst"} /\ table[t] # None}

\* Where a version can be: in a table in memory, in the hand of a flush, in an SST.
Kept ==
    UNION ({content[n] : n \in {Current} \cup ToSet(frozen_tables)}
              \cup {table[t].versions : t \in InHand}
              \cup {ssts[n].versions : n \in Built})

\* The versions that calls have written, acknowledged or not yet.
Written ==
    done \cup {id[t] : t \in {u \in Writers :
                                  pc[u] \in {"put_freeze"} \cup SizeSteps \cup FlushSteps}}

Lost == Written \ Kept

\* Freezes, flushes, commits and puts go on beside one another, and a written version
\* is lost in two ways only: its put writes to a table that a flush has frozen and
\* taken away since (memtable.cpp:35, 209), or the SST that has it is replaced by one of
\* a flush that loaded the same next_sst_id (engine.cpp:236).
LossesKnown ==
    [][\A v \in Lost' \ Lost :
          \/ \E t \in Threads : WritesTaken(t) /\ v = id[t]
          \/ \E t \in Threads : /\ pc[t] = "publish_sst" /\ pc'[t] # "publish_sst"
                                /\ sst_id[t] \in Built
                                /\ v \in ssts[sst_id[t]].versions]_vars

\* What a put or a commit has acknowledged is in some table or SST, unless two flushes
\* took one number.  The repository promises it by the locks of the memtable; the code
\* breaks it in the first of the two ways.
AcknowledgedKept == Collided \/ done \subseteq Kept

\* Level 0 is in the order in which the tables were made: ssts_mtx is held from before
\* a table is taken until its number is in the deque (engine.cpp:240-244).
Level0InOrder ==
    Collided \/
    \A i, j \in DOMAIN level_sst_ids :
        LET a == level_sst_ids[i]
            b == level_sst_ids[j]
        IN  (i < j /\ {a, b} \subseteq Built) => ssts[a].table > ssts[b].table

\* A version v that the client may still be answered with: no version acknowledged
\* before the read began was begun after v was acknowledged.
Admissible(v, t) ==
    LET seen == before[id[t]]
    IN  IF v = None THEN seen = {} ELSE ~\E w \in seen : v \in before[w]

\* A read takes its locks one by one while versions move on from the current table
\* to a frozen one and to an SST, in the order in which it searches: it never answers
\* with what has been overwritten before it began, unless a flush has a table in
\* hand, for sst_get_ takes no lock (engine.cpp:243, memtable.cpp:78-92).
ReadsAdmissible ==
    [][\A t \in Readers :
          (pc[t] \in GetSteps /\ pc'[t] = "idle")
             => (InHand # {} /\ pc[t] = "get_sst") \/ Admissible(answer'[t], t)]_vars
=============================================================================
