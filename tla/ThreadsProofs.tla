--------------------------- MODULE ThreadsProofs ----------------------------
(***************************************************************************)
(* What holds of Threads.tla for any number of threads of each role, all   *)
(* limits and all bounds: the types and the exclusion of the locks, which  *)
(* threads can be stuck, the order of level 0; as long as no flush takes a *)
(* table from under a put, the bytes of the frozen tables, that no         *)
(* acknowledged version is lost and what reads answer; and that one writer *)
(* and one thread that flushes, taking turns, are enough for all of these. *)
(***************************************************************************)
EXTENDS Threads, CommonProofs

Steps == {"idle", "crashed"} \cup PutSteps \cup SizeSteps \cup FlushSteps
            \cup GetSteps \cup CommitSteps

-----------------------------------------------------------------------------
(* Locks *)

\* What each step keeps, read off the cases of Locks.
LEMMA KeepsOf ==
    /\ \A step \in {"idle", "crashed", "put_cur", "size_cur", "flush_load", "flush_inc",
                    "flush_ssts", "get_cur", "get_frozen", "get_sst", "commit_frozen"} :
          Locks(step).keeps = {}
    /\ Locks("put_write").keeps = {Unique("cur")}
    /\ Locks("put_freeze").keeps = {Unique("cur")}
    /\ Locks("size_frozen").keeps = {Shared("cur")}
    /\ Locks("size_again").keeps = {Shared("cur"), Shared("frozen")}
    /\ Locks("flush_frozen").keeps = {Unique("ssts")}
    /\ Locks("flush_pop").keeps = {Unique("ssts"), Unique("frozen")}
    /\ Locks("publish_id").keeps = {Unique("ssts")}
    /\ Locks("publish_sst").keeps = {Unique("ssts")}
    /\ Locks("commit_cur").keeps = {Unique("frozen")}
    /\ Locks("commit_ssts").keeps = {Unique("frozen"), Unique("cur")}
  BY DEF Locks, PutSteps, SizeSteps, FlushSteps, GetSteps, CommitSteps, PutLocks,
         SizeLocks, FlushLocks, GetLocks, CommitLocks, Nothing

\* What each step waits for.
LEMMA WantsOf ==
    /\ \A step \in {"idle", "crashed", "put_write", "flush_load", "flush_inc", "flush_pop",
                    "publish_id", "publish_sst", "get_sst"} :
          Locks(step).wants = {}
    /\ Locks("put_cur").wants = {Unique("cur")}
    /\ Locks("put_freeze").wants = {Unique("frozen")}
    /\ Locks("size_cur").wants = {Shared("cur")}
    /\ Locks("size_frozen").wants = {Shared("frozen")}
    /\ Locks("size_again").wants = {Shared("frozen"), Shared("cur")}
    /\ Locks("flush_ssts").wants = {Unique("ssts")}
    /\ Locks("flush_frozen").wants = {Unique("frozen")}
    /\ Locks("get_cur").wants = {Shared("cur")}
    /\ Locks("get_frozen").wants = {Shared("frozen")}
    /\ Locks("commit_frozen").wants = {Unique("frozen")}
    /\ Locks("commit_cur").wants = {Unique("cur")}
    /\ Locks("commit_ssts").wants = {Shared("ssts")}
  BY DEF Locks, PutSteps, SizeSteps, FlushSteps, GetSteps, CommitSteps, PutLocks,
         SizeLocks, FlushLocks, GetLocks, CommitLocks, Nothing

\* No two threads keep one lock in modes that exclude each other.
Exclusion ==
    \A t, u \in Threads : \A a \in Keeps(t), b \in Keeps(u) : t # u => ~Excludes(a, b)

\* A thread that has waited for its locks may keep, at its next step, what it kept
\* and what it waited for.
LEMMA ExclusionKept ==
    ASSUME pc \in [Threads -> Steps], Exclusion, NEW t \in Threads, NEW step,
           Holders(t) = {}, Goto(t, step), Locks(step).keeps \subseteq Keeps(t) \cup Wants(t)
    PROVE  Exclusion'
<1>1. \A u \in Threads : Keeps(u)' = IF u = t THEN Locks(step).keeps ELSE Keeps(u)
  BY DEF Goto, Keeps
<1>2. \A u \in Threads \ {t} : \A a \in Keeps(t) \cup Wants(t), b \in Keeps(u) :
         ~Excludes(a, b) /\ ~Excludes(b, a)
  BY DEF Exclusion, Holders, Excludes
<1>3. QED
  BY <1>1, <1>2 DEF Exclusion, Excludes

\* In the same way for a step that waits for nothing and gives up locks.
LEMMA ExclusionLess ==
    ASSUME pc \in [Threads -> Steps], Exclusion, NEW t \in Threads, NEW step,
           Goto(t, step), Locks(step).keeps \subseteq Keeps(t)
    PROVE  Exclusion'
<1>1. \A u \in Threads : Keeps(u)' = IF u = t THEN Locks(step).keeps ELSE Keeps(u)
  BY DEF Goto, Keeps
<1>2. QED
  BY <1>1 DEF Exclusion, Excludes

-----------------------------------------------------------------------------
(* Types *)

Ids == 1..(nextTransactionId - 1)

\* What FlushPop has in hand and PublishSst puts into ssts.
Taken == [table : Nat, versions : SUBSET Nat]

StateTypes ==
    /\ pc \in [Threads -> Steps]
    /\ id \in [Threads -> Nat]
    /\ table \in [Threads -> Nat \cup Taken \cup {None}]
    /\ sst_id \in [Threads -> Nat \cup {None}]
    /\ content \in Seq(SUBSET Ids) /\ Current # 0
    /\ frozen_tables \in Seq(1..(Current - 1))
    /\ frozen_bytes \in 0..(Word - 1)
    /\ next_sst_id \in Nat
    /\ level_sst_ids \in Seq(Nat)
    /\ DOMAIN ssts \subseteq ToSet(level_sst_ids)
    /\ \A n \in DOMAIN ssts : ssts[n] \in Taken \cup {None}
    /\ nextTransactionId \in Nat \ {0}

\* What a thread has in hand at each step.
HandTypes(t) ==
    /\ pc[t] \in PutSteps \cup GetSteps \cup CommitSteps => id[t] \in Ids
    /\ pc[t] = "put_write" => table[t] \in 1..Current
    /\ pc[t] \in {"publish_id", "publish_sst"} => table[t] \in Taken \cup {None}
    /\ pc[t] \notin {"put_write", "publish_id", "publish_sst"} => table[t] = None
    /\ pc[t] \in FlushSteps \ {"flush_load"} => sst_id[t] \in Nat
    /\ pc[t] = "flush_pop" => frozen_tables # <<>>
    /\ pc[t] = "publish_sst" => level_sst_ids # <<>> /\ sst_id[t] = Head(level_sst_ids)

\* The older a frozen table, the further back it is.
Descending == \A i, j \in DOMAIN frozen_tables : i < j => frozen_tables[i] > frozen_tables[j]

TypesInv ==
    /\ StateTypes /\ Exclusion /\ Descending
    /\ \A t \in Threads : HandTypes(t)

\* The versions of a table are finitely many, so that its size is a number.
LEMMA SizeType ==
    ASSUME StateTypes, NEW n \in 1..Current
    PROVE  IsFiniteSet(content[n]) /\ Size(n) \in Nat
<1>1. content[n] \in SUBSET Ids
  BY DEF StateTypes, Current
<1>2. IsFiniteSet(Ids)
  BY FS_Interval DEF Ids, StateTypes
<1>3. IsFiniteSet(content[n])
  BY <1>1, <1>2, FS_Subset
<1>4. QED
  BY <1>3, FS_CardinalityType DEF Size

\* The inductive invariant of the types holds at the start and implies TypeOK.
LEMMA TypesInit == Init => TypesInv
<1> SUFFICES ASSUME Init PROVE TypesInv
  OBVIOUS
<1>1. StateTypes
  <2>1. <<{}>> \in Seq(SUBSET Ids) /\ Len(<<{}>>) = 1
    OBVIOUS
  <2>2. DOMAIN <<>> = {}
    OBVIOUS
  <2>3. QED
    BY <2>1, <2>2, LimitsAssumption DEF StateTypes, Init, Steps, Current
<1>2. \A t \in Threads : pc[t] = "idle" /\ table[t] = None
  BY DEF Init
<1>3. Exclusion
  BY <1>2, KeepsOf DEF Exclusion, Keeps
<1>4. Descending
  BY DEF Init, Descending
<1>5. \A t \in Threads : HandTypes(t)
  BY <1>2 DEF HandTypes, PutSteps, GetSteps, CommitSteps, FlushSteps
<1>6. QED
  BY <1>1, <1>3, <1>4, <1>5 DEF TypesInv

LEMMA TypesGiveTypeOK == TypesInv => TypeOK
<1> SUFFICES ASSUME TypesInv PROVE TypeOK
  OBVIOUS
<1>1. IsInjective(frozen_tables)
  <2>1. \A i \in DOMAIN frozen_tables : i \in Nat /\ frozen_tables[i] \in Nat
    BY DEF TypesInv, StateTypes, Current
  <2>2. QED
    BY <2>1 DEF TypesInv, Descending, IsInjective
<1>2. QED
  BY <1>1 DEF TypesInv, StateTypes, Exclusion, TypeOK, Ids, Steps

\* A thread that waits for nothing finds nobody in its way.
LEMMA NothingWanted ==
    ASSUME NEW t, Wants(t) = {}
    PROVE  Holders(t) = {}
  BY DEF Holders

\* The types after a step of t: what is left to show is about the state as a whole,
\* about t, and about the two steps at which others count on shared state.
LEMMA TypesStep ==
    ASSUME TypesInv, NEW t \in Threads, NEW step \in Steps, Goto(t, step),
           Holders(t) = {}, Locks(step).keeps \subseteq Keeps(t) \cup Wants(t),
           \A u \in Threads \ {t} : /\ id'[u] = id[u] /\ table'[u] = table[u]
                                    /\ sst_id'[u] = sst_id[u],
           StateTypes', Descending', HandTypes(t)',
           Current' >= Current, nextTransactionId' >= nextTransactionId,
           \A u \in Threads \ {t} : pc[u] = "flush_pop" => frozen_tables' # <<>>,
           \A u \in Threads \ {t} : pc[u] = "publish_sst" => UNCHANGED level_sst_ids
    PROVE  TypesInv'
<1>1. pc \in [Threads -> Steps]
  BY DEF TypesInv, StateTypes
<1>2. Exclusion'
  BY <1>1, ExclusionKept DEF TypesInv
<1>3. ASSUME NEW u \in Threads \ {t} PROVE HandTypes(u)'
  <2>1. pc'[u] = pc[u]
    BY <1>1 DEF Goto
  <2>2. HandTypes(u)
    BY DEF TypesInv
  <2>3. Ids \subseteq Ids' /\ 1..Current \subseteq 1..(Current')
    <3>1. nextTransactionId \in Nat /\ nextTransactionId' \in Nat
      BY DEF TypesInv, StateTypes
    <3>2. Current \in Nat /\ Current' \in Nat
      BY DEF TypesInv, StateTypes, Current
    <3>3. Ids \subseteq Ids'
      BY <3>1, IntervalGrows DEF Ids
    <3>4. QED
      BY <3>2, <3>3, IntervalGrows
  <2>4. QED
    BY <2>1, <2>2, <2>3 DEF HandTypes
<1>4. QED
  BY <1>2, <1>3 DEF TypesInv

\* Begin and BeginFlush take no lock.
LEMMA TypesBegin ==
    ASSUME TypesInv, NEW t \in Threads, Begin(t) \/ BeginFlush(t)
    PROVE  TypesInv'
<1>1. pc[t] = "idle" /\ Wants(t) = {} /\ Holders(t) = {}
  BY WantsOf, NothingWanted DEF Begin, BeginFlush, Wants
<1>2. HandTypes(t)
  BY DEF TypesInv
<1>3. CASE Begin(t)
  <2>1. PICK step \in {"get_cur", "put_cur", "commit_frozen"} : Goto(t, step)
    BY <1>3 DEF Begin
  <2>2. step \in Steps /\ Locks(step).keeps = {}
    BY <2>1, KeepsOf DEF Steps, PutSteps, GetSteps, CommitSteps
  <2>3. Ids' = Ids \cup {nextTransactionId} /\ id'[t] = nextTransactionId
    BY <1>3 DEF Begin, TakeId, Ids, TypesInv, StateTypes
  <2>4. StateTypes'
    <3>1. pc' \in [Threads -> Steps]
      BY <2>1, <2>2 DEF TypesInv, StateTypes, Goto
    <3>2. content \in Seq(SUBSET (Ids'))
      BY <2>3 DEF TypesInv, StateTypes
    <3>3. id' \in [Threads -> Nat] /\ nextTransactionId' \in Nat \ {0}
      BY <1>3 DEF Begin, TakeId, TypesInv, StateTypes
    <3>4. UNCHANGED <<table, sst_id, memVars, sstVars, Current>>
      BY <1>3 DEF Begin, memVars, Current
    <3>5. QED
      BY <3>1, <3>2, <3>3, <3>4 DEF TypesInv, StateTypes, memVars, sstVars
  <2>5. HandTypes(t)'
    <3>1. pc'[t] = step
      BY <2>1 DEF TypesInv, StateTypes, Goto
    <3>2. table'[t] = None
      BY <1>1, <1>2, <1>3 DEF HandTypes, Begin
    <3>3. QED
      BY <2>1, <2>3, <3>1, <3>2 DEF HandTypes, FlushSteps
  <2>6. \A u \in Threads \ {t} : id'[u] = id[u] /\ table'[u] = table[u] /\ sst_id'[u] = sst_id[u]
    BY <1>3 DEF Begin, TakeId, TypesInv, StateTypes
  <2>7. UNCHANGED <<frozen_tables, level_sst_ids, Current>>
    BY <1>3 DEF Begin, memVars, sstVars, Current
  <2>8. Descending' /\ Current' >= Current /\ nextTransactionId' >= nextTransactionId
    BY <1>3, <2>7 DEF Begin, TakeId, TypesInv, StateTypes, Descending, Current
  <2>9. \A u \in Threads \ {t} : pc[u] = "flush_pop" => frozen_tables' # <<>>
    BY <2>7 DEF TypesInv, HandTypes
  <2>10. QED
    BY <1>1, <2>1, <2>2, <2>4, <2>5, <2>6, <2>7, <2>8, <2>9, TypesStep
<1>4. CASE BeginFlush(t)
  <2>1. PICK step \in {"flush_load", "size_cur"} : Goto(t, step)
    BY <1>4 DEF BeginFlush
  <2>2. step \in Steps /\ Locks(step).keeps = {}
    BY <2>1, KeepsOf DEF Steps, FlushSteps, SizeSteps
  <2>3. StateTypes'
    <3>1. pc' \in [Threads -> Steps]
      BY <2>1, <2>2 DEF TypesInv, StateTypes, Goto
    <3>2. QED
      BY <1>4, <3>1 DEF BeginFlush, TypesInv, StateTypes, localVars, memVars, sstVars, Current, Ids
  <2>4. HandTypes(t)'
    <3>1. pc'[t] = step
      BY <2>1 DEF TypesInv, StateTypes, Goto
    <3>2. table'[t] = None
      BY <1>1, <1>2, <1>4 DEF HandTypes, BeginFlush, localVars
    <3>3. QED
      BY <2>1, <3>1, <3>2 DEF HandTypes, FlushSteps, PutSteps, GetSteps, CommitSteps
  <2>5. UNCHANGED <<localVars, frozen_tables, level_sst_ids, Current, nextTransactionId>>
    BY <1>4 DEF BeginFlush, memVars, sstVars, Current
  <2>6. Descending' /\ Current' >= Current /\ nextTransactionId' >= nextTransactionId
    BY <2>5 DEF TypesInv, StateTypes, Descending, Current
  <2>7. \A u \in Threads \ {t} : pc[u] = "flush_pop" => frozen_tables' # <<>>
    BY <2>5 DEF TypesInv, HandTypes
  <2>8. QED
    BY <1>1, <2>1, <2>2, <2>3, <2>4, <2>5, <2>6, <2>7, TypesStep DEF localVars
<1>5. QED
  BY <1>3, <1>4

\* ... and after one that leaves the tables, the ids and level 0 alone.
LEMMA TypesQuiet ==
    ASSUME TypesInv, NEW t \in Threads, NEW step \in Steps, Goto(t, step),
           Holders(t) = {}, Locks(step).keeps \subseteq Keeps(t) \cup Wants(t),
           UNCHANGED <<id, memVars, level_sst_ids, ssts, nextTransactionId>>,
           table' \in [Threads -> Nat \cup Taken \cup {None}],
           sst_id' \in [Threads -> Nat \cup {None}], next_sst_id' \in Nat,
           \A u \in Threads \ {t} : table'[u] = table[u] /\ sst_id'[u] = sst_id[u],
           HandTypes(t)'
    PROVE  TypesInv'
<1>1. UNCHANGED <<id, content, frozen_tables, frozen_bytes, level_sst_ids, ssts,
                  nextTransactionId, Current, Ids>>
  BY DEF memVars, Current, Ids
<1>2. StateTypes'
  <2>1. pc' \in [Threads -> Steps]
    BY DEF TypesInv, StateTypes, Goto
  <2>2. QED
    BY <1>1, <2>1 DEF TypesInv, StateTypes
<1>3. Descending'
  BY <1>1 DEF TypesInv, Descending
<1>4. Current' >= Current /\ nextTransactionId' >= nextTransactionId
  BY <1>1 DEF TypesInv, StateTypes, Current
<1>5. \A u \in Threads : pc[u] = "flush_pop" => frozen_tables' # <<>>
  BY <1>1 DEF TypesInv, HandTypes
<1>6. QED
  BY <1>1, <1>2, <1>3, <1>4, <1>5, TypesStep

\* MemTable::put takes its lock.
LEMMA TypesPutLock ==
    ASSUME TypesInv, NEW t \in Threads, PutLock(t)
    PROVE  TypesInv'
<1>1. pc[t] = "put_cur" /\ Holders(t) = {} /\ HandTypes(t)
  BY DEF PutLock, At, TypesInv
<1>2. "put_write" \in Steps /\ Locks("put_write").keeps \subseteq Keeps(t) \cup Wants(t)
  BY <1>1, KeepsOf, WantsOf DEF Steps, PutSteps, Wants
<1>3. pc'[t] = "put_write" /\ table'[t] = Current
  BY DEF PutLock, Goto, TypesInv, StateTypes
<1>4. Current \in Nat \ {0} /\ UNCHANGED <<id, sst_id, next_sst_id, memVars, level_sst_ids, ssts, nextTransactionId>>
  BY DEF PutLock, sstVars, TypesInv, StateTypes, Current
<1>5. /\ table' \in [Threads -> Nat \cup Taken \cup {None}]
      /\ \A u \in Threads \ {t} : table'[u] = table[u]
  BY <1>4 DEF PutLock, TypesInv, StateTypes
<1>6. HandTypes(t)'
  <2>1. UNCHANGED <<Current, Ids>>
    BY <1>4 DEF memVars, Current, Ids
  <2>2. id[t] \in Ids
    BY <1>1 DEF HandTypes, PutSteps
  <2>3. QED
    BY <1>3, <1>4, <2>1, <2>2 DEF HandTypes, FlushSteps
<1>7. QED
  BY <1>1, <1>2, <1>4, <1>5, <1>6, TypesQuiet DEF PutLock, TypesInv, StateTypes

\* get_total_size takes its locks, and commit takes its own.
LEMMA TypesLock ==
    ASSUME TypesInv, NEW t \in Threads, SizeLock(t) \/ FlushLock(t) \/ CommitLock(t)
    PROVE  TypesInv'
<1>1. PICK step \in {"size_frozen", "size_again", "flush_frozen", "commit_cur", "commit_ssts"} :
         /\ Goto(t, step)
         /\ pc[t] = CASE step = "size_frozen"  -> "size_cur"
                      [] step = "size_again"   -> "size_frozen"
                      [] step = "flush_frozen" -> "flush_ssts"
                      [] step = "commit_cur"   -> "commit_frozen"
                      [] step = "commit_ssts"  -> "commit_cur"
  BY DEF SizeLock, FlushLock, CommitLock, At
<1>2. Holders(t) = {} /\ UNCHANGED <<localVars, memVars, sstVars, nextTransactionId>>
  BY DEF SizeLock, FlushLock, CommitLock, At
<1>3. step \in Steps
  BY DEF Steps, SizeSteps, FlushSteps, CommitSteps
<1>4. Locks(step).keeps \subseteq Keeps(t) \cup Wants(t)
  BY <1>1, KeepsOf, WantsOf DEF Keeps, Wants
<1>5. pc'[t] = step
  BY <1>1 DEF Goto, TypesInv, StateTypes
<1>6. HandTypes(t)'
  <2>1. UNCHANGED <<Current, Ids>>
    BY <1>2 DEF memVars, Current, Ids
  <2>2. HandTypes(t)
    BY DEF TypesInv
  <2>3. table[t] = None
    BY <1>1, <2>2 DEF HandTypes
  <2>4. step \in CommitSteps => id[t] \in Ids
    BY <1>1, <2>2 DEF HandTypes, CommitSteps
  <2>5. step \in FlushSteps => sst_id[t] \in Nat
    BY <1>1, <2>2 DEF HandTypes, FlushSteps
  <2>6. step \notin PutSteps \cup GetSteps
    BY DEF PutSteps, GetSteps
  <2>7. QED
    BY <1>2, <1>5, <2>1, <2>3, <2>4, <2>5, <2>6 DEF HandTypes, localVars
<1>7. QED
  BY <1>1, <1>2, <1>3, <1>4, <1>6, TypesQuiet DEF localVars, sstVars, TypesInv, StateTypes

\* The callers of get_total_size go on or return.
LEMMA TypesSizeRead ==
    ASSUME TypesInv, NEW t \in Threads, SizeRead(t)
    PROVE  TypesInv'
<1>1. PICK step \in {"flush_load", "idle"} : Goto(t, step)
  BY DEF SizeRead, Return
<1>2. /\ pc[t] = "size_again" /\ Holders(t) = {} /\ HandTypes(t)
      /\ UNCHANGED <<localVars, memVars, sstVars, nextTransactionId>>
  BY DEF SizeRead, At, TypesInv
<1>3. step \in Steps /\ Locks(step).keeps = {}
  BY <1>1, KeepsOf DEF Steps, FlushSteps
<1>4. HandTypes(t)'
  <2>1. pc'[t] = step
    BY <1>1 DEF Goto, TypesInv, StateTypes
  <2>2. table'[t] = None
    BY <1>2 DEF HandTypes, localVars
  <2>3. QED
    BY <2>1, <2>2 DEF HandTypes, PutSteps, GetSteps, CommitSteps, FlushSteps
<1>5. QED
  BY <1>1, <1>2, <1>3, <1>4, TypesQuiet DEF localVars, sstVars, TypesInv, StateTypes

\* next_sst_id++.
LEMMA TypesCount ==
    ASSUME TypesInv, NEW t \in Threads, FlushLoad(t) \/ FlushInc(t)
    PROVE  TypesInv'
<1>1. PICK step \in {"flush_inc", "flush_ssts"} : Goto(t, step)
  BY DEF FlushLoad, FlushInc
<1>2. /\ pc[t] \in {"flush_load", "flush_inc"} /\ Holders(t) = {} /\ HandTypes(t)
      /\ UNCHANGED <<id, table, memVars, level_sst_ids, ssts, nextTransactionId>>
  BY DEF FlushLoad, FlushInc, At, TypesInv, localVars, sstVars
<1>3. step \in Steps /\ Locks(step).keeps = {}
  BY <1>1, KeepsOf DEF Steps, FlushSteps
<1>4. /\ sst_id' \in [Threads -> Nat \cup {None}] /\ sst_id'[t] \in Nat
      /\ next_sst_id' \in Nat
      /\ \A u \in Threads \ {t} : sst_id'[u] = sst_id[u]
  <2>1. CASE FlushLoad(t)
    BY <2>1 DEF FlushLoad, sstVars, TypesInv, StateTypes
  <2>2. CASE FlushInc(t)
    <3>1. sst_id[t] \in Nat
      BY <2>2 DEF FlushInc, At, TypesInv, HandTypes, FlushSteps
    <3>2. QED
      BY <2>2, <3>1 DEF FlushInc, localVars, TypesInv, StateTypes
  <2>3. QED
    BY <2>1, <2>2
<1>5. HandTypes(t)'
  <2>1. pc'[t] = step
    BY <1>1 DEF Goto, TypesInv, StateTypes
  <2>2. table'[t] = None
    BY <1>2 DEF HandTypes
  <2>3. QED
    BY <1>4, <2>1, <2>2 DEF HandTypes, PutSteps, GetSteps, CommitSteps
<1>6. QED
  BY <1>1, <1>2, <1>3, <1>4, <1>5, TypesQuiet DEF TypesInv, StateTypes

\* LSMEngine::get goes on, answers or crashes.
LEMMA TypesGet ==
    ASSUME TypesInv, NEW t \in Threads, GetCur(t) \/ GetFrozen(t) \/ GetSst(t)
    PROVE  TypesInv'
<1>1. PICK step \in {"get_frozen", "get_sst", "idle", "crashed"} : Goto(t, step)
  BY DEF GetCur, GetFrozen, GetSst, Answered
<1>2. /\ pc[t] \in {"get_cur", "get_frozen", "get_sst"} /\ Holders(t) = {} /\ HandTypes(t)
      /\ UNCHANGED <<localVars, memVars, sstVars, nextTransactionId>>
  BY DEF GetCur, GetFrozen, GetSst, At, TypesInv
<1>3. step \in Steps /\ Locks(step).keeps = {}
  BY <1>1, KeepsOf DEF Steps, GetSteps
<1>4. HandTypes(t)'
  <2>1. pc'[t] = step
    BY <1>1 DEF Goto, TypesInv, StateTypes
  <2>2. table'[t] = None /\ id'[t] = id[t] /\ id[t] \in Ids
    BY <1>2 DEF HandTypes, localVars, GetSteps
  <2>3. Ids' = Ids
    BY <1>2 DEF Ids
  <2>4. QED
    BY <2>1, <2>2, <2>3 DEF HandTypes, FlushSteps
<1>5. QED
  BY <1>1, <1>2, <1>3, <1>4, TypesQuiet DEF localVars, sstVars, TypesInv, StateTypes

\* The current table becomes the newest frozen one.
LEMMA FreezeTypes ==
    ASSUME StateTypes, Descending, FreezeCurrent, UNCHANGED nextTransactionId
    PROVE  /\ content' \in Seq(SUBSET Ids) /\ Current' = Current + 1
           /\ \A n \in 1..Current : content'[n] = content[n]
           /\ content'[Current'] = {}
           /\ frozen_tables' \in Seq(1..(Current' - 1)) /\ frozen_tables' # <<>>
           /\ Len(frozen_tables') = Len(frozen_tables) + 1
           /\ frozen_tables'[1] = Current
           /\ \A i \in 1..Len(frozen_tables) : frozen_tables'[i + 1] = frozen_tables[i]
           /\ ToSet(frozen_tables') = {Current} \cup ToSet(frozen_tables)
           /\ frozen_bytes' \in 0..(Word - 1)
           /\ Descending'
<1>1. /\ content \in Seq(SUBSET Ids) /\ Current \in Nat \ {0}
      /\ frozen_tables \in Seq(1..(Current - 1))
  BY DEF StateTypes, Current
<1>2. /\ content' \in Seq(SUBSET Ids) /\ Current' = Current + 1
      /\ \A n \in 1..Current : content'[n] = content[n]
      /\ content'[Current'] = {}
  BY <1>1, AppendProperties DEF FreezeCurrent, Current
<1>3. 1..(Current - 1) \subseteq 1..Current /\ Current \in 1..Current
  BY <1>1
<1>4. frozen_tables \in Seq(1..Current)
  BY <1>1, <1>3, SeqMonotonic
<1>5. /\ frozen_tables' \in Seq(1..Current) /\ frozen_tables' # <<>>
      /\ Len(frozen_tables') = Len(frozen_tables) + 1
      /\ frozen_tables'[1] = Current
      /\ \A i \in 1..Len(frozen_tables) : frozen_tables'[i + 1] = frozen_tables[i]
      /\ ToSet(frozen_tables') = {Current} \cup ToSet(frozen_tables)
  BY <1>3, <1>4, PrependOf DEF FreezeCurrent
<1>6. Current' - 1 = Current
  BY <1>1, <1>2
<1>7. frozen_bytes' \in 0..(Word - 1)
  <2>1. Size(Current) \in Nat
    BY <1>3, SizeType
  <2>2. frozen_bytes \in Nat /\ Word \in Nat \ {0}
    BY LimitsAssumption DEF StateTypes
  <2>3. QED
    BY <2>1, <2>2 DEF FreezeCurrent
<1>8. Descending'
  <2>1. SUFFICES ASSUME NEW i \in DOMAIN frozen_tables', NEW j \in DOMAIN frozen_tables', i < j
                 PROVE  frozen_tables'[i] > frozen_tables'[j]
    BY DEF Descending
  <2>2. i \in 1..(Len(frozen_tables) + 1) /\ j \in 1..(Len(frozen_tables) + 1) /\ Len(frozen_tables) \in Nat
    BY <1>4, <1>5
  <2>3. j - 1 \in 1..Len(frozen_tables) /\ frozen_tables'[j] = frozen_tables[j - 1]
    <3>1. j - 1 \in 1..Len(frozen_tables) /\ (j - 1) + 1 = j
      BY <2>1, <2>2
    <3>2. QED
      BY <3>1, <1>5
  <2>4. frozen_tables[j - 1] \in 1..(Current - 1)
    BY <2>3, <1>1
  <2>5. CASE i = 1
    BY <2>3, <2>4, <2>5, <1>1, <1>5
  <2>6. CASE i # 1
    <3>1. i - 1 \in 1..Len(frozen_tables) /\ (i - 1) + 1 = i /\ i - 1 < j - 1
      BY <2>1, <2>2, <2>6
    <3>2. frozen_tables'[i] = frozen_tables[i - 1]
      BY <3>1, <1>5
    <3>3. DOMAIN frozen_tables = 1..Len(frozen_tables)
      BY <1>4
    <3>4. QED
      BY <2>3, <3>1, <3>2, <3>3 DEF Descending
  <2>7. QED
    BY <2>5, <2>6
<1>9. QED
  BY <1>2, <1>5, <1>6, <1>7, <1>8

\* put_write: a version enters the table that was taken.
LEMMA WriteTypes ==
    ASSUME StateTypes, NEW n \in 1..Current, NEW v \in Ids,
           content' = [content EXCEPT ![n] = @ \cup {v}]
    PROVE  /\ content' \in Seq(SUBSET Ids) /\ Current' = Current
           /\ content'[n] = content[n] \cup {v}
           /\ \A m \in 1..Current : m # n => content'[m] = content[m]
<1>1. content \in Seq(SUBSET Ids) /\ Current = Len(content)
  BY DEF StateTypes, Current
<1>2. content[n] \cup {v} \in SUBSET Ids
  BY <1>1
<1>3. QED
  BY <1>1, <1>2, ExceptSeq DEF Current

\* A step of a thread t that only adds v to table n keeps the types.
LEMMA TypesWrite ==
    ASSUME TypesInv, NEW t \in Threads, NEW step \in Steps, Goto(t, step),
           Holders(t) = {}, Locks(step).keeps \subseteq Keeps(t) \cup Wants(t),
           NEW n \in 1..Current, NEW v \in Ids,
           content' = [content EXCEPT ![n] = @ \cup {v}],
           UNCHANGED <<id, sst_id, frozen_tables, frozen_bytes, sstVars, nextTransactionId>>,
           table' \in [Threads -> Nat \cup Taken \cup {None}],
           \A u \in Threads \ {t} : table'[u] = table[u],
           HandTypes(t)'
    PROVE  TypesInv'
<1>1. content' \in Seq(SUBSET Ids) /\ Current' = Current
  BY WriteTypes DEF TypesInv
<1>2. UNCHANGED <<next_sst_id, level_sst_ids, ssts, Ids>>
  BY DEF sstVars, Ids
<1>3. StateTypes'
  <2>1. pc' \in [Threads -> Steps]
    BY DEF TypesInv, StateTypes, Goto
  <2>2. QED
    BY <1>1, <1>2, <2>1 DEF TypesInv, StateTypes
<1>4. Descending'
  BY DEF TypesInv, Descending
<1>5. Current' >= Current /\ nextTransactionId' >= nextTransactionId
  BY <1>1 DEF TypesInv, StateTypes, Current
<1>6. \A u \in Threads : pc[u] = "flush_pop" => frozen_tables' # <<>>
  BY DEF TypesInv, HandTypes
<1>7. QED
  BY <1>2, <1>3, <1>4, <1>5, <1>6, TypesStep

LEMMA TypesPutWrite ==
    ASSUME TypesInv, NEW t \in Threads, PutWrite(t)
    PROVE  TypesInv'
<1>1. PICK step \in {"put_freeze", "size_cur"} : Goto(t, step)
  BY DEF PutWrite
<1>2. pc[t] = "put_write" /\ Holders(t) = {} /\ HandTypes(t)
  BY DEF PutWrite, At, TypesInv
<1>3. step \in Steps /\ Locks(step).keeps \subseteq Keeps(t)
  BY <1>1, <1>2, KeepsOf DEF Steps, PutSteps, SizeSteps, Keeps
<1>4. table[t] \in 1..Current /\ id[t] \in Ids
  BY <1>2 DEF HandTypes, PutSteps
<1>5. /\ table' \in [Threads -> Nat \cup Taken \cup {None}] /\ table'[t] = None
      /\ \A u \in Threads \ {t} : table'[u] = table[u]
  BY DEF PutWrite, TypesInv, StateTypes
<1>6. HandTypes(t)'
  <2>1. pc'[t] = step
    BY <1>1 DEF Goto, TypesInv, StateTypes
  <2>2. id'[t] \in Ids'
    BY <1>4 DEF PutWrite, Ids
  <2>3. QED
    BY <1>5, <2>1, <2>2 DEF HandTypes, FlushSteps
<1>7. QED
  BY <1>1, <1>2, <1>3, <1>4, <1>5, <1>6, TypesWrite DEF PutWrite

LEMMA TypesCommitWrite ==
    ASSUME TypesInv, NEW t \in Threads, CommitWrite(t)
    PROVE  TypesInv'
<1>1. /\ Goto(t, "idle") /\ pc[t] = "commit_ssts" /\ Holders(t) = {} /\ HandTypes(t)
      /\ UNCHANGED <<localVars, frozen_tables, frozen_bytes, sstVars, nextTransactionId>>
  BY DEF CommitWrite, At, TypesInv
<1>2. "idle" \in Steps /\ Locks("idle").keeps = {}
  BY KeepsOf DEF Steps
<1>3. id[t] \in Ids /\ table[t] = None
  BY <1>1 DEF HandTypes, CommitSteps
<1>4. HandTypes(t)'
  <2>1. pc'[t] = "idle"
    BY <1>1 DEF Goto, TypesInv, StateTypes
  <2>2. table'[t] = None
    BY <1>1, <1>3 DEF localVars
  <2>3. QED
    BY <2>1, <2>2 DEF HandTypes, PutSteps, GetSteps, CommitSteps, FlushSteps
<1>5. CASE UNCHANGED content
  BY <1>1, <1>2, <1>4, <1>5, TypesQuiet DEF localVars, memVars, sstVars, TypesInv, StateTypes
<1>6. CASE content' = [content EXCEPT ![Current] = @ \cup {id[t]}]
  <2>1. Current \in 1..Current
    BY DEF TypesInv, StateTypes, Current
  <2>2. UNCHANGED <<id, table, sst_id>>
    BY <1>1 DEF localVars
  <2>3. table' \in [Threads -> Nat \cup Taken \cup {None}] /\ \A u \in Threads \ {t} : table'[u] = table[u]
    BY <2>2 DEF TypesInv, StateTypes
  <2>4. QED
    BY <1>1, <1>2, <1>3, <1>4, <1>6, <2>1, <2>2, <2>3, TypesWrite
<1>7. QED
  BY <1>5, <1>6 DEF CommitWrite

\* frozen_cur_table_, called by put or by flush_last.
LEMMA TypesFreeze ==
    ASSUME TypesInv, NEW t \in Threads,
           \/ PutFreeze(t)
           \/ FlushTake(t) /\ FreezeCurrent /\ Goto(t, "flush_pop")
    PROVE  TypesInv'
<1>1. PICK step \in {"size_cur", "flush_pop"} :
         /\ Goto(t, step)
         /\ pc[t] = IF step = "size_cur" THEN "put_freeze" ELSE "flush_frozen"
  BY DEF PutFreeze, FlushTake, At
<1>2. /\ FreezeCurrent /\ Holders(t) = {} /\ HandTypes(t)
      /\ UNCHANGED <<localVars, sstVars, nextTransactionId>>
  BY DEF PutFreeze, FlushTake, At, TypesInv
<1>3. step \in Steps /\ Locks(step).keeps \subseteq Keeps(t) \cup Wants(t)
  BY <1>1, KeepsOf, WantsOf DEF Steps, SizeSteps, FlushSteps, Keeps, Wants
<1>4. /\ content' \in Seq(SUBSET Ids) /\ Current' = Current + 1
      /\ frozen_tables' \in Seq(1..(Current' - 1)) /\ frozen_tables' # <<>>
      /\ frozen_bytes' \in 0..(Word - 1)
      /\ Descending'
  BY <1>2, FreezeTypes DEF TypesInv
<1>5. Current \in Nat \ {0}
  BY DEF TypesInv, StateTypes, Current
<1>6. UNCHANGED <<id, table, sst_id, next_sst_id, level_sst_ids, ssts, Ids>>
  BY <1>2 DEF localVars, sstVars, Ids
<1>7. StateTypes'
  <2>1. pc' \in [Threads -> Steps]
    BY <1>1, <1>3 DEF TypesInv, StateTypes, Goto
  <2>2. Current' # 0
    BY <1>4, <1>5
  <2>3. QED
    BY <1>2, <1>4, <1>6, <2>1, <2>2 DEF TypesInv, StateTypes
<1>8. HandTypes(t)'
  <2>1. pc'[t] = step
    BY <1>1 DEF Goto, TypesInv, StateTypes
  <2>2. table'[t] = None
    BY <1>1, <1>2, <1>6 DEF HandTypes
  <2>3. step = "flush_pop" => sst_id'[t] \in Nat
    BY <1>1, <1>2, <1>6 DEF HandTypes, FlushSteps
  <2>4. QED
    BY <1>4, <2>1, <2>2, <2>3 DEF HandTypes, PutSteps, GetSteps, CommitSteps, FlushSteps
<1>9. Current' >= Current /\ nextTransactionId' >= nextTransactionId
  BY <1>2, <1>4, <1>5 DEF TypesInv, StateTypes
<1>10. QED
  BY <1>1, <1>2, <1>3, <1>4, <1>6, <1>7, <1>8, <1>9, TypesStep

\* From taking a table until its number is in the deque a flush is alone: it keeps
\* ssts_mtx.
FlushAlone == {"flush_frozen", "flush_pop", "publish_id", "publish_sst"}

LEMMA OneFlush ==
    ASSUME TypesInv, NEW t \in Threads, NEW u \in Threads,
           pc[t] \in FlushAlone, pc[u] \in FlushAlone
    PROVE  t = u
<1>1. Unique("ssts") \in Keeps(t) /\ Unique("ssts") \in Keeps(u)
  BY KeepsOf DEF FlushAlone, Keeps
<1>2. Excludes(Unique("ssts"), Unique("ssts"))
  BY DEF Excludes, Unique
<1>3. QED
  BY <1>1, <1>2 DEF TypesInv, Exclusion

LEMMA TypesFlushTake ==
    ASSUME TypesInv, NEW t \in Threads, FlushTake(t)
    PROVE  TypesInv'
<1>1. CASE FreezeCurrent /\ Goto(t, "flush_pop")
  BY <1>1, TypesFreeze
<1>2. CASE /\ UNCHANGED memVars
           /\ \/ Goto(t, "flush_pop") /\ frozen_tables # <<>>
              \/ Goto(t, "publish_id")
  <2>1. PICK step \in {"flush_pop", "publish_id"} :
           Goto(t, step) /\ (step = "flush_pop" => frozen_tables # <<>>)
    BY <1>2
  <2>2. /\ pc[t] = "flush_frozen" /\ Holders(t) = {} /\ HandTypes(t)
        /\ UNCHANGED <<localVars, sstVars, nextTransactionId>>
    BY DEF FlushTake, At, TypesInv
  <2>3. step \in Steps /\ Locks(step).keeps \subseteq Keeps(t) \cup Wants(t)
    BY <2>1, <2>2, KeepsOf, WantsOf DEF Steps, FlushSteps, Keeps, Wants
  <2>4. HandTypes(t)'
    <3>1. pc'[t] = step
      BY <2>1 DEF Goto, TypesInv, StateTypes
    <3>2. table'[t] = None /\ sst_id'[t] \in Nat
      BY <2>2 DEF HandTypes, localVars, FlushSteps
    <3>3. step = "flush_pop" => frozen_tables' # <<>>
      BY <1>2, <2>1 DEF memVars
    <3>4. QED
      BY <3>1, <3>2, <3>3 DEF HandTypes, PutSteps, GetSteps, CommitSteps
  <2>5. QED
    BY <1>2, <2>1, <2>2, <2>3, <2>4, TypesQuiet DEF localVars, sstVars, TypesInv, StateTypes
<1>3. QED
  BY <1>1, <1>2 DEF FlushTake

\* flush_last pops the oldest table.
LEMMA PopTypes ==
    ASSUME TypesInv, NEW t \in Threads, FlushPop(t)
    PROVE  /\ frozen_tables # <<>>
           /\ frozen_tables' \in Seq(1..(Current - 1))
           /\ frozen_tables' = Front(frozen_tables)
           /\ Last(frozen_tables) \in 1..(Current - 1)
           /\ \A i \in DOMAIN frozen_tables' :
                 /\ i \in DOMAIN frozen_tables /\ frozen_tables'[i] = frozen_tables[i]
                 /\ frozen_tables'[i] > Last(frozen_tables)
           /\ ToSet(frozen_tables) = {Last(frozen_tables)} \cup ToSet(frozen_tables')
           /\ Descending'
           /\ frozen_bytes' \in 0..(Word - 1)
           /\ table'[t] = [table |-> Last(frozen_tables),
                           versions |-> content[Last(frozen_tables)]]
           /\ table'[t] \in Taken
           /\ \A u \in Threads \ {t} : table'[u] = table[u]
<1>1. frozen_tables # <<>> /\ frozen_tables' = Front(frozen_tables)
  BY DEF FlushPop, At, TypesInv, HandTypes
<1>2. frozen_tables \in Seq(1..(Current - 1)) /\ Current \in Nat
  BY DEF TypesInv, StateTypes, Current
<1>3. /\ frozen_tables' \in Seq(1..(Current - 1))
      /\ Len(frozen_tables') = Len(frozen_tables) - 1
      /\ \A i \in 1..(Len(frozen_tables) - 1) : frozen_tables'[i] = frozen_tables[i]
      /\ Len(frozen_tables) \in Nat \ {0}
      /\ Last(frozen_tables) = frozen_tables[Len(frozen_tables)]
      /\ Last(frozen_tables) \in 1..(Current - 1)
      /\ ToSet(frozen_tables) = {Last(frozen_tables)} \cup ToSet(frozen_tables')
  BY <1>1, <1>2, FrontOf
<1>4. ASSUME NEW i \in DOMAIN frozen_tables'
      PROVE  /\ i \in DOMAIN frozen_tables /\ frozen_tables'[i] = frozen_tables[i]
             /\ frozen_tables'[i] > Last(frozen_tables)
  <2>1. DOMAIN frozen_tables' = 1..(Len(frozen_tables) - 1) /\ DOMAIN frozen_tables = 1..Len(frozen_tables)
    BY <1>2, <1>3
  <2>2. /\ i \in DOMAIN frozen_tables /\ Len(frozen_tables) \in DOMAIN frozen_tables
        /\ i < Len(frozen_tables)
    BY <1>3, <2>1
  <2>3. QED
    BY <1>3, <2>1, <2>2 DEF TypesInv, Descending
<1>5. Descending'
  BY <1>4 DEF TypesInv, Descending
<1>6. Last(frozen_tables) \in 1..Current
  BY <1>2, <1>3
<1>7. Size(Last(frozen_tables)) \in Nat
  BY <1>6, SizeType DEF TypesInv
<1>8. frozen_bytes' \in 0..(Word - 1)
  <2>1. frozen_bytes \in Nat /\ Word \in Nat \ {0}
    BY LimitsAssumption DEF TypesInv, StateTypes
  <2>2. QED
    BY <1>7, <2>1 DEF FlushPop
<1>9. /\ table'[t] = [table |-> Last(frozen_tables), versions |-> content[Last(frozen_tables)]]
      /\ \A u \in Threads \ {t} : table'[u] = table[u]
  BY DEF FlushPop, TypesInv, StateTypes
<1>10. table'[t] \in Taken
  <2>1. content[Last(frozen_tables)] \in SUBSET Nat
    BY <1>6 DEF TypesInv, StateTypes, Current, Ids
  <2>2. QED
    BY <1>3, <1>9, <2>1 DEF Taken
<1>11. QED
  BY <1>1, <1>3, <1>4, <1>5, <1>8, <1>9, <1>10

LEMMA TypesFlushPop ==
    ASSUME TypesInv, NEW t \in Threads, FlushPop(t)
    PROVE  TypesInv'
<1>1. /\ Goto(t, "publish_id") /\ pc[t] = "flush_pop" /\ Holders(t) = {} /\ HandTypes(t)
      /\ UNCHANGED <<id, sst_id, content, sstVars, nextTransactionId>>
  BY DEF FlushPop, At, TypesInv
<1>2. "publish_id" \in Steps /\ Locks("publish_id").keeps \subseteq Keeps(t) \cup Wants(t)
  BY <1>1, KeepsOf DEF Steps, FlushSteps, Keeps
<1>3. /\ frozen_tables' \in Seq(1..(Current - 1)) /\ Descending'
      /\ frozen_bytes' \in 0..(Word - 1)
      /\ table'[t] \in Taken
      /\ \A u \in Threads \ {t} : table'[u] = table[u]
  BY PopTypes
<1>4. UNCHANGED <<next_sst_id, level_sst_ids, ssts, Current, Ids>>
  BY <1>1 DEF sstVars, Current, Ids
<1>5. table' \in [Threads -> Nat \cup Taken \cup {None}]
  BY <1>3 DEF FlushPop, TypesInv, StateTypes
<1>6. StateTypes'
  <2>1. pc' \in [Threads -> Steps]
    BY <1>1, <1>2 DEF TypesInv, StateTypes, Goto
  <2>2. QED
    BY <1>1, <1>3, <1>4, <1>5, <2>1 DEF TypesInv, StateTypes
<1>7. HandTypes(t)'
  <2>1. pc'[t] = "publish_id"
    BY <1>1 DEF Goto, TypesInv, StateTypes
  <2>2. sst_id'[t] \in Nat
    BY <1>1 DEF HandTypes, FlushSteps
  <2>3. QED
    BY <1>3, <2>1, <2>2 DEF HandTypes, PutSteps, GetSteps, CommitSteps
<1>8. Current' >= Current /\ nextTransactionId' >= nextTransactionId
  BY <1>1, <1>4 DEF TypesInv, StateTypes, Current
<1>9. \A u \in Threads \ {t} : pc[u] # "flush_pop"
  BY <1>1, OneFlush DEF FlushAlone
<1>10. QED
  BY <1>1, <1>2, <1>3, <1>4, <1>6, <1>7, <1>8, <1>9, TypesStep

LEMMA TypesPublishId ==
    ASSUME TypesInv, NEW t \in Threads, PublishId(t)
    PROVE  TypesInv'
<1>1. /\ Goto(t, "publish_sst") /\ pc[t] = "publish_id" /\ Holders(t) = {} /\ HandTypes(t)
      /\ UNCHANGED <<localVars, memVars, next_sst_id, ssts, nextTransactionId>>
  BY DEF PublishId, At, TypesInv
<1>2. "publish_sst" \in Steps /\ Locks("publish_sst").keeps \subseteq Keeps(t) \cup Wants(t)
  BY <1>1, KeepsOf DEF Steps, FlushSteps, Keeps
<1>3. sst_id[t] \in Nat /\ table[t] \in Taken \cup {None}
  BY <1>1 DEF HandTypes, FlushSteps
<1>4. /\ level_sst_ids' \in Seq(Nat) /\ level_sst_ids' # <<>>
      /\ Head(level_sst_ids') = sst_id[t]
      /\ ToSet(level_sst_ids) \subseteq ToSet(level_sst_ids')
  <2>1. level_sst_ids \in Seq(Nat) /\ level_sst_ids' = <<sst_id[t]>> \o level_sst_ids
    BY DEF PublishId, TypesInv, StateTypes
  <2>2. QED
    BY <1>3, <2>1, PrependOf
<1>5. UNCHANGED <<id, table, sst_id, content, frozen_tables, frozen_bytes, Current, Ids>>
  BY <1>1 DEF localVars, memVars, Current, Ids
<1>6. StateTypes'
  <2>1. pc' \in [Threads -> Steps]
    BY <1>1, <1>2 DEF TypesInv, StateTypes, Goto
  <2>2. QED
    BY <1>1, <1>4, <1>5, <2>1 DEF TypesInv, StateTypes
<1>7. HandTypes(t)'
  <2>1. pc'[t] = "publish_sst"
    BY <1>1 DEF Goto, TypesInv, StateTypes
  <2>2. QED
    BY <1>3, <1>4, <1>5, <2>1 DEF HandTypes, PutSteps, GetSteps, CommitSteps
<1>8. Current' >= Current /\ nextTransactionId' >= nextTransactionId /\ Descending'
  BY <1>1, <1>5 DEF TypesInv, StateTypes, Current, Descending
<1>9. /\ \A u \in Threads \ {t} : pc[u] # "publish_sst"
      /\ \A u \in Threads : pc[u] = "flush_pop" => frozen_tables' # <<>>
  BY <1>1, <1>5, OneFlush DEF FlushAlone, TypesInv, HandTypes
<1>10. QED
  BY <1>1, <1>2, <1>5, <1>6, <1>7, <1>8, <1>9, TypesStep

\* The map of SSTs after PublishSst.
LEMMA PublishedSsts ==
    ASSUME NEW t, PublishSst(t)
    PROVE  /\ DOMAIN ssts' = {sst_id[t]} \cup DOMAIN ssts
           /\ ssts'[sst_id[t]] = table[t]
           /\ \A n \in DOMAIN ssts \ {sst_id[t]} : ssts'[n] = ssts[n]
  BY DEF PublishSst

LEMMA TypesPublishSst ==
    ASSUME TypesInv, NEW t \in Threads, PublishSst(t)
    PROVE  TypesInv'
<1>1. PICK step \in {"size_cur", "idle"} : Goto(t, step)
  BY DEF PublishSst, Return
<1>2. /\ pc[t] = "publish_sst" /\ Holders(t) = {} /\ HandTypes(t)
      /\ UNCHANGED <<id, memVars, next_sst_id, level_sst_ids, nextTransactionId>>
  BY DEF PublishSst, At, TypesInv
<1>3. step \in Steps /\ Locks(step).keeps = {}
  BY <1>1, KeepsOf DEF Steps, SizeSteps
<1>4. sst_id[t] \in ToSet(level_sst_ids) /\ table[t] \in Taken \cup {None}
  <2>1. level_sst_ids # <<>> /\ level_sst_ids \in Seq(Nat) /\ sst_id[t] = Head(level_sst_ids)
    BY <1>2 DEF HandTypes, TypesInv, StateTypes
  <2>2. 1 \in DOMAIN level_sst_ids /\ sst_id[t] = level_sst_ids[1]
    BY <2>1
  <2>3. QED
    BY <1>2, <2>2 DEF HandTypes, ToSet
<1>5. /\ table' \in [Threads -> Nat \cup Taken \cup {None}] /\ table'[t] = None
      /\ sst_id' \in [Threads -> Nat \cup {None}]
      /\ \A u \in Threads \ {t} : table'[u] = table[u] /\ sst_id'[u] = sst_id[u]
  BY DEF PublishSst, TypesInv, StateTypes
<1>6. UNCHANGED <<content, frozen_tables, frozen_bytes, Current, Ids>>
  BY <1>2 DEF memVars, Current, Ids
<1>7. StateTypes'
  <2>1. pc' \in [Threads -> Steps]
    BY <1>1, <1>3 DEF TypesInv, StateTypes, Goto
  <2>2. DOMAIN ssts' \subseteq ToSet(level_sst_ids)
    BY <1>4, PublishedSsts DEF TypesInv, StateTypes
  <2>3. \A n \in DOMAIN ssts' : ssts'[n] \in Taken \cup {None}
    BY <1>4, PublishedSsts DEF TypesInv, StateTypes
  <2>4. QED
    BY <1>2, <1>5, <1>6, <2>1, <2>2, <2>3 DEF TypesInv, StateTypes
<1>8. HandTypes(t)'
  <2>1. pc'[t] = step
    BY <1>1 DEF Goto, TypesInv, StateTypes
  <2>2. QED
    BY <1>5, <2>1 DEF HandTypes, PutSteps, GetSteps, CommitSteps, FlushSteps
<1>9. Current' >= Current /\ nextTransactionId' >= nextTransactionId /\ Descending'
  BY <1>2, <1>6 DEF TypesInv, StateTypes, Current, Descending
<1>10. \A u \in Threads : pc[u] = "flush_pop" => frozen_tables' # <<>>
  BY <1>6 DEF TypesInv, HandTypes
<1>11. QED
  BY <1>1, <1>2, <1>3, <1>5, <1>7, <1>8, <1>9, <1>10, TypesStep

\* Every step keeps the types.
LEMMA TypesNext == TypesInv /\ [Next]_vars => TypesInv'
<1> SUFFICES ASSUME TypesInv, [Next]_vars PROVE TypesInv'
  OBVIOUS
<1>1. CASE UNCHANGED vars
  <2>1. UNCHANGED <<pc, id, table, sst_id, content, frozen_tables, frozen_bytes,
                    next_sst_id, level_sst_ids, ssts, nextTransactionId>>
    BY <1>1 DEF vars, localVars, memVars, sstVars
  <2>2. StateTypes'
    BY <2>1 DEF TypesInv, StateTypes, Current, Ids
  <2>3. Exclusion' /\ Descending'
    BY <2>1 DEF TypesInv, Exclusion, Keeps, Descending
  <2>4. \A t \in Threads : HandTypes(t)'
    BY <2>1 DEF TypesInv, HandTypes, Current, Ids
  <2>5. QED
    BY <2>2, <2>3, <2>4 DEF TypesInv
<1>2. ASSUME NEW t \in Threads,
             \/ Begin(t) \/ BeginFlush(t)
             \/ PutLock(t) \/ PutWrite(t) \/ PutFreeze(t)
             \/ SizeLock(t) \/ SizeRead(t)
             \/ FlushLoad(t) \/ FlushInc(t) \/ FlushLock(t) \/ FlushTake(t) \/ FlushPop(t)
             \/ PublishId(t) \/ PublishSst(t)
             \/ GetCur(t) \/ GetFrozen(t) \/ GetSst(t)
             \/ CommitLock(t) \/ CommitWrite(t)
      PROVE  TypesInv'
  BY <1>2, TypesBegin, TypesPutLock, TypesPutWrite, TypesFreeze, TypesLock, TypesSizeRead,
     TypesCount, TypesFlushTake, TypesFlushPop, TypesPublishId, TypesPublishSst, TypesGet,
     TypesCommitWrite
<1>3. QED
  BY <1>1, <1>2 DEF Next

\* Whatever the threads do, tables hold ids that were given out, the frozen ones are
\* different tables, level 0 lists every SST, and no two threads keep one lock in
\* modes that exclude each other (memtable.cpp, engine.cpp, transation.cpp).
THEOREM LocksAndTypes == Spec => []TypeOK
<1>1. Spec => []TypesInv
  BY TypesInit, TypesNext, PTL DEF Spec
<1>2. QED
  BY <1>1, TypesGiveTypeOK, PTL

-----------------------------------------------------------------------------
(* Who can be stuck *)

\* The argument is about one state: among threads that are not inside a commit or a
\* get_total_size, the locks are taken in the order ssts_mtx, cur_mtx, frozen_mtx, so
\* that nobody in S waits for frozen_mtx, then nobody for ssts_mtx, then nobody for cur_mtx.
LEMMA NobodyStuck ==
    ASSUME pc \in [Threads -> Steps],
           NEW S \in SUBSET {t \in Threads : pc[t] \notin {"commit_cur", "commit_ssts", "size_again"}},
           Stuck(S)
    PROVE  S = {}
<1> DEFINE Waits(t, u) ==
             \/ \E want \in Wants(t), keep \in Keeps(u) : Excludes(want, keep)
             \/ \E want \in Wants(t), other \in Wants(u) :
                   want = Shared(want[1]) /\ other = Unique(want[1])
<1>1. \A t \in S : \E u \in S : Waits(t, u)
  BY DEF Stuck, Holders, QueuedBefore
<1>2. \A t \in S : pc[t] \in Steps \ {"commit_cur", "commit_ssts", "size_again"}
  OBVIOUS
<1>3. \A t \in S : pc[t] \in {"put_cur", "put_freeze", "size_cur", "size_frozen", "flush_ssts",
                              "flush_frozen", "get_cur", "get_frozen", "commit_frozen"}
  <2>1. \A t \in S : Wants(t) # {}
    BY <1>1
  <2>2. QED
    BY <1>2, <2>1, WantsOf
    DEF Wants, Steps, PutSteps, SizeSteps, FlushSteps, GetSteps, CommitSteps
<1>4. \A t \in S : pc[t] \notin {"put_freeze", "flush_frozen", "commit_frozen"}
  <2>1. ASSUME NEW t \in S, pc[t] \in {"put_freeze", "flush_frozen", "commit_frozen"}, NEW u \in S
        PROVE  ~Waits(t, u)
    <3>1. Wants(t) = {Unique("frozen")}
      BY <2>1, WantsOf DEF Wants
    <3>2. \A keep \in Keeps(u) : keep[1] # "frozen"
      BY <1>3, KeepsOf DEF Keeps, Unique, Shared
    <3>3. Unique("frozen") # Shared("frozen") /\ Unique("frozen")[1] = "frozen"
      BY DEF Unique, Shared
    <3>4. QED
      BY <3>1, <3>2, <3>3 DEF Excludes
  <2>2. QED
    BY <1>1, <2>1
<1>5. \A t \in S : pc[t] \notin {"size_frozen", "get_frozen"}
  <2>1. ASSUME NEW t \in S, pc[t] \in {"size_frozen", "get_frozen"}, NEW u \in S
        PROVE  ~Waits(t, u)
    <3>1. Wants(t) = {Shared("frozen")} /\ Shared("frozen")[1] = "frozen"
      BY <2>1, WantsOf DEF Wants, Shared
    <3>2. \A keep \in Keeps(u) : keep[1] # "frozen"
      BY <1>3, KeepsOf DEF Keeps, Unique, Shared
    <3>3. Unique("frozen") \notin Wants(u)
      BY <1>3, <1>4, WantsOf DEF Wants, Unique, Shared
    <3>4. QED
      BY <3>1, <3>2, <3>3 DEF Excludes
  <2>2. QED
    BY <1>1, <2>1
<1>6. \A u \in S : Keeps(u) = {}
  BY <1>3, <1>4, <1>5, KeepsOf DEF Keeps
<1>7. \A t \in S : pc[t] \notin {"put_cur", "flush_ssts"}
  <2>1. ASSUME NEW t \in S, pc[t] \in {"put_cur", "flush_ssts"}, NEW u \in S
        PROVE  ~Waits(t, u)
    <3>1. Wants(t) \subseteq {Unique("cur"), Unique("ssts")}
      BY <2>1, WantsOf DEF Wants
    <3>2. \A want \in Wants(t) : want # Shared(want[1])
      BY <3>1 DEF Unique, Shared
    <3>3. QED
      BY <1>6, <3>2
  <2>2. QED
    BY <1>1, <2>1
<1>8. \A t \in S : FALSE
  <2>1. ASSUME NEW t \in S, NEW u \in S
        PROVE  ~Waits(t, u)
    <3>1. Wants(t) = {Shared("cur")} /\ Wants(u) = {Shared("cur")}
      BY <1>3, <1>4, <1>5, <1>7, WantsOf DEF Wants
    <3>2. Shared("cur") # Unique("cur") /\ Shared("cur")[1] = "cur"
      BY DEF Unique, Shared
    <3>3. QED
      BY <1>6, <3>1, <3>2
  <2>2. QED
    BY <1>1, <2>1
<1>9. QED
  BY <1>8

\* For any number of threads, infinitely many included: no set of threads is stuck
\* without a commit or a second locking of get_total_size among them.
THEOREM StuckOnlyByCommitOrSize == Spec => []DeadlocksKnown
<1>1. TypesInv => DeadlocksKnown
  <2>1. SUFFICES ASSUME TypesInv, NEW S \in SUBSET {t \in Threads :
                            /\ Holders(t) \cup QueuedBefore(t) # {}
                            /\ pc[t] \notin {"commit_cur", "commit_ssts", "size_again"}},
                        Stuck(S)
                 PROVE  S = {}
    BY DEF DeadlocksKnown
  <2>2. QED
    BY <2>1, NobodyStuck DEF TypesInv, StateTypes
<1>2. Spec => []TypesInv
  BY TypesInit, TypesNext, PTL DEF Spec
<1>3. QED
  BY <1>1, <1>2, PTL

-----------------------------------------------------------------------------
(* The order of level 0 *)

\* The tables in memory; table n is older than each of them.
InMemory == {Current} \cup ToSet(frozen_tables)
Older(n) == \A m \in InMemory : n < m

\* Tables leave memory oldest first, one flush at a time: what is published is older
\* than what a flush has in hand, and that is older than what is in memory.
LevelInv ==
    /\ \A n \in Built : Older(ssts[n].table)
    /\ \A t \in InHand : /\ Older(table[t].table)
                         /\ \A n \in Built : ssts[n].table < table[t].table
    /\ Level0InOrder

\* The steps that neither take a table out of memory nor publish one.
OtherStep(t) ==
    \/ Begin(t) \/ BeginFlush(t)
    \/ PutLock(t) \/ PutWrite(t) \/ PutFreeze(t)
    \/ SizeLock(t) \/ SizeRead(t)
    \/ FlushLoad(t) \/ FlushInc(t) \/ FlushLock(t) \/ FlushTake(t)
    \/ GetCur(t) \/ GetFrozen(t) \/ GetSst(t)
    \/ CommitLock(t) \/ CommitWrite(t)

\* A step of t moves no other thread.
LEMMA StepOfOne ==
    ASSUME TypesInv, NEW t \in Threads,
           OtherStep(t) \/ FlushPop(t) \/ PublishId(t) \/ PublishSst(t),
           NEW u \in Threads \ {t}
    PROVE  pc'[u] = pc[u] /\ table'[u] = table[u]
<1>1. pc'[u] = pc[u]
  <2>1. \E step : Goto(t, step)
    BY DEF OtherStep, Begin, BeginFlush, PutLock, PutWrite, PutFreeze, SizeLock, SizeRead,
           FlushLoad, FlushInc, FlushLock, FlushTake, GetCur, GetFrozen, GetSst,
           CommitLock, CommitWrite, FlushPop, PublishId, PublishSst, Return, Answered
  <2>2. QED
    BY <2>1 DEF Goto, TypesInv, StateTypes
<1>2. table'[u] = table[u]
  BY DEF OtherStep, Begin, BeginFlush, PutLock, PutWrite, PutFreeze, SizeLock, SizeRead,
         FlushLoad, FlushInc, FlushLock, FlushTake, GetCur, GetFrozen, GetSst,
         CommitLock, CommitWrite, FlushPop, PublishId, PublishSst, localVars,
         TypesInv, StateTypes
<1>3. QED
  BY <1>1, <1>2

\* Those steps leave level 0 alone and put nothing into the hand of a flush.
LEMMA OtherStepHand ==
    ASSUME TypesInv, NEW t \in Threads, OtherStep(t)
    PROVE  /\ UNCHANGED <<level_sst_ids, ssts>>
           /\ \A u \in InHand' : u \in InHand /\ table'[u] = table[u]
           /\ InHand \subseteq InHand'
<1>1. UNCHANGED <<level_sst_ids, ssts>>
  BY DEF OtherStep, Begin, BeginFlush, PutLock, PutWrite, PutFreeze, SizeLock, SizeRead,
         FlushLoad, FlushInc, FlushLock, FlushTake, GetCur, GetFrozen, GetSst,
         CommitLock, CommitWrite, sstVars
<1>2. \A u \in Threads \ {t} : pc'[u] = pc[u] /\ table'[u] = table[u]
  BY StepOfOne
<1>3. t \notin InHand
  <2>1. pc[t] \notin {"publish_id", "publish_sst"}
    BY DEF OtherStep, Begin, BeginFlush, PutLock, PutWrite, PutFreeze, SizeLock, SizeRead,
           FlushLoad, FlushInc, FlushLock, FlushTake, GetCur, GetFrozen, GetSst,
           CommitLock, CommitWrite, At
  <2>2. QED
    BY <2>1 DEF InHand
<1>4. t \notin InHand'
  <2>1. CASE FlushTake(t)
    <3>1. table'[t] = table[t] /\ table[t] = None
      BY <2>1 DEF FlushTake, At, localVars, TypesInv, HandTypes
    <3>2. QED
      BY <3>1 DEF InHand
  <2>2. CASE ~FlushTake(t)
    <3>1. \E step \in {"idle", "crashed", "put_cur", "put_write", "put_freeze", "size_cur",
                        "size_frozen", "size_again", "flush_load", "flush_inc",
                        "flush_ssts", "flush_frozen", "get_cur", "get_frozen", "get_sst",
                        "commit_frozen", "commit_cur", "commit_ssts"} : Goto(t, step)
      <4>1. CASE Begin(t) \/ BeginFlush(t) \/ SizeRead(t) \/ PutWrite(t)
        BY <4>1 DEF Begin, BeginFlush, SizeRead, PutWrite, Return
      <4>2. CASE GetCur(t) \/ GetFrozen(t) \/ GetSst(t)
        BY <4>2 DEF GetCur, GetFrozen, GetSst, Answered
      <4>3. CASE \/ PutLock(t) \/ PutFreeze(t) \/ SizeLock(t) \/ FlushLoad(t)
                 \/ FlushInc(t) \/ FlushLock(t) \/ CommitLock(t) \/ CommitWrite(t)
        BY <4>3 DEF PutLock, PutFreeze, SizeLock, FlushLoad, FlushInc, FlushLock,
                    CommitLock, CommitWrite
      <4>4. QED
        BY <2>2, <4>1, <4>2, <4>3 DEF OtherStep
    <3>2. QED
      BY <3>1 DEF Goto, InHand, TypesInv, StateTypes
  <2>3. QED
    BY <2>1, <2>2
<1>5. QED
  BY <1>1, <1>2, <1>3, <1>4 DEF InHand

\* Memory gains tables at its young end only.
LEMMA MemoryMoves ==
    ASSUME TypesInv, NEW t \in Threads, OtherStep(t)
    PROVE  \A m \in InMemory' : m \in InMemory \/ m = Current + 1
<1>1. CASE FreezeCurrent /\ UNCHANGED nextTransactionId
  BY <1>1, FreezeTypes DEF TypesInv, InMemory
<1>2. CASE UNCHANGED memVars
  BY <1>2 DEF InMemory, Current, memVars
<1>3. CASE PutWrite(t) \/ CommitWrite(t)
  <2>1. UNCHANGED frozen_tables
    BY <1>3 DEF PutWrite, CommitWrite
  <2>2. Current' = Current
    BY <1>3, TypesPutWrite, TypesCommitWrite DEF PutWrite, CommitWrite, Current, TypesInv, StateTypes
  <2>3. QED
    BY <2>1, <2>2 DEF InMemory
<1>4. QED
  BY <1>1, <1>2, <1>3
  DEF OtherStep, Begin, BeginFlush, PutLock, PutFreeze, SizeLock, SizeRead,
      FlushLoad, FlushInc, FlushLock, FlushTake, GetCur, GetFrozen, GetSst,
      CommitLock

LEMMA LevelOther ==
    ASSUME TypesInv, LevelInv, NEW t \in Threads, OtherStep(t)
    PROVE  LevelInv'
<1>1. UNCHANGED <<level_sst_ids, ssts, Built>> /\ \A u \in InHand' : u \in InHand /\ table'[u] = table[u]
  BY OtherStepHand DEF Built
<1>2. ASSUME NEW n \in Nat, Older(n)
      PROVE  Older(n)'
  <2>1. Current \in InMemory /\ Current \in Nat
    BY DEF InMemory, TypesInv, StateTypes, Current
  <2>2. n < Current + 1
    BY <1>2, <2>1 DEF Older
  <2>3. QED
    BY <1>2, <2>2, MemoryMoves DEF Older
<1>3. \A n \in Built : ssts[n].table \in Nat
  BY DEF TypesInv, StateTypes, Built, Taken
<1>4. \A u \in InHand : table[u].table \in Nat
  BY DEF TypesInv, HandTypes, InHand, Taken
<1>5. Level0InOrder'
  BY <1>1 DEF LevelInv, Level0InOrder, Collided
<1>6. QED
  BY <1>1, <1>2, <1>3, <1>4, <1>5 DEF LevelInv

LEMMA LevelPop ==
    ASSUME TypesInv, LevelInv, NEW t \in Threads, FlushPop(t)
    PROVE  LevelInv'
<1> DEFINE oldest == Last(frozen_tables)
<1>1. pc[t] = "flush_pop" /\ UNCHANGED <<content, level_sst_ids, ssts, Built, Current>>
  BY DEF FlushPop, At, sstVars, Built, Current
<1>2. InHand' \subseteq {t}
  <2>1. \A u \in Threads \ {t} : pc'[u] = pc[u]
    BY DEF FlushPop, Goto, TypesInv, StateTypes
  <2>2. QED
    BY <1>1, <2>1, OneFlush DEF InHand, FlushAlone
<1>3. /\ table'[t].table = oldest
      /\ ToSet(frozen_tables) = {oldest} \cup ToSet(frozen_tables')
      /\ oldest \in 1..(Current - 1) /\ Current \in Nat
      /\ \A i \in DOMAIN frozen_tables' : frozen_tables'[i] > oldest
  BY PopTypes DEF TypesInv, StateTypes, Current
<1>4. InMemory' \subseteq InMemory /\ oldest \in InMemory
  BY <1>1, <1>3 DEF InMemory
<1>5. \A m \in InMemory' : oldest < m
  <2>1. \A m \in ToSet(frozen_tables') : oldest < m
    <3>1. TAKE m \in ToSet(frozen_tables')
    <3>2. PICK i \in DOMAIN frozen_tables' : m = frozen_tables'[i]
      BY DEF ToSet
    <3>3. frozen_tables'[i] > oldest /\ frozen_tables'[i] \in Nat /\ oldest \in Nat
      <4>1. frozen_tables' \in Seq(1..(Current - 1))
        BY PopTypes
      <4>2. QED
        BY <1>3, <4>1
    <3>4. QED
      BY <3>2, <3>3
  <2>2. oldest < Current
    BY <1>3
  <2>3. QED
    BY <1>1, <2>1, <2>2 DEF InMemory
<1>6. \A n \in Built : Older(ssts[n].table)' /\ ssts[n].table < oldest
  BY <1>1, <1>4 DEF LevelInv, Older
<1>7. Level0InOrder'
  BY <1>1 DEF LevelInv, Level0InOrder, Collided
<1>8. QED
  BY <1>1, <1>2, <1>3, <1>5, <1>6, <1>7 DEF LevelInv, Older

\* A number put before the others is new, or else two flushes had the same one.
LEMMA PrependedNumber ==
    ASSUME NEW x \in Nat, level_sst_ids \in Seq(Nat), level_sst_ids' = <<x>> \o level_sst_ids,
           ~Collided'
    PROVE  ~Collided /\ x \notin ToSet(level_sst_ids)
<1>1. /\ Len(level_sst_ids') = Len(level_sst_ids) + 1 /\ level_sst_ids' \in Seq(Nat)
      /\ level_sst_ids'[1] = x
      /\ \A i \in 1..Len(level_sst_ids) : level_sst_ids'[i + 1] = level_sst_ids[i]
  BY PrependOf
<1>2. /\ DOMAIN level_sst_ids = 1..Len(level_sst_ids) /\ Len(level_sst_ids) \in Nat
      /\ DOMAIN level_sst_ids' = 1..(Len(level_sst_ids) + 1)
  BY <1>1
<1>3. \A i, j \in DOMAIN level_sst_ids' : level_sst_ids'[i] = level_sst_ids'[j] => i = j
  BY DEF Collided, IsInjective
<1>4. \A i \in DOMAIN level_sst_ids :
         /\ i + 1 \in DOMAIN level_sst_ids' /\ i + 1 # 1 /\ i \in Nat
         /\ level_sst_ids'[i + 1] = level_sst_ids[i]
  BY <1>1, <1>2
<1>5. 1 \in DOMAIN level_sst_ids'
  BY <1>2
<1>6. \A i \in DOMAIN level_sst_ids : level_sst_ids[i] # x
  BY <1>1, <1>3, <1>4, <1>5
<1>7. ~Collided
  <2>1. ASSUME NEW i \in DOMAIN level_sst_ids, NEW j \in DOMAIN level_sst_ids,
               level_sst_ids[i] = level_sst_ids[j]
        PROVE  i = j
    <3>1. i + 1 = j + 1
      BY <1>3, <1>4, <2>1
    <3>2. QED
      BY <1>4, <3>1
  <2>2. QED
    BY <2>1 DEF Collided, IsInjective
<1>8. QED
  BY <1>6, <1>7 DEF ToSet

LEMMA LevelPublishId ==
    ASSUME TypesInv, LevelInv, NEW t \in Threads, PublishId(t)
    PROVE  LevelInv'
<1>1. /\ pc[t] = "publish_id"
      /\ UNCHANGED <<table, content, frozen_tables, ssts, Built, InMemory>>
  BY DEF PublishId, At, localVars, memVars, Built, InMemory, Current
<1>2. InHand' = InHand
  BY <1>1 DEF PublishId, Goto, InHand, TypesInv, StateTypes
<1>3. /\ sst_id[t] \in Nat /\ level_sst_ids \in Seq(Nat)
      /\ level_sst_ids' = <<sst_id[t]>> \o level_sst_ids
  BY <1>1 DEF PublishId, TypesInv, StateTypes, HandTypes, FlushSteps
<1>4. Level0InOrder'
  <2>1. SUFFICES ASSUME ~Collided', NEW i \in DOMAIN level_sst_ids', NEW j \in DOMAIN level_sst_ids',
                        i < j, {level_sst_ids'[i], level_sst_ids'[j]} \subseteq Built
                 PROVE  ssts[level_sst_ids'[i]].table > ssts[level_sst_ids'[j]].table
    BY <1>1 DEF Level0InOrder
  <2>2. ~Collided /\ sst_id[t] \notin Built
    <3>1. ~Collided /\ sst_id[t] \notin ToSet(level_sst_ids)
      BY <1>3, <2>1, PrependedNumber
    <3>2. QED
      BY <3>1 DEF Built, TypesInv, StateTypes
  <2>3. /\ DOMAIN level_sst_ids' = 1..(Len(level_sst_ids) + 1) /\ Len(level_sst_ids) \in Nat
        /\ DOMAIN level_sst_ids = 1..Len(level_sst_ids)
        /\ level_sst_ids'[1] = sst_id[t]
        /\ \A k \in 1..Len(level_sst_ids) : level_sst_ids'[k + 1] = level_sst_ids[k]
    <3>1. <<sst_id[t]>> \o level_sst_ids \in Seq(Nat)
      BY <1>3, PrependOf
    <3>2. QED
      BY <1>3, <3>1, PrependOf
  <2>4. i # 1 /\ j # 1
    BY <2>1, <2>2, <2>3
  <2>5. /\ i - 1 \in DOMAIN level_sst_ids /\ j - 1 \in DOMAIN level_sst_ids /\ i - 1 < j - 1
        /\ (i - 1) + 1 = i /\ (j - 1) + 1 = j
    BY <2>1, <2>3, <2>4
  <2>6. level_sst_ids'[i] = level_sst_ids[i - 1] /\ level_sst_ids'[j] = level_sst_ids[j - 1]
    BY <2>3, <2>5
  <2>7. QED
    BY <2>1, <2>2, <2>5, <2>6 DEF LevelInv, Level0InOrder
<1>5. QED
  BY <1>1, <1>2, <1>4 DEF LevelInv, Older

LEMMA LevelPublishSst ==
    ASSUME TypesInv, LevelInv, NEW t \in Threads, PublishSst(t)
    PROVE  LevelInv'
<1>1. /\ pc[t] = "publish_sst" /\ HandTypes(t)
      /\ UNCHANGED <<level_sst_ids, InMemory, Collided>>
  BY DEF PublishSst, At, memVars, InMemory, Current, Collided, TypesInv
<1>2. InHand' = {}
  <2>1. pc'[t] \in {"size_cur", "idle"} /\ \A u \in Threads \ {t} : pc'[u] = pc[u]
    BY DEF PublishSst, Return, Goto, TypesInv, StateTypes
  <2>2. QED
    BY <1>1, <2>1, OneFlush DEF InHand, FlushAlone
<1>3. /\ Built' = (Built \ {sst_id[t]}) \cup (IF table[t] = None THEN {} ELSE {sst_id[t]})
      /\ \A n \in Built' : ssts'[n] = IF n = sst_id[t] THEN table[t] ELSE ssts[n]
  BY PublishedSsts DEF Built
<1>4. table[t] # None => t \in InHand
  BY <1>1 DEF InHand
<1>5. \A n \in Built' : \A m \in InMemory : ssts'[n].table < m
  BY <1>1, <1>3, <1>4 DEF LevelInv, Older
<1>6. Level0InOrder'
  <2>1. SUFFICES ASSUME ~Collided, NEW i \in DOMAIN level_sst_ids, NEW j \in DOMAIN level_sst_ids,
                        i < j, {level_sst_ids[i], level_sst_ids[j]} \subseteq Built'
                 PROVE  ssts'[level_sst_ids[i]].table > ssts'[level_sst_ids[j]].table
    BY <1>1 DEF Level0InOrder
  <2>2. /\ level_sst_ids \in Seq(Nat) /\ level_sst_ids # <<>>
        /\ sst_id[t] = Head(level_sst_ids)
    BY <1>1 DEF HandTypes, TypesInv, StateTypes
  <2>3. 1 \in DOMAIN level_sst_ids /\ sst_id[t] = level_sst_ids[1] /\ j # 1
    BY <2>1, <2>2
  <2>4. level_sst_ids[j] # sst_id[t]
    BY <2>1, <2>3 DEF Collided, IsInjective
  <2>5. level_sst_ids[j] \in Built /\ ssts'[level_sst_ids[j]] = ssts[level_sst_ids[j]]
    BY <1>3, <2>1, <2>4
  <2>6. CASE level_sst_ids[i] = sst_id[t]
    <3>1. table[t] # None /\ ssts'[level_sst_ids[i]] = table[t]
      BY <1>3, <2>1, <2>6
    <3>2. table[t].table > ssts[level_sst_ids[j]].table
      <4>1. ssts[level_sst_ids[j]].table < table[t].table
        BY <1>4, <2>5, <3>1 DEF LevelInv
      <4>2. ssts[level_sst_ids[j]] \in Taken /\ table[t] \in Taken
        BY <1>1, <2>5, <3>1 DEF Built, HandTypes, TypesInv, StateTypes
      <4>3. QED
        BY <4>1, <4>2 DEF Taken
    <3>3. QED
      BY <2>5, <3>1, <3>2
  <2>7. CASE level_sst_ids[i] # sst_id[t]
    <3>1. level_sst_ids[i] \in Built /\ ssts'[level_sst_ids[i]] = ssts[level_sst_ids[i]]
      BY <1>3, <2>1, <2>7
    <3>2. ssts[level_sst_ids[i]].table > ssts[level_sst_ids[j]].table
      BY <2>1, <2>5, <3>1 DEF LevelInv, Level0InOrder
    <3>3. QED
      BY <2>5, <3>1, <3>2
  <2>8. QED
    BY <2>6, <2>7
<1>7. QED
  BY <1>1, <1>2, <1>5, <1>6 DEF LevelInv, Older

LEMMA LevelNext == TypesInv /\ LevelInv /\ [Next]_vars => LevelInv'
<1> SUFFICES ASSUME TypesInv, LevelInv, [Next]_vars PROVE LevelInv'
  OBVIOUS
<1>1. CASE UNCHANGED vars
  <2>1. UNCHANGED <<pc, table, content, frozen_tables, level_sst_ids, ssts>>
    BY <1>1 DEF vars, localVars, memVars, sstVars
  <2>2. UNCHANGED <<Built, InHand, InMemory, Collided>>
    BY <2>1 DEF Built, InHand, InMemory, Current, Collided
  <2>3. QED
    BY <2>1, <2>2 DEF LevelInv, Older, Level0InOrder
<1>2. ASSUME NEW t \in Threads, OtherStep(t) \/ FlushPop(t) \/ PublishId(t) \/ PublishSst(t)
      PROVE  LevelInv'
  BY <1>2, LevelOther, LevelPop, LevelPublishId, LevelPublishSst
<1>3. QED
  BY <1>1, <1>2 DEF Next, OtherStep

\* However freezes and flushes interleave, and whoever writes beside them, the SSTs of
\* level 0 are in the order in which their tables were made, unless two flushes took
\* one number (engine.cpp:236-244).
THEOREM LevelZeroNewestFirst == Spec => []Level0InOrder
<1>1. Init => LevelInv
  <2>1. SUFFICES ASSUME Init PROVE LevelInv
    OBVIOUS
  <2>2. Built = {} /\ InHand = {}
    BY <2>1 DEF Init, Built, InHand
  <2>3. Level0InOrder
    BY <2>1 DEF Init, Level0InOrder
  <2>4. QED
    BY <2>2, <2>3 DEF LevelInv
<1>2. LevelInv => Level0InOrder
  BY DEF LevelInv
<1>3. Spec => []TypesInv
  BY TypesInit, TypesNext, PTL DEF Spec
<1>4. QED
  BY <1>1, <1>2, <1>3, LevelNext, PTL DEF Spec

-----------------------------------------------------------------------------
(* Bytes and acknowledged versions                                          *)
(*                                                                          *)
(* Both hang on one thing.  A put takes current_table under cur_mtx and     *)
(* writes to it a step later; flush_last, which holds frozen_mtx only, may  *)
(* freeze that table in between.  Nothing else goes wrong: as long as no    *)
(* flush does that, the bytes are exact and nothing is lost, with any       *)
(* number of writers.  A single writer whose clients flush while nobody     *)
(* writes is such a use.                                                    *)

\* A step that changes current_table is not taken while a put is about to write.
TableStays == (\E t \in Threads : pc[t] = "put_write") => Current' = Current

\* A put that is about to write has the current table in hand.
PutsCurrent == \A t \in Threads : pc[t] = "put_write" => table[t] = Current

LEMMA PutsCurrentNext ==
    ASSUME TypesInv, PutsCurrent, [Next]_vars, [TableStays]_vars
    PROVE  PutsCurrent'
<1>1. CASE UNCHANGED vars
  BY <1>1 DEF vars, localVars, memVars, PutsCurrent, Current
<1>2. CASE TableStays /\ Next
  <2>1. PICK t \in Threads : OtherStep(t) \/ FlushPop(t) \/ PublishId(t) \/ PublishSst(t)
    BY <1>2 DEF Next, OtherStep
  <2>2. SUFFICES ASSUME NEW u \in Threads, pc'[u] = "put_write"
                 PROVE  table'[u] = Current'
    BY DEF PutsCurrent
  <2>3. CASE PutLock(t) /\ u = t
    BY <2>3 DEF PutLock, memVars, Current, TypesInv, StateTypes
  <2>4. CASE ~(PutLock(t) /\ u = t)
    <3>1. pc[u] = "put_write" /\ table'[u] = table[u]
      <4>1. CASE u = t
        <5>1. \E step \in Steps \ {"put_write"} : Goto(t, step)
          <6>1. CASE Begin(t) \/ BeginFlush(t) \/ SizeRead(t) \/ PutWrite(t)
            BY <6>1 DEF Begin, BeginFlush, SizeRead, PutWrite, Return, Steps, PutSteps,
                        SizeSteps, GetSteps, CommitSteps, FlushSteps
          <6>2. CASE GetCur(t) \/ GetFrozen(t) \/ GetSst(t)
            BY <6>2 DEF GetCur, GetFrozen, GetSst, Answered, Steps, GetSteps
          <6>3. CASE \/ PutFreeze(t) \/ SizeLock(t) \/ FlushLoad(t) \/ FlushInc(t)
                     \/ FlushLock(t) \/ CommitLock(t) \/ CommitWrite(t)
            BY <6>3 DEF PutFreeze, SizeLock, FlushLoad, FlushInc, FlushLock,
                        CommitLock, CommitWrite, Steps, SizeSteps, FlushSteps, CommitSteps
          <6>4. CASE \/ FlushTake(t) \/ FlushPop(t) \/ PublishId(t) \/ PublishSst(t)
            BY <6>4 DEF FlushTake, FlushPop, PublishId, PublishSst, Return,
                        Steps, SizeSteps, FlushSteps
          <6>5. QED
            BY <2>1, <2>4, <4>1, <6>1, <6>2, <6>3, <6>4 DEF OtherStep
        <5>2. QED
          BY <2>2, <4>1, <5>1 DEF Goto, TypesInv, StateTypes
      <4>2. CASE u # t
        <5>1. pc'[u] = pc[u] /\ table'[u] = table[u]
          BY <2>1, <4>2, StepOfOne
        <5>2. QED
          BY <2>2, <5>1
      <4>3. QED
        BY <4>1, <4>2
    <3>2. QED
      BY <1>2, <3>1 DEF TableStays, PutsCurrent
  <2>5. QED
    BY <2>3, <2>4
<1>3. QED
  BY <1>1, <1>2

LEMMA WordType == Word \in Nat \ {0}
  BY LimitsAssumption

\* The sizes of the tables of c.
Sizes(c) == [n \in 1..Len(c) |-> Cardinality(c[n])]

LEMMA SizesType ==
    ASSUME NEW m \in Nat, NEW c \in Seq(SUBSET (1..m))
    PROVE  /\ \A n \in 1..Len(c) : Cardinality(c[n]) \in Nat
           /\ Sizes(c) \in [1..Len(c) -> Int]
<1>1. IsFiniteSet(1..m)
  BY FS_Interval
<1>2. \A n \in 1..Len(c) : IsFiniteSet(c[n])
  BY <1>1, FS_Subset
<1>3. \A n \in 1..Len(c) : Cardinality(c[n]) \in Nat
  BY <1>2, FS_CardinalityType
<1>4. QED
  BY <1>3 DEF Sizes

\* Bytes, unfolded, is the total of the sizes.
LEMMA BytesIsTotal ==
    ASSUME NEW m \in Nat, NEW c \in Seq(SUBSET (1..m)), NEW s \in Seq(1..Len(c))
    PROVE  LET sum[i \in 0..Len(s)] == IF i = 0 THEN 0 ELSE sum[i - 1] + Cardinality(c[s[i]])
           IN  /\ sum[Len(s)] = Total(Weigh(Sizes(c), s))
               /\ sum[Len(s)] \in Int
<1> DEFINE w == Weigh(Sizes(c), s)
           IsBytes(f) == f = [i \in 0..Len(s) |->
                                 IF i = 0 THEN 0 ELSE f[i - 1] + Cardinality(c[s[i]])]
<1>1. w \in Seq(Int) /\ Len(w) = Len(s)
  BY SizesType, WeighType
<1>2. \A i \in 1..Len(s) : w[i] = Cardinality(c[s[i]])
  <2>1. \A i \in 1..Len(s) : s[i] \in 1..Len(c)
    OBVIOUS
  <2>2. QED
    BY <2>1 DEF Weigh, Sizes
<1>3. ASSUME NEW f PROVE IsSum(f, w) <=> IsBytes(f)
  <2>1. \A i \in 0..Len(s) : (IF i = 0 THEN 0 ELSE f[i - 1] + w[i])
                                = (IF i = 0 THEN 0 ELSE f[i - 1] + Cardinality(c[s[i]]))
    BY <1>2
  <2>2. [i \in 0..Len(s) |-> IF i = 0 THEN 0 ELSE f[i - 1] + w[i]]
           = [i \in 0..Len(s) |-> IF i = 0 THEN 0 ELSE f[i - 1] + Cardinality(c[s[i]])]
    BY <2>1
  <2> HIDE DEF w
  <2>3. QED
    BY <1>1, <2>2 DEF IsSum
<1> HIDE DEF w, IsBytes
<1>4. \E f : IsBytes(f)
  BY <1>1, <1>3, SumExists
<1>5. IsBytes(CHOOSE f : IsBytes(f))
  BY <1>4
<1> DEFINE g == CHOOSE f : IsBytes(f)
<1>6. g[Len(s)] = Total(w) /\ g[Len(s)] \in Int
  <2>1. IsSum(g, w)
    BY <1>3, <1>5
  <2> HIDE DEF g
  <2>2. QED
    BY <1>1, <2>1, TotalIs
<1>7. QED
  BY <1>6 DEF w, IsBytes

\* The sizes of older tables do not change when others come or grow.
LEMMA TotalUnchanged ==
    ASSUME NEW c, NEW d, Len(c) \in Nat, Len(d) \in Nat, Len(c) <= Len(d),
           NEW s \in Seq(1..Len(c)), \A i \in DOMAIN s : d[s[i]] = c[s[i]]
    PROVE  Total(Weigh(Sizes(d), s)) = Total(Weigh(Sizes(c), s))
<1>1. \A i \in 1..Len(s) : i \in DOMAIN s /\ s[i] \in 1..Len(c) /\ s[i] \in 1..Len(d)
  OBVIOUS
<1>2. \A i \in 1..Len(s) : Sizes(d)[s[i]] = Sizes(c)[s[i]]
  BY <1>1 DEF Sizes
<1>3. Weigh(Sizes(d), s) = Weigh(Sizes(c), s)
  BY <1>2 DEF Weigh
<1>4. QED
  BY <1>3

\* BytesExact as a statement about totals, before and after a step.
LEMMA BytesTotals ==
    ASSUME StateTypes, StateTypes'
    PROVE  /\ Bytes(frozen_tables) = Total(Weigh(Sizes(content), frozen_tables))
           /\ Bytes(frozen_tables) \in Int
           /\ Bytes(frozen_tables)' = Total(Weigh(Sizes(content'), frozen_tables'))
           /\ frozen_tables \in Seq(1..Current) /\ frozen_tables' \in Seq(1..(Current'))
<1>1. /\ content \in Seq(SUBSET (1..(nextTransactionId - 1)))
      /\ content' \in Seq(SUBSET (1..(nextTransactionId' - 1)))
      /\ nextTransactionId - 1 \in Nat /\ nextTransactionId' - 1 \in Nat
  <2>1. /\ content \in Seq(SUBSET Ids) /\ nextTransactionId \in Nat \ {0}
        /\ content' \in Seq(SUBSET Ids') /\ nextTransactionId' \in Nat \ {0}
    BY DEF StateTypes
  <2>2. nextTransactionId - 1 \in Nat /\ nextTransactionId' - 1 \in Nat
    <3>1. nextTransactionId \in Nat \ {0} /\ nextTransactionId' \in Nat \ {0}
      BY <2>1
    <3>2. \A n \in Nat \ {0} : n - 1 \in Nat
      OBVIOUS
    <3>3. QED
      BY <3>1, <3>2
  <2>3. QED
    BY <2>1, <2>2 DEF Ids
<1>2. /\ Current = Len(content) /\ Current' = Len(content')
      /\ Current \in Nat \ {0} /\ Current' \in Nat \ {0}
  BY DEF StateTypes, Current
<1>3. frozen_tables \in Seq(1..Current) /\ frozen_tables' \in Seq(1..(Current'))
  <2>1. 1..(Current - 1) \subseteq 1..Current /\ 1..(Current' - 1) \subseteq 1..(Current')
    BY <1>2
  <2>2. frozen_tables \in Seq(1..(Current - 1)) /\ frozen_tables' \in Seq(1..(Current' - 1))
    BY DEF StateTypes
  <2>3. QED
    BY <2>1, <2>2, SeqMonotonic
<1>4. /\ Bytes(frozen_tables) = Total(Weigh(Sizes(content), frozen_tables))
      /\ Bytes(frozen_tables) \in Int
  BY <1>1, <1>2, <1>3, BytesIsTotal DEF Bytes, Size
<1>5. Bytes(frozen_tables)' = Total(Weigh(Sizes(content'), frozen_tables'))
  BY <1>1, <1>2, <1>3, BytesIsTotal DEF Bytes, Size
<1>6. QED
  BY <1>3, <1>4, <1>5

\* A table is frozen: its size is added.
LEMMA BytesFreeze ==
    ASSUME StateTypes, StateTypes', Descending, BytesExact, FreezeCurrent,
           UNCHANGED nextTransactionId
    PROVE  BytesExact'
<1> DEFINE total == Total(Weigh(Sizes(content), frozen_tables))
           size == Cardinality(content[Current])
<1>1. /\ Current' = Current + 1 /\ Current \in Nat \ {0}
      /\ \A n \in 1..Current : content'[n] = content[n]
      /\ frozen_tables' = <<Current>> \o frozen_tables
      /\ frozen_bytes' = (frozen_bytes + size) % Word
  BY FreezeTypes DEF StateTypes, Current, FreezeCurrent, Size
<1>2. /\ Bytes(frozen_tables) = total /\ total \in Int
      /\ Bytes(frozen_tables)' = Total(Weigh(Sizes(content'), frozen_tables'))
      /\ frozen_tables \in Seq(1..Current)
  BY BytesTotals
<1>3. Len(content) = Current /\ Len(content') = Current'
  BY DEF Current
<1>4. Total(Weigh(Sizes(content'), frozen_tables)) = total
  <2>1. \A i \in DOMAIN frozen_tables : content'[frozen_tables[i]] = content[frozen_tables[i]]
    BY <1>1, <1>2
  <2>2. QED
    BY <1>1, <1>2, <1>3, <2>1, TotalUnchanged
<1>5. size \in Nat /\ Sizes(content')[Current] = size
  <2>1. Current \in 1..Current /\ Current \in 1..(Current')
    BY <1>1
  <2>2. size \in Nat
    BY <2>1, SizeType DEF Size
  <2>3. QED
    BY <1>1, <1>3, <2>1, <2>2 DEF Sizes
<1>6. Total(Weigh(Sizes(content'), frozen_tables')) = size + total
  <2>1. Sizes(content') \in [1..(Current') -> Int]
    <3>1. content' \in Seq(SUBSET Ids')
      BY DEF StateTypes
    <3>2. nextTransactionId' - 1 \in Nat
      BY DEF StateTypes
    <3>3. QED
      BY <1>3, <3>1, <3>2, SizesType DEF Ids
  <2>2. frozen_tables \in Seq(1..(Current')) /\ Current \in 1..(Current')
    <3>1. 1..Current \subseteq 1..(Current') /\ Current \in 1..(Current')
      BY <1>1
    <3>2. QED
      BY <1>2, <3>1, SeqMonotonic
  <2> HIDE DEF size, total
  <2>3. QED
    BY <1>1, <1>4, <1>5, <2>1, <2>2, WeighPrepend
<1> HIDE DEF total, size
<1>7. ((total % Word) + size) % Word = (total + size) % Word
  <2>1. total \in Int /\ size \in Int
    BY <1>2, <1>5
  <2>2. QED
    BY <2>1, AddModulo, WordType
<1>8. total + size = size + total
  BY <1>2, <1>5
<1>9. QED
  BY <1>1, <1>2, <1>6, <1>7, <1>8 DEF BytesExact

\* A table is popped: its size is subtracted.
LEMMA BytesPop ==
    ASSUME TypesInv, StateTypes', BytesExact, NEW t \in Threads, FlushPop(t)
    PROVE  BytesExact'
<1> DEFINE oldest == Last(frozen_tables)
           size == Cardinality(content[oldest])
           total == Total(Weigh(Sizes(content), frozen_tables))
           rest == Total(Weigh(Sizes(content), Front(frozen_tables)))
<1>1. /\ frozen_tables # <<>> /\ frozen_tables' = Front(frozen_tables)
      /\ oldest \in 1..(Current - 1) /\ UNCHANGED content
      /\ frozen_bytes' = (frozen_bytes - size) % Word
  BY PopTypes DEF FlushPop, Size
<1>2. /\ Bytes(frozen_tables) = total /\ total \in Int
      /\ Bytes(frozen_tables)' = Total(Weigh(Sizes(content'), frozen_tables'))
      /\ frozen_tables \in Seq(1..Current) /\ frozen_tables' \in Seq(1..(Current'))
  BY BytesTotals DEF TypesInv
<1>3. Bytes(frozen_tables)' = rest
  BY <1>1, <1>2
<1>4. oldest \in 1..Current /\ Len(content) = Current
  BY <1>1 DEF TypesInv, StateTypes, Current
<1>5. Sizes(content)[oldest] = size /\ size \in Nat
  <2>1. size \in Nat
    BY <1>4, SizeType DEF Size, TypesInv
  <2> HIDE DEF oldest
  <2>2. QED
    BY <1>4, <2>1 DEF Sizes
<1>6. total = rest + size
  <2>1. Sizes(content) \in [1..Current -> Int]
    <3>1. content \in Seq(SUBSET Ids) /\ nextTransactionId - 1 \in Nat
      BY DEF TypesInv, StateTypes
    <3>2. QED
      BY <1>4, <3>1, SizesType DEF Ids
  <2>2. QED
    BY <1>1, <1>2, <1>5, <2>1, WeighFront
<1> HIDE DEF total, rest, size
<1>7. /\ rest \in Int /\ total + (-size) = rest /\ -size \in Int
      /\ frozen_bytes - size = frozen_bytes + (-size)
  <2>1. rest \in Int
    <3>1. Front(frozen_tables) \in Seq(1..Current)
      BY <1>1, <1>2, FrontOf
    <3>2. content \in Seq(SUBSET (1..(nextTransactionId - 1))) /\ nextTransactionId - 1 \in Nat
      BY DEF TypesInv, StateTypes, Ids
    <3>3. QED
      BY <1>4, <3>1, <3>2, BytesIsTotal DEF rest
  <2>2. frozen_bytes \in Int
    BY DEF TypesInv, StateTypes
  <2>3. QED
    BY <1>2, <1>5, <1>6, <2>1, <2>2
<1>8. ((total % Word) + (-size)) % Word = (total + (-size)) % Word
  BY <1>2, <1>7, AddModulo, WordType
<1>9. frozen_bytes = total % Word
  BY <1>2 DEF BytesExact
<1>10. frozen_bytes' = rest % Word
  BY <1>1, <1>7, <1>8, <1>9
<1>11. QED
  BY <1>3, <1>10 DEF BytesExact

LEMMA BytesOther ==
    ASSUME StateTypes, StateTypes', BytesExact, UNCHANGED <<frozen_tables, frozen_bytes>>,
           Current' = Current, \A n \in 1..(Current - 1) : content'[n] = content[n]
    PROVE  BytesExact'
<1>1. /\ Bytes(frozen_tables) = Total(Weigh(Sizes(content), frozen_tables))
      /\ Bytes(frozen_tables)' = Total(Weigh(Sizes(content'), frozen_tables'))
      /\ frozen_tables \in Seq(1..Current)
  BY BytesTotals
<1>2. Len(content) \in Nat /\ Len(content') = Len(content) /\ Current = Len(content)
  BY DEF StateTypes, Current
<1>3. \A i \in DOMAIN frozen_tables : content'[frozen_tables[i]] = content[frozen_tables[i]]
  <2>1. frozen_tables \in Seq(1..(Current - 1))
    BY DEF StateTypes
  <2>2. \A i \in DOMAIN frozen_tables : frozen_tables[i] \in 1..(Current - 1)
    BY <2>1, ElementsOf
  <2>3. QED
    BY <2>2
<1>4. Total(Weigh(Sizes(content'), frozen_tables)) = Total(Weigh(Sizes(content), frozen_tables))
  BY <1>1, <1>2, <1>3, TotalUnchanged
<1>5. QED
  BY <1>1, <1>4 DEF BytesExact

\* PutWrite, unless a flush has frozen its table, and CommitWrite add one version to the
\* current table.
LEMMA WriteInPlace ==
    ASSUME TypesInv, NEW t \in Threads, PutWrite(t) \/ CommitWrite(t),
           PutWrite(t) => table[t] = Current
    PROVE  /\ Current' = Current /\ UNCHANGED <<frozen_tables, frozen_bytes, ssts, level_sst_ids>>
           /\ \A n \in 1..(Current - 1) : content'[n] = content[n]
           /\ \A n \in 1..Current : content[n] \subseteq content'[n]
           /\ content'[Current] \subseteq content[Current] \cup {id[t]}
           /\ PutWrite(t) => id[t] \in content'[Current]
           /\ done' \subseteq done \cup (content'[Current] \cap {id[t]})
<1>1. Current \in 1..Current /\ \A n \in 1..(Current - 1) : n # Current /\ n \in 1..Current
  BY DEF TypesInv, StateTypes, Current
<1>2. CASE UNCHANGED <<content, done>> /\ CommitWrite(t)
  <2>1. pc[t] = "commit_ssts"
    BY <1>2 DEF CommitWrite, At
  <2>2. UNCHANGED <<frozen_tables, frozen_bytes, ssts, level_sst_ids, Current>>
    BY <1>2 DEF CommitWrite, sstVars, Current
  <2>3. ~PutWrite(t)
    BY <2>1 DEF PutWrite, At
  <2>4. QED
    BY <1>2, <2>2, <2>3
<1>3. CASE /\ content' = [content EXCEPT ![Current] = @ \cup {id[t]}]
           /\ UNCHANGED <<frozen_tables, frozen_bytes, sstVars>>
           /\ id[t] \in Ids
           /\ done' \subseteq done \cup {id[t]}
  <2>1. /\ Current' = Current /\ content'[Current] = content[Current] \cup {id[t]}
        /\ \A n \in 1..Current : n # Current => content'[n] = content[n]
    BY <1>1, <1>3, WriteTypes DEF TypesInv
  <2>2. QED
    BY <1>1, <1>3, <2>1 DEF sstVars
<1>4. CASE PutWrite(t)
  <2>1. table[t] = Current /\ id[t] \in Ids
    BY <1>4 DEF PutWrite, At, TypesInv, HandTypes, PutSteps
  <2>2. QED
    BY <1>3, <1>4, <2>1 DEF PutWrite
<1>5. CASE CommitWrite(t)
  <2>1. id[t] \in Ids
    BY <1>5 DEF CommitWrite, At, TypesInv, HandTypes, CommitSteps
  <2>2. QED
    BY <1>2, <1>3, <1>5, <2>1 DEF CommitWrite
<1>6. QED
  BY <1>4, <1>5

LEMMA WritesCurrent ==
    ASSUME TypesInv, PutsCurrent, NEW t \in Threads, PutWrite(t) \/ CommitWrite(t)
    PROVE  /\ Current' = Current /\ UNCHANGED <<frozen_tables, frozen_bytes, ssts, level_sst_ids>>
           /\ \A n \in 1..(Current - 1) : content'[n] = content[n]
           /\ \A n \in 1..Current : content[n] \subseteq content'[n]
           /\ content'[Current] \subseteq content[Current] \cup {id[t]}
           /\ PutWrite(t) => id[t] \in content'[Current]
           /\ done' \subseteq done \cup (content'[Current] \cap {id[t]})
<1>1. PutWrite(t) => table[t] = Current
  BY DEF PutWrite, At, PutsCurrent
<1>2. QED
  BY <1>1, WriteInPlace

\* Wherever a put writes, no table loses a version.
LEMMA WritesGrow ==
    ASSUME TypesInv, NEW t \in Threads, PutWrite(t) \/ CommitWrite(t)
    PROVE  /\ Current' = Current /\ UNCHANGED <<frozen_tables, ssts>>
           /\ \A n \in 1..Current : content[n] \subseteq content'[n]
<1>1. CASE PutWrite(t) /\ table[t] # Current
  <2>1. table[t] \in 1..Current /\ id[t] \in Ids
    BY <1>1 DEF PutWrite, At, TypesInv, HandTypes, PutSteps
  <2>2. /\ content' = [content EXCEPT ![table[t]] = @ \cup {id[t]}]
        /\ UNCHANGED <<frozen_tables, ssts>>
    BY <1>1 DEF PutWrite, sstVars
  <2>3. /\ Current' = Current /\ content'[table[t]] = content[table[t]] \cup {id[t]}
        /\ \A n \in 1..Current : n # table[t] => content'[n] = content[n]
    BY <2>1, <2>2, WriteTypes DEF TypesInv
  <2>4. QED
    BY <2>2, <2>3
<1>2. CASE ~(PutWrite(t) /\ table[t] # Current)
  BY <1>2, WriteInPlace
<1>3. QED
  BY <1>1, <1>2

\* The steps that leave the tables in memory alone.
StillStep(t) ==
    \/ OtherStep(t) /\ UNCHANGED memVars
    \/ PublishId(t) \/ PublishSst(t)

\* Every step freezes the current table, pops the oldest, adds to the current one or
\* leaves all alone.
LEMMA StepKinds ==
    ASSUME Next
    PROVE  \E t \in Threads :
              \/ OtherStep(t) /\ FreezeCurrent /\ UNCHANGED <<nextTransactionId, done>>
              \/ FlushPop(t) \/ PutWrite(t) \/ CommitWrite(t)
              \/ StillStep(t)
<1>1. PICK t \in Threads : OtherStep(t) \/ FlushPop(t) \/ PublishId(t) \/ PublishSst(t)
  BY DEF Next, OtherStep
<1>2. CASE OtherStep(t)
  <2>1. \/ FreezeCurrent /\ UNCHANGED <<nextTransactionId, done>>
        \/ PutWrite(t) \/ CommitWrite(t) \/ UNCHANGED memVars
    BY <1>2
    DEF OtherStep, Begin, BeginFlush, PutLock, PutFreeze, SizeLock, SizeRead,
        FlushLoad, FlushInc, FlushLock, FlushTake, GetCur, GetFrozen, GetSst, CommitLock
  <2>2. QED
    BY <1>2, <2>1 DEF StillStep
<1>3. QED
  BY <1>1, <1>2 DEF StillStep

LEMMA BytesNext ==
    ASSUME TypesInv, TypesInv', BytesExact, [Next]_vars,
           \A t \in Threads : PutWrite(t) => table[t] = Current
    PROVE  BytesExact'
<1>1. CASE UNCHANGED vars
  BY <1>1, BytesOther DEF vars, memVars, Current, TypesInv
<1>2. CASE Next
  <2>1. PICK t \in Threads :
              \/ OtherStep(t) /\ FreezeCurrent /\ UNCHANGED <<nextTransactionId, done>>
              \/ FlushPop(t) \/ PutWrite(t) \/ CommitWrite(t)
              \/ StillStep(t)
    BY <1>2, StepKinds
  <2>2. CASE FreezeCurrent /\ UNCHANGED nextTransactionId
    BY <2>2, BytesFreeze DEF TypesInv
  <2>3. CASE FlushPop(t)
    BY <2>3, BytesPop DEF TypesInv
  <2>4. CASE PutWrite(t) \/ CommitWrite(t)
    BY <2>4, WriteInPlace, BytesOther DEF TypesInv
  <2>5. CASE StillStep(t)
    <3>1. UNCHANGED memVars
      BY <2>5 DEF StillStep, PublishId, PublishSst
    <3>2. QED
      BY <3>1, BytesOther DEF memVars, Current, TypesInv
  <2>6. QED
    BY <2>1, <2>2, <2>3, <2>4, <2>5
<1>3. QED
  BY <1>1, <1>2

\* Whoever is about to put an SST into the map has put its number at the head of the
\* deque, and unless two flushes have one number, that number has no SST yet.
HeadUnbuilt ==
    (\E t \in Threads : pc[t] = "publish_sst")
        => Collided \/ Head(level_sst_ids) \notin DOMAIN ssts

\* A collision stays: numbers are only added.
LEMMA CollidedStays ==
    ASSUME TypesInv, [Next]_vars, Collided
    PROVE  Collided'
<1>1. CASE UNCHANGED level_sst_ids
  BY <1>1 DEF Collided
<1>2. CASE \E t \in Threads : PublishId(t)
  <2>1. PICK t \in Threads : PublishId(t)
    BY <1>2
  <2>2. /\ sst_id[t] \in Nat /\ level_sst_ids \in Seq(Nat)
        /\ level_sst_ids' = <<sst_id[t]>> \o level_sst_ids
    BY <2>1 DEF PublishId, At, TypesInv, StateTypes, HandTypes, FlushSteps
  <2>3. QED
    BY <2>2, PrependedNumber
<1>3. CASE UNCHANGED vars
  BY <1>1, <1>3 DEF vars, sstVars
<1>4. ASSUME NEW t \in Threads, OtherStep(t) \/ FlushPop(t) \/ PublishSst(t)
      PROVE  UNCHANGED level_sst_ids
  BY <1>4, OtherStepHand DEF FlushPop, PublishSst, sstVars
<1>5. QED
  BY <1>1, <1>2, <1>3, <1>4 DEF Next, OtherStep

LEMMA HeadUnbuiltNext ==
    ASSUME TypesInv, HeadUnbuilt, [Next]_vars
    PROVE  HeadUnbuilt'
<1>1. CASE UNCHANGED vars
  BY <1>1 DEF vars, sstVars, HeadUnbuilt, Collided
<1>2. SUFFICES ASSUME NEW u \in Threads, pc'[u] = "publish_sst", ~Collided', Next
               PROVE  Head(level_sst_ids') \notin DOMAIN ssts'
  BY <1>1 DEF HeadUnbuilt
<1>3. PICK t \in Threads : OtherStep(t) \/ FlushPop(t) \/ PublishId(t) \/ PublishSst(t)
  BY <1>2 DEF Next, OtherStep
<1>4. CASE PublishId(t)
  <2>1. /\ sst_id[t] \in Nat /\ level_sst_ids \in Seq(Nat) /\ UNCHANGED ssts
        /\ level_sst_ids' = <<sst_id[t]>> \o level_sst_ids
    BY <1>4 DEF PublishId, At, TypesInv, StateTypes, HandTypes, FlushSteps
  <2>2. Head(level_sst_ids') = sst_id[t] /\ sst_id[t] \notin ToSet(level_sst_ids)
    <3>1. Head(level_sst_ids') = sst_id[t]
      BY <2>1, PrependOf
    <3>2. sst_id[t] \notin ToSet(level_sst_ids)
      BY <1>2, <2>1, PrependedNumber
    <3>3. QED
      BY <3>1, <3>2
  <2>3. QED
    BY <2>1, <2>2 DEF TypesInv, StateTypes
<1>5. CASE OtherStep(t) \/ FlushPop(t)
  <2>1. UNCHANGED <<level_sst_ids, ssts>>
    BY <1>5, OtherStepHand DEF FlushPop, sstVars
  <2>2. pc[u] = "publish_sst"
    <3>1. CASE u # t
      BY <1>2, <1>3, <3>1, StepOfOne
    <3>2. CASE u = t
      <4>1. CASE FlushPop(t)
        BY <1>2, <3>2, <4>1 DEF FlushPop, Goto, TypesInv, StateTypes
      <4>2. CASE OtherStep(t)
        <5>1. \E step \in Steps \ {"publish_sst"} : Goto(t, step)
          <6>1. CASE Begin(t) \/ BeginFlush(t) \/ SizeRead(t) \/ PutWrite(t) \/ FlushTake(t)
            BY <6>1 DEF Begin, BeginFlush, SizeRead, PutWrite, FlushTake, Return, Steps,
                        PutSteps, SizeSteps, GetSteps, CommitSteps, FlushSteps
          <6>2. CASE GetCur(t) \/ GetFrozen(t) \/ GetSst(t)
            BY <6>2 DEF GetCur, GetFrozen, GetSst, Answered, Steps, GetSteps
          <6>3. CASE \/ PutLock(t) \/ PutFreeze(t) \/ SizeLock(t) \/ FlushLoad(t)
                     \/ FlushInc(t) \/ FlushLock(t) \/ CommitLock(t) \/ CommitWrite(t)
            BY <6>3 DEF PutLock, PutFreeze, SizeLock, FlushLoad, FlushInc, FlushLock,
                        CommitLock, CommitWrite, Steps, PutSteps, SizeSteps, FlushSteps,
                        CommitSteps
          <6>4. QED
            BY <4>2, <6>1, <6>2, <6>3 DEF OtherStep
        <5>2. QED
          BY <1>2, <3>2, <5>1 DEF Goto, TypesInv, StateTypes
      <4>3. QED
        BY <1>5, <4>1, <4>2
    <3>3. QED
      BY <3>1, <3>2
  <2>3. QED
    BY <1>2, <2>1, <2>2 DEF HeadUnbuilt, Collided
<1>6. CASE PublishSst(t)
  <2>1. pc[t] = "publish_sst" /\ pc'[t] \in {"size_cur", "idle"}
    BY <1>6 DEF PublishSst, At, Return, Goto, TypesInv, StateTypes
  <2>2. u # t /\ pc[u] = "publish_sst"
    BY <1>2, <1>3, <2>1, StepOfOne
  <2>3. QED
    BY <2>1, <2>2, OneFlush DEF FlushAlone
<1>7. QED
  BY <1>3, <1>4, <1>5, <1>6

\* Where a version is kept, before and after a step.
LEMMA KeptHas ==
    ASSUME NEW v
    PROVE  /\ v \in Kept <=> \/ \E n \in InMemory : v \in content[n]
                             \/ \E u \in InHand : v \in table[u].versions
                             \/ \E n \in Built : v \in ssts[n].versions
           /\ v \in Kept' <=> \/ \E n \in InMemory' : v \in content'[n]
                              \/ \E u \in InHand' : v \in table'[u].versions
                              \/ \E n \in Built' : v \in ssts'[n].versions
<1>1. ASSUME NEW M, NEW H, NEW B, NEW c, NEW h, NEW b
      PROVE  v \in UNION ({c[n] : n \in M} \cup {h[u].versions : u \in H}
                             \cup {b[n].versions : n \in B})
               <=> \/ \E n \in M : v \in c[n]
                   \/ \E u \in H : v \in h[u].versions
                   \/ \E n \in B : v \in b[n].versions
  OBVIOUS
<1>2. /\ Kept = UNION ({content[n] : n \in InMemory} \cup {table[u].versions : u \in InHand}
                        \cup {ssts[n].versions : n \in Built})
      /\ Kept' = UNION ({content'[n] : n \in InMemory'} \cup {table'[u].versions : u \in InHand'}
                         \cup {ssts'[n].versions : n \in Built'})
  BY DEF Kept, InMemory
<1>3. QED
  BY <1>1, <1>2

\* The SST that t publishes takes the place of one that has v.
Replaced(t, v) == sst_id[t] \in Built /\ v \in ssts[sst_id[t]].versions

\* No step loses a version that is kept, but one that replaces its SST.
LEMMA KeptStays ==
    ASSUME TypesInv, TypesInv', Next, NEW v \in Kept,
           \A t \in Threads : PublishSst(t) => ~Replaced(t, v)
    PROVE  v \in Kept'
<1>1. PICK t \in Threads :
              \/ OtherStep(t) /\ FreezeCurrent /\ UNCHANGED <<nextTransactionId, done>>
              \/ FlushPop(t) \/ PutWrite(t) \/ CommitWrite(t)
              \/ StillStep(t)
  BY StepKinds
<1>2. CASE \E n \in InMemory : v \in content[n]
  <2>1. PICK n \in InMemory : v \in content[n]
    BY <1>2
  <2>2. SUFFICES \/ \E m \in InMemory' : v \in content'[m]
                 \/ \E u \in InHand' : v \in table'[u].versions
    BY KeptHas
  <2>3. n \in 1..Current /\ Current \in Nat \ {0}
    <3>1. Current \in Nat \ {0} /\ frozen_tables \in Seq(1..(Current - 1))
      BY DEF TypesInv, StateTypes, Current
    <3>2. \A i \in DOMAIN frozen_tables : frozen_tables[i] \in 1..(Current - 1)
      BY <3>1, ElementsOf
    <3>3. QED
      BY <3>1, <3>2 DEF InMemory, ToSet
  <2>4. CASE FreezeCurrent /\ UNCHANGED nextTransactionId
    BY <2>1, <2>3, <2>4, FreezeTypes DEF InMemory, TypesInv
  <2>5. CASE FlushPop(t)
    <3>1. /\ ToSet(frozen_tables) = {Last(frozen_tables)} \cup ToSet(frozen_tables')
          /\ UNCHANGED <<content, Current>>
          /\ table'[t] \in Taken
          /\ table'[t].versions = content[Last(frozen_tables)]
          /\ pc'[t] = "publish_id"
      BY <2>5, PopTypes DEF FlushPop, Current, Goto, TypesInv, StateTypes
    <3>2. t \in InHand'
      BY <3>1, NoneAssumption DEF InHand, Taken
    <3>3. QED
      BY <2>1, <3>1, <3>2 DEF InMemory
  <2>6. CASE PutWrite(t) \/ CommitWrite(t)
    <3>1. /\ Current' = Current /\ frozen_tables' = frozen_tables
          /\ \A m \in 1..Current : content[m] \subseteq content'[m]
      BY <2>6, WritesGrow
    <3>2. InMemory' = InMemory
      BY <3>1 DEF InMemory
    <3>3. QED
      BY <2>1, <2>3, <3>1, <3>2
  <2>7. CASE StillStep(t)
    <3>1. UNCHANGED <<content, frozen_tables>>
      BY <2>7 DEF StillStep, PublishId, PublishSst, memVars
    <3>2. QED
      BY <2>1, <3>1 DEF InMemory, Current
  <2>8. QED
    BY <1>1, <2>4, <2>5, <2>6, <2>7
<1>3. CASE \E u \in InHand : v \in table[u].versions
  <2>1. PICK u \in InHand : v \in table[u].versions
    BY <1>3
  <2>2. SUFFICES \/ \E w \in InHand' : v \in table'[w].versions
                 \/ \E n \in Built' : v \in ssts'[n].versions
    BY KeptHas
  <2>3. u \in Threads /\ pc[u] \in {"publish_id", "publish_sst"} /\ table[u] # None
    BY DEF InHand
  <2>4. CASE OtherStep(t)
    <3>1. u \in InHand' /\ table'[u] = table[u]
      BY <2>4, OtherStepHand
    <3>2. QED
      BY <2>1, <3>1
  <2>5. CASE FlushPop(t)
    <3>1. u # t
      BY <2>3, <2>5 DEF FlushPop, At
    <3>2. u \in InHand' /\ table'[u] = table[u]
      BY <2>3, <2>5, <3>1, StepOfOne DEF InHand
    <3>3. QED
      BY <2>1, <3>2
  <2>6. CASE PublishId(t)
    <3>1. pc'[t] = "publish_sst" /\ UNCHANGED table
      BY <2>6 DEF PublishId, Goto, localVars, TypesInv, StateTypes
    <3>2. u # t => pc'[u] = pc[u]
      BY <2>3, <2>6, StepOfOne
    <3>3. u \in InHand'
      BY <2>3, <3>1, <3>2 DEF InHand
    <3>4. QED
      BY <2>1, <3>1, <3>3
  <2>7. CASE PublishSst(t)
    <3>1. u = t
      BY <2>3, <2>7, OneFlush DEF PublishSst, At, FlushAlone
    <3>2. sst_id[t] \in Built' /\ ssts'[sst_id[t]] = table[t]
      BY <2>3, <2>7, <3>1, PublishedSsts DEF Built
    <3>3. QED
      BY <2>1, <3>1, <3>2
  <2>8. QED
    BY <1>1, <2>4, <2>5, <2>6, <2>7 DEF StillStep, OtherStep
<1>4. CASE \E n \in Built : v \in ssts[n].versions
  <2>1. PICK n \in Built : v \in ssts[n].versions
    BY <1>4
  <2>2. SUFFICES n \in Built' /\ ssts'[n] = ssts[n]
    BY <2>1, KeptHas
  <2>3. CASE OtherStep(t) \/ FlushPop(t) \/ PublishId(t)
    <3>1. UNCHANGED ssts
      BY <2>3, OtherStepHand DEF FlushPop, PublishId, sstVars
    <3>2. QED
      BY <3>1 DEF Built
  <2>4. CASE PublishSst(t)
    <3>1. n # sst_id[t]
      BY <2>1, <2>4 DEF Replaced
    <3>2. QED
      BY <2>4, <3>1, PublishedSsts DEF Built
  <2>5. QED
    BY <1>1, <2>3, <2>4 DEF StillStep, OtherStep
<1>5. QED
  BY <1>2, <1>3, <1>4, KeptHas

\* No step loses a version while no two flushes have one number.
LEMMA KeptGrows ==
    ASSUME TypesInv, TypesInv', HeadUnbuilt, ~Collided, Next
    PROVE  Kept \subseteq Kept'
<1>1. ASSUME NEW t \in Threads, PublishSst(t) PROVE sst_id[t] \notin Built
  <2>1. pc[t] = "publish_sst" /\ sst_id[t] = Head(level_sst_ids)
    BY <1>1 DEF PublishSst, At, TypesInv, HandTypes
  <2>2. QED
    BY <2>1 DEF HeadUnbuilt, Built
<1>2. QED
  BY <1>1, KeptStays DEF Replaced

\* The puts whose version is in a table and not acknowledged yet.
Owing(t) == t \in Writers /\ pc[t] \in {"put_freeze"} \cup SizeSteps \cup FlushSteps

OwedKept ==
    \/ Collided
    \/ /\ done \subseteq Kept
       /\ \A t \in Threads : Owing(t) => id[t] \in Kept

\* A put owes its version from PutWrite on, under the id it began with.
LEMMA OwingFrom ==
    ASSUME TypesInv, NEW t \in Threads,
           OtherStep(t) \/ FlushPop(t) \/ PublishId(t) \/ PublishSst(t),
           NEW u \in Threads, Owing(u)'
    PROVE  (Owing(u) /\ id'[u] = id[u]) \/ (PutWrite(t) /\ u = t /\ id'[t] = id[t])
<1>1. CASE u # t
  <2>1. pc'[u] = pc[u]
    BY <1>1, StepOfOne
  <2>2. id'[u] = id[u]
    BY <1>1 DEF OtherStep, Begin, BeginFlush, PutLock, PutWrite, PutFreeze, SizeLock, SizeRead,
         FlushLoad, FlushInc, FlushLock, FlushTake, GetCur, GetFrozen, GetSst,
         CommitLock, CommitWrite, FlushPop, PublishId, PublishSst, localVars, TakeId,
         TypesInv, StateTypes
  <2>3. QED
    BY <2>1, <2>2 DEF Owing
<1>2. CASE u = t
  <2>1. u \in Writers /\ pc'[t] \in {"put_freeze"} \cup SizeSteps \cup FlushSteps
    BY <1>2 DEF Owing
  <2>2. CASE PutWrite(t)
    BY <1>2, <2>2 DEF PutWrite
  <2>3. ~Begin(t)
    <3>1. SUFFICES ASSUME Begin(t) PROVE FALSE
      OBVIOUS
    <3>2. pc'[t] \in {"get_cur", "put_cur", "commit_frozen"}
      BY <3>1 DEF Begin, Goto, TypesInv, StateTypes
    <3>3. QED
      BY <2>1, <3>2 DEF SizeSteps, FlushSteps
  <2>4. ~BeginFlush(t)
    BY <1>2, <2>1, RolesAssumption DEF BeginFlush
  <2>5. ~(GetCur(t) \/ GetFrozen(t) \/ GetSst(t))
    <3>1. SUFFICES ASSUME GetCur(t) \/ GetFrozen(t) \/ GetSst(t) PROVE FALSE
      OBVIOUS
    <3>2. pc'[t] \in {"get_frozen", "get_sst", "idle", "crashed"}
      BY <3>1 DEF GetCur, GetFrozen, GetSst, Answered, Goto, TypesInv, StateTypes
    <3>3. QED
      BY <2>1, <3>2 DEF SizeSteps, FlushSteps
  <2>6. ~(PutLock(t) \/ CommitLock(t) \/ CommitWrite(t))
    <3>1. SUFFICES ASSUME PutLock(t) \/ CommitLock(t) \/ CommitWrite(t) PROVE FALSE
      OBVIOUS
    <3>2. pc'[t] \in {"put_write", "commit_cur", "commit_ssts", "idle"}
      BY <3>1 DEF PutLock, CommitLock, CommitWrite, Goto, TypesInv, StateTypes
    <3>3. QED
      BY <2>1, <3>2 DEF SizeSteps, FlushSteps
  <2>7. CASE \/ PutFreeze(t) \/ SizeLock(t) \/ SizeRead(t) \/ FlushLoad(t) \/ FlushInc(t)
             \/ FlushLock(t) \/ FlushTake(t) \/ FlushPop(t) \/ PublishId(t) \/ PublishSst(t)
    <3>1. pc[t] \in {"put_freeze"} \cup SizeSteps \cup FlushSteps
      BY <2>7 DEF PutFreeze, SizeLock, SizeRead, FlushLoad, FlushInc, FlushLock, FlushTake,
                  FlushPop, PublishId, PublishSst, At, SizeSteps, FlushSteps
    <3>2. UNCHANGED id
      BY <2>7 DEF PutFreeze, SizeLock, SizeRead, FlushLoad, FlushInc, FlushLock, FlushTake,
                  FlushPop, PublishId, PublishSst, localVars
    <3>3. QED
      BY <1>2, <2>1, <3>1, <3>2 DEF Owing
  <2>8. QED
    BY <2>2, <2>3, <2>4, <2>5, <2>6, <2>7 DEF OtherStep
<1>3. QED
  BY <1>1, <1>2

\* A call acknowledges a version it owes, or one that commit has just written.
LEMMA DoneFrom ==
    ASSUME TypesInv, NEW t \in Threads,
           OtherStep(t) \/ FlushPop(t) \/ PublishId(t) \/ PublishSst(t)
    PROVE  \/ done' \subseteq done
           \/ Owing(t) /\ done' \subseteq done \cup {id[t]}
           \/ CommitWrite(t)
<1>1. CASE SizeRead(t) \/ PublishSst(t)
  <2>1. pc[t] \in SizeSteps \cup FlushSteps
    BY <1>1 DEF SizeRead, PublishSst, At, SizeSteps, FlushSteps
  <2>2. \/ done' = done
        \/ t \in Writers /\ done' = done \cup {id[t]}
    BY <1>1 DEF SizeRead, PublishSst, Return
  <2>3. QED
    BY <2>1, <2>2 DEF Owing
<1>2. CASE ~(SizeRead(t) \/ PublishSst(t) \/ CommitWrite(t))
  BY <1>2 DEF OtherStep, Begin, BeginFlush, PutLock, PutWrite, PutFreeze, SizeLock,
         FlushLoad, FlushInc, FlushLock, FlushTake, GetCur, GetFrozen, GetSst,
         CommitLock, FlushPop, PublishId
<1>3. QED
  BY <1>1, <1>2

LEMMA OwedKeptNext ==
    ASSUME TypesInv, TypesInv', PutsCurrent, HeadUnbuilt, OwedKept, [Next]_vars
    PROVE  OwedKept'
<1>1. CASE UNCHANGED vars
  <2>1. UNCHANGED <<pc, id, table, content, frozen_tables, level_sst_ids, ssts, done>>
    BY <1>1 DEF vars, localVars, memVars, sstVars
  <2>2. UNCHANGED <<Built, InHand, Current>>
    BY <2>1 DEF Built, InHand, Current
  <2>3. UNCHANGED <<Kept, Collided>>
    BY <2>1, <2>2 DEF Kept, Collided
  <2>4. \A t \in Threads : Owing(t)' <=> Owing(t)
    BY <2>1 DEF Owing
  <2>5. QED
    BY <2>1, <2>3, <2>4 DEF OwedKept
<1>2. CASE Next /\ ~Collided
  <2>1. PICK t \in Threads : OtherStep(t) \/ FlushPop(t) \/ PublishId(t) \/ PublishSst(t)
    BY <1>2 DEF Next, OtherStep
  <2>2. Kept \subseteq Kept' /\ done \subseteq Kept /\ \A u \in Threads : Owing(u) => id[u] \in Kept
    BY <1>2, KeptGrows DEF OwedKept
  <2>3. ASSUME PutWrite(t) \/ CommitWrite(t)
        PROVE  /\ PutWrite(t) => id[t] \in Kept'
               /\ done' \subseteq Kept'
    <3>1. /\ Current' = Current
          /\ PutWrite(t) => id[t] \in content'[Current]
          /\ done' \subseteq done \cup (content'[Current] \cap {id[t]})
      BY <2>3, WritesCurrent
    <3>2. Current' \in InMemory'
      BY DEF InMemory
    <3>3. \A v \in content'[Current] : v \in Kept'
      BY <3>1, <3>2, KeptHas
    <3>4. QED
      BY <2>2, <3>1, <3>3
  <2>4. done' \subseteq Kept'
    BY <2>1, <2>2, <2>3, DoneFrom
  <2>5. ASSUME NEW u \in Threads, Owing(u)' PROVE id'[u] \in Kept'
    BY <2>1, <2>2, <2>3, <2>5, OwingFrom
  <2>6. QED
    BY <2>4, <2>5 DEF OwedKept
<1>3. CASE Collided
  BY <1>3, CollidedStays DEF OwedKept
<1>4. QED
  BY <1>1, <1>2, <1>3

LEMMA TakenWritten ==
    ASSUME TypesInv, NEW t \in Threads, PutWrite(t), table[t] # Current
    PROVE  WritesTaken(t)
<1>1. pc'[t] \in {"put_freeze", "size_cur"}
  BY DEF PutWrite, Goto, TypesInv, StateTypes
<1>2. QED
  BY <1>1 DEF PutWrite, At, WritesTaken

LEMMA PublishLeaves ==
    ASSUME TypesInv, NEW t \in Threads, PublishSst(t)
    PROVE  pc[t] = "publish_sst" /\ pc'[t] # "publish_sst"
<1>1. pc'[t] \in {"size_cur", "idle"}
  BY DEF PublishSst, Return, Goto, TypesInv, StateTypes
<1>2. QED
  BY <1>1 DEF PublishSst, At

\* The versions that are written are those that are owed or acknowledged: a step adds
\* the one that it writes.
LEMMA WrittenFrom ==
    ASSUME TypesInv, NEW t \in Threads,
           OtherStep(t) \/ FlushPop(t) \/ PublishId(t) \/ PublishSst(t),
           NEW v \in Written', v \notin Written
    PROVE  v = id[t] /\ (PutWrite(t) \/ (CommitWrite(t) /\ v \in done'))
<1>1. Written = done \cup {id[u] : u \in {w \in Threads : Owing(w)}}
  BY DEF Written, Owing, Threads
<1>2. Written' = done' \cup {id'[u] : u \in {w \in Threads : Owing(w)'}}
  BY DEF Written, Owing, Threads
<1>3. CASE v \in done'
  <2>1. v \notin done /\ (Owing(t) => v # id[t])
    BY <1>1
  <2>2. CommitWrite(t)
    BY <1>3, <2>1, DoneFrom
  <2>3. v = id[t]
    BY <1>3, <2>1, <2>2 DEF CommitWrite
  <2>4. QED
    BY <1>3, <2>2, <2>3
<1>4. CASE v \notin done'
  <2>1. PICK u \in Threads : Owing(u)' /\ v = id'[u]
    BY <1>2, <1>4
  <2>2. PutWrite(t) /\ u = t /\ id'[t] = id[t]
    BY <1>1, <2>1, OwingFrom
  <2>3. QED
    BY <2>1, <2>2
<1>5. QED
  BY <1>3, <1>4

\* The inductive invariant of both.
StaysInv == TypesInv /\ PutsCurrent /\ HeadUnbuilt /\ BytesExact /\ OwedKept

LEMMA StaysInit == Init => StaysInv
<1> SUFFICES ASSUME Init PROVE StaysInv
  OBVIOUS
<1>1. TypesInv
  BY TypesInit
<1>2. \A t \in Threads : pc[t] = "idle"
  BY DEF Init
<1>3. PutsCurrent /\ HeadUnbuilt
  BY <1>2 DEF PutsCurrent, HeadUnbuilt
<1>4. BytesExact
  <2>1. content \in Seq(SUBSET (1..0)) /\ frozen_tables = <<>> /\ frozen_tables \in Seq(1..Len(content))
    BY DEF Init
  <2>2. Bytes(frozen_tables) = Total(Weigh(Sizes(content), frozen_tables))
    BY <2>1, BytesIsTotal DEF Bytes, Size
  <2>3. Weigh(Sizes(content), frozen_tables) = <<>>
    BY <2>1 DEF Weigh
  <2>4. 0 % Word = 0
    BY WordType
  <2>5. QED
    BY <2>2, <2>3, <2>4, TotalEmpty DEF BytesExact, Init
<1>5. OwedKept
  BY <1>2 DEF Init, OwedKept, Owing, SizeSteps, FlushSteps
<1>6. QED
  BY <1>1, <1>3, <1>4, <1>5 DEF StaysInv

LEMMA StaysNext == StaysInv /\ [Next]_vars /\ [TableStays]_vars => StaysInv'
<1> SUFFICES ASSUME StaysInv, [Next]_vars, [TableStays]_vars PROVE StaysInv'
  OBVIOUS
<1>1. TypesInv'
  BY TypesNext DEF StaysInv
<1>2. PutsCurrent' /\ HeadUnbuilt'
  BY PutsCurrentNext, HeadUnbuiltNext DEF StaysInv
<1>3. \A t \in Threads : PutWrite(t) => table[t] = Current
  BY DEF StaysInv, PutsCurrent, PutWrite, At
<1>4. BytesExact' /\ OwedKept'
  BY <1>1, <1>3, BytesNext, OwedKeptNext DEF StaysInv
<1>5. QED
  BY <1>1, <1>2, <1>4 DEF StaysInv

\* With any number of threads: as long as no flush takes the current table from under a
\* put that is about to write to it (memtable.cpp:209 beside memtable.cpp:35), the
\* bytes are exact and no acknowledged version is lost.
THEOREM OnlyATakenTableLoses ==
    Spec /\ [][TableStays]_vars => [](BytesExact /\ AcknowledgedKept)
<1>1. StaysInv => BytesExact /\ AcknowledgedKept
  BY DEF StaysInv, OwedKept, AcknowledgedKept
<1>2. QED
  BY <1>1, StaysInit, StaysNext, PTL DEF Spec

\* Whatever the threads do beside one another, the count of the bytes leaves the frozen
\* tables only when a put writes to a table that a flush has frozen under it
\* (memtable.cpp:209, 221, 234).
THEOREM BytesLeftByPutsOnly == Spec => OnlyPutsMisstateBytes
<1>1. ASSUME TypesInv, TypesInv', [Next]_vars
      PROVE  [BytesExact /\ ~BytesExact' => \E t \in Threads : WritesTaken(t)]_vars
  <2>1. SUFFICES ASSUME BytesExact, ~BytesExact' PROVE \E t \in Threads : WritesTaken(t)
    OBVIOUS
  <2>2. PICK t \in Threads : PutWrite(t) /\ table[t] # Current
    BY <1>1, <2>1, BytesNext
  <2>3. QED
    BY <1>1, <2>2, TakenWritten
<1>2. Spec => []TypesInv
  BY TypesInit, TypesNext, PTL DEF Spec
<1>3. QED
  BY <1>1, <1>2, PTL DEF Spec, OnlyPutsMisstateBytes

\* A written version is lost in two ways only, among all interleavings of any number of
\* threads: by a put into a table that a flush has taken (memtable.cpp:35, 209), or by an
\* SST that takes the place of another with its number (engine.cpp:236).
THEOREM LostInTwoWays == Spec => LossesKnown
<1>1. ASSUME TypesInv, TypesInv', [Next]_vars
      PROVE  [\A v \in Lost' \ Lost :
                 \/ \E t \in Threads : WritesTaken(t) /\ v = id[t]
                 \/ \E t \in Threads : /\ pc[t] = "publish_sst" /\ pc'[t] # "publish_sst"
                                       /\ sst_id[t] \in Built
                                       /\ v \in ssts[sst_id[t]].versions]_vars
  <2>1. SUFFICES ASSUME Next, NEW v \in Lost' \ Lost,
                        \A t \in Threads : PublishSst(t) => ~Replaced(t, v)
                 PROVE  \E t \in Threads : WritesTaken(t) /\ v = id[t]
    BY <1>1, PublishLeaves DEF Replaced
  <2>2. v \in Written' /\ v \notin Kept' /\ v \notin Kept /\ v \notin Written
    BY <1>1, <2>1, KeptStays DEF Lost
  <2>3. PICK t \in Threads : OtherStep(t) \/ FlushPop(t) \/ PublishId(t) \/ PublishSst(t)
    BY <2>1 DEF Next, OtherStep
  <2>4. v = id[t] /\ (PutWrite(t) \/ (CommitWrite(t) /\ v \in done'))
    BY <1>1, <2>2, <2>3, WrittenFrom
  <2>5. PutWrite(t) /\ table[t] # Current
    <3>1. SUFFICES ASSUME PutWrite(t) => table[t] = Current PROVE FALSE
      BY <2>4
    <3>2. /\ Current' = Current
          /\ PutWrite(t) => v \in content'[Current]
          /\ done' \subseteq done \cup (content'[Current] \cap {v})
      BY <1>1, <2>4, <3>1, WriteInPlace
    <3>3. v \in content'[Current'] /\ Current' \in InMemory'
      BY <2>2, <2>4, <3>2 DEF Written, InMemory
    <3>4. QED
      BY <2>2, <3>3, KeptHas
  <2>6. QED
    BY <1>1, <2>4, <2>5, TakenWritten
<1>2. Spec => []TypesInv
  BY TypesInit, TypesNext, PTL DEF Spec
<1>3. QED
  BY <1>1, <1>2, PTL DEF Spec, LossesKnown

-----------------------------------------------------------------------------
(* What reads answer *)

\* No step changes current_table while a put stays between taking cur_mtx and
\* freezing the table it has filled.
PutUndisturbed ==
    (\E t \in Threads : pc[t] \in {"put_write", "put_freeze"} /\ pc'[t] = pc[t])
        => Current' = Current

\* The calls that have taken an id and whose version is in no table yet, and all that
\* have not acknowledged one.
Pending(t) == pc[t] \in {"put_cur", "put_write"} \cup CommitSteps
Begun(t) == Pending(t) \/ Owing(t)

\* Ids are given out once; a call began after what it found acknowledged.
CallsInv ==
    /\ before \in Seq(SUBSET Ids) /\ Len(before) = nextTransactionId - 1
    /\ done \subseteq Ids
    /\ \A i \in Ids : before[i] \subseteq done \cap (1..(i - 1))
    /\ \A t \in Threads : Begun(t) => id[t] \in Ids
    /\ \A t, u \in Threads : Begun(t) /\ Begun(u) /\ id[t] = id[u] => t = u
    /\ \A t \in Threads : Pending(t) => id[t] \notin done

\* What was acknowledged before a version was begun is in no newer table than that
\* version; only the current table may be empty.
VersionsInv ==
    /\ \A w \in Ids : \A v \in before[w] : \A n, m \in 1..Current :
          v \in content[n] /\ w \in content[m] => n <= m
    /\ \A v \in done : \E n \in 1..Current : v \in content[n]
    /\ \A t \in Threads : Owing(t) => \E n \in 1..Current : id[t] \in content[n]
    /\ \A n \in 1..(Current - 1) : content[n] # {}
    /\ (\E t \in Threads : pc[t] = "put_freeze") => content[Current] # {}

\* Tables 1..Popped have left memory, in the order in which they were made: the last
\* one is in the hand of a flush, if any is, the others are in SSTs.
Popped == Current - 1 - Len(frozen_tables)

PlacesInv ==
    /\ \A i \in 1..Len(frozen_tables) : frozen_tables[i] = Current - i
    /\ \A t \in InHand : /\ Popped # 0
                         /\ table[t].table = Popped /\ table[t].versions = content[Popped]
    /\ \A n \in Built : /\ ssts[n].table \in 1..Popped
                        /\ ssts[n].versions = content[ssts[n].table]

\* With none in hand, the first SST of level 0 is the youngest popped table, or
\* there is none by that number.
Latest ==
    InHand = {} =>
        /\ Popped # 0 => level_sst_ids # <<>>
        /\ level_sst_ids # <<>> /\ Head(level_sst_ids) \in Built
              => ssts[Head(level_sst_ids)].table = Popped

LatestInv == Collided \/ Latest

\* A read that has passed a table by has left there nothing acknowledged before it
\* began, and nothing of that kind comes to where it has been.
SearchedInv ==
    \A t \in Threads :
        /\ pc[t] \in {"get_frozen", "get_sst"} => content[Current] \cap before[id[t]] = {}
        /\ pc[t] = "get_sst" =>
              \A n \in (Popped + 1)..Current : content[n] \cap before[id[t]] = {}

ReadsInv ==
    /\ TypesInv /\ PutsCurrent /\ HeadUnbuilt
    /\ CallsInv /\ VersionsInv /\ PlacesInv /\ LatestInv /\ SearchedInv

\* Where the current table changes, a put that freezes it or a flush that finds none
\* frozen is the one step that does it, and the table has versions.
LEMMA TableMoves ==
    ASSUME TypesInv, Next, Current' # Current
    PROVE  \E t \in Threads :
              /\ PutFreeze(t) \/ (FlushTake(t) /\ Size(Current) # 0)
              /\ FreezeCurrent
<1>1. PICK t \in Threads : OtherStep(t) \/ FlushPop(t) \/ PublishId(t) \/ PublishSst(t)
  BY DEF Next, OtherStep
<1>2. content' # content
  BY DEF Current
<1>3. ~(PutWrite(t) \/ CommitWrite(t))
  <2>1. SUFFICES ASSUME PutWrite(t) \/ CommitWrite(t) PROVE Current' = Current
    OBVIOUS
  <2>2. content \in Seq(SUBSET Ids)
    BY DEF TypesInv, StateTypes
  <2>3. \E n, v : content' = [content EXCEPT ![n] = @ \cup {v}]
    BY <1>2, <2>1 DEF PutWrite, CommitWrite
  <2>4. PICK n, v : content' = [content EXCEPT ![n] = @ \cup {v}]
    BY <2>3
  <2>5. Len(content') = Len(content)
    BY <2>2, <2>4
  <2>6. QED
    BY <2>5 DEF Current
<1>4. PutFreeze(t) \/ FlushTake(t)
  BY <1>1, <1>2, <1>3
  DEF OtherStep, Begin, BeginFlush, PutLock, SizeLock, SizeRead, FlushLoad, FlushInc,
      FlushLock, FlushPop, PublishId, PublishSst, GetCur, GetFrozen, GetSst, CommitLock,
      memVars
<1>5. QED
  BY <1>2, <1>4 DEF PutFreeze, FlushTake, memVars

\* How the tables' contents change: each keeps its versions, only the current one
\* gains any, the version of a call that was pending, and a new table is empty.
LEMMA ContentSteps ==
    ASSUME TypesInv, PutsCurrent, [Next]_vars
    PROVE  /\ Current \in Nat \ {0} /\ Current' \in {Current, Current + 1}
           /\ Len(content) = Current /\ Len(content') = Current'
           /\ \A n \in 1..Current : content[n] \subseteq content'[n]
           /\ \A n \in 1..(Current - 1) : content'[n] = content[n]
           /\ \A v \in content'[Current] \ content[Current] :
                 \E t \in Threads : Pending(t) /\ v = id[t]
           /\ Current' = Current + 1 => /\ content'[Current] = content[Current]
                                        /\ content'[Current'] = {}
<1>0. Current \in Nat \ {0} /\ Len(content) = Current /\ Len(content') = Current'
  BY DEF TypesInv, StateTypes, Current
<1>1. CASE UNCHANGED content
  BY <1>0, <1>1 DEF Current
<1>2. CASE Next
  <2>1. PICK t \in Threads :
              \/ OtherStep(t) /\ FreezeCurrent /\ UNCHANGED <<nextTransactionId, done>>
              \/ FlushPop(t) \/ PutWrite(t) \/ CommitWrite(t)
              \/ StillStep(t)
    BY <1>2, StepKinds
  <2>2. CASE FreezeCurrent /\ UNCHANGED nextTransactionId
    <3>1. /\ Current' = Current + 1 /\ content'[Current'] = {}
          /\ \A n \in 1..Current : content'[n] = content[n]
      BY <2>2, FreezeTypes DEF TypesInv
    <3>2. Current \in 1..Current /\ \A n \in 1..(Current - 1) : n \in 1..Current
      BY <1>0
    <3>3. QED
      BY <1>0, <3>1, <3>2
  <2>3. CASE PutWrite(t) \/ CommitWrite(t)
    <3>1. /\ Current' = Current
          /\ \A n \in 1..(Current - 1) : content'[n] = content[n]
          /\ \A n \in 1..Current : content[n] \subseteq content'[n]
          /\ content'[Current] \subseteq content[Current] \cup {id[t]}
      BY <2>3, WritesCurrent
    <3>2. Pending(t)
      BY <2>3 DEF PutWrite, CommitWrite, At, Pending, CommitSteps
    <3>3. Current + 1 # Current
      BY <1>0
    <3>4. QED
      BY <1>0, <3>1, <3>2, <3>3
  <2>4. CASE FlushPop(t) \/ StillStep(t)
    <3>1. UNCHANGED content
      BY <2>4 DEF FlushPop, StillStep, PublishId, PublishSst, memVars
    <3>2. QED
      BY <1>1, <3>1
  <2>5. QED
    BY <2>1, <2>2, <2>3, <2>4
<1>3. CASE UNCHANGED vars
  BY <1>1, <1>3 DEF vars, memVars
<1>4. QED
  BY <1>2, <1>3

\* A call is begun by Begin and keeps its id; a put that has written is not pending.
LEMMA BegunFrom ==
    ASSUME TypesInv, NEW t \in Threads,
           OtherStep(t) \/ FlushPop(t) \/ PublishId(t) \/ PublishSst(t),
           NEW u \in Threads
    PROVE  /\ Pending(u)' => \/ Pending(u) /\ id'[u] = id[u] /\ ~(Begin(t) /\ u = t)
                             \/ Begin(t) /\ u = t
           /\ Owing(u)' => \/ Owing(u) /\ id'[u] = id[u]
                           \/ Pending(u) /\ id'[u] = id[u] /\ PutWrite(t) /\ u = t
           /\ Begin(t) => ~Begun(t)
<1>0. pc \in [Threads -> Steps] /\ id \in [Threads -> Nat]
  BY DEF TypesInv, StateTypes
<1>1. Begin(t) => ~Begun(t)
  BY DEF Begin, Begun, Pending, Owing, CommitSteps, SizeSteps, FlushSteps
<1>2. Begin(t) \/ UNCHANGED id
  BY DEF OtherStep, BeginFlush, PutLock, PutWrite, PutFreeze, SizeLock, SizeRead,
         FlushLoad, FlushInc, FlushLock, FlushTake, GetCur, GetFrozen, GetSst,
         CommitLock, CommitWrite, FlushPop, PublishId, PublishSst, localVars
<1>3. ASSUME Owing(u)'
      PROVE  \/ Owing(u) /\ id'[u] = id[u]
             \/ Pending(u) /\ id'[u] = id[u] /\ PutWrite(t) /\ u = t
  <2>1. (Owing(u) /\ id'[u] = id[u]) \/ (PutWrite(t) /\ u = t /\ id'[t] = id[t])
    BY <1>3, OwingFrom
  <2>2. PutWrite(t) => Pending(t)
    BY DEF PutWrite, At, Pending
  <2>3. QED
    BY <2>1, <2>2
<1>4. ASSUME Pending(u)', ~(Begin(t) /\ u = t)
      PROVE  Pending(u) /\ id'[u] = id[u]
  <2>1. CASE u # t
    <3>1. pc'[u] = pc[u]
      BY <2>1, StepOfOne
    <3>2. id'[u] = id[u]
      BY <1>0, <1>2, <2>1 DEF Begin, TakeId
    <3>3. QED
      BY <1>4, <3>1, <3>2 DEF Pending
  <2>2. CASE u = t
    <3>1. ~Begin(t) /\ UNCHANGED id /\ pc'[t] \in {"put_cur", "put_write"} \cup CommitSteps
      BY <1>2, <1>4, <2>2 DEF Pending
    <3>2. PutLock(t) \/ CommitLock(t)
      <4>1. ~(BeginFlush(t) \/ SizeRead(t) \/ PutWrite(t))
        BY <1>0, <3>1 DEF BeginFlush, SizeRead, PutWrite, Return, Goto, CommitSteps
      <4>2. ~(GetCur(t) \/ GetFrozen(t) \/ GetSst(t))
        BY <1>0, <3>1 DEF GetCur, GetFrozen, GetSst, Answered, Goto, CommitSteps
      <4>3. ~(PutFreeze(t) \/ SizeLock(t) \/ FlushLoad(t) \/ FlushInc(t) \/ FlushLock(t))
        BY <1>0, <3>1 DEF PutFreeze, SizeLock, FlushLoad, FlushInc, FlushLock, Goto, CommitSteps
      <4>4. ~(FlushTake(t) \/ FlushPop(t) \/ PublishId(t) \/ PublishSst(t) \/ CommitWrite(t))
        BY <1>0, <3>1 DEF FlushTake, FlushPop, PublishId, PublishSst, CommitWrite, Return, Goto,
                          CommitSteps
      <4>5. QED
        BY <3>1, <4>1, <4>2, <4>3, <4>4 DEF OtherStep
    <3>3. Pending(t)
      BY <3>2 DEF PutLock, CommitLock, At, Pending, CommitSteps
    <3>4. QED
      BY <2>2, <3>1, <3>3
  <2>3. QED
    BY <2>1, <2>2
<1>5. QED
  BY <1>1, <1>3, <1>4

\* A call acknowledges the version it was begun for, and is then over.
LEMMA DoneSteps ==
    ASSUME TypesInv, NEW t \in Threads,
           OtherStep(t) \/ FlushPop(t) \/ PublishId(t) \/ PublishSst(t)
    PROVE  /\ done \subseteq done'
           /\ \A v \in done' \ done : v = id[t] /\ Begun(t) /\ ~Pending(t)'
           /\ Begin(t) => done' = done
<1>0. pc \in [Threads -> Steps]
  BY DEF TypesInv, StateTypes
<1>1. CASE SizeRead(t) \/ PublishSst(t)
  <2>1. pc[t] \in SizeSteps \cup FlushSteps /\ ~Begin(t)
    BY <1>1 DEF SizeRead, PublishSst, Begin, At, SizeSteps, FlushSteps
  <2>2. \/ done' = done
        \/ t \in Writers /\ done' = done \cup {id[t]} /\ Goto(t, "idle")
    BY <1>1 DEF SizeRead, PublishSst, Return
  <2>3. QED
    BY <1>0, <2>1, <2>2 DEF Owing, Begun, Pending, Goto, CommitSteps
<1>2. CASE CommitWrite(t)
  <2>1. Pending(t) /\ Goto(t, "idle") /\ ~Begin(t)
    BY <1>2 DEF CommitWrite, Begin, At, Pending, CommitSteps
  <2>2. done' = done \/ done' = done \cup {id[t]}
    BY <1>2 DEF CommitWrite
  <2>3. QED
    BY <1>0, <2>1, <2>2 DEF Begun, Pending, Goto, CommitSteps
<1>3. CASE ~(SizeRead(t) \/ PublishSst(t) \/ CommitWrite(t))
  <2>1. done' = done
    BY <1>3 DEF OtherStep, Begin, BeginFlush, PutLock, PutWrite, PutFreeze, SizeLock,
         FlushLoad, FlushInc, FlushLock, FlushTake, GetCur, GetFrozen, GetSst,
         CommitLock, FlushPop, PublishId
  <2>2. QED
    BY <2>1
<1>4. QED
  BY <1>1, <1>2, <1>3

\* Ids and the history: a call gets the next id and what is acknowledged by then.
LEMMA HistorySteps ==
    ASSUME TypesInv, CallsInv, NEW t \in Threads,
           OtherStep(t) \/ FlushPop(t) \/ PublishId(t) \/ PublishSst(t)
    PROVE  /\ nextTransactionId \in Nat \ {0} /\ Ids \subseteq Ids'
           /\ before' \in Seq(SUBSET Ids') /\ Len(before') = nextTransactionId' - 1
           /\ \A i \in Ids : before'[i] = before[i]
           /\ \/ Ids' = Ids
              \/ /\ Begin(t) /\ Ids' = Ids \cup {nextTransactionId}
                 /\ nextTransactionId \notin Ids
                 /\ id'[t] = nextTransactionId
                 /\ before'[nextTransactionId] = done
           /\ Begin(t) => Ids' # Ids
<1>0. nextTransactionId \in Nat \ {0} /\ id \in [Threads -> Nat]
  BY DEF TypesInv, StateTypes
<1>1. CASE Begin(t)
  <2>1. /\ nextTransactionId' = nextTransactionId + 1 /\ before' = Append(before, done)
        /\ id'[t] = nextTransactionId
    BY <1>0, <1>1 DEF Begin, TakeId
  <2>2. /\ Ids' = Ids \cup {nextTransactionId} /\ nextTransactionId \notin Ids
    BY <1>0, <2>1 DEF Ids
  <2>3. before \in Seq(SUBSET Ids') /\ done \in SUBSET Ids'
    BY <2>2 DEF CallsInv
  <2>4. /\ before' \in Seq(SUBSET Ids') /\ Len(before') = nextTransactionId' - 1
        /\ before'[nextTransactionId] = done
        /\ \A i \in Ids : before'[i] = before[i]
    <3>1. Len(before) = nextTransactionId - 1
      BY DEF CallsInv
    <3>2. Len(before) + 1 = nextTransactionId /\ Ids = 1..Len(before)
      BY <1>0, <3>1 DEF Ids
    <3>3. QED
      BY <1>0, <2>1, <2>3, <3>1, <3>2
  <2>5. QED
    BY <1>0, <1>1, <2>1, <2>2, <2>4
<1>2. CASE ~Begin(t)
  <2>1. UNCHANGED <<nextTransactionId, before>>
    BY <1>2
    DEF OtherStep, BeginFlush, PutLock, PutWrite, PutFreeze, SizeLock, SizeRead,
        FlushLoad, FlushInc, FlushLock, FlushTake, GetCur, GetFrozen, GetSst,
        CommitLock, CommitWrite, FlushPop, PublishId, PublishSst
  <2>2. Ids' = Ids
    BY <2>1 DEF Ids
  <2>3. QED
    BY <1>0, <1>2, <2>1, <2>2 DEF CallsInv
<1>3. QED
  BY <1>1, <1>2

LEMMA CallsNext ==
    ASSUME TypesInv, CallsInv, [Next]_vars
    PROVE  CallsInv'
<1>1. CASE UNCHANGED vars
  <2>1. UNCHANGED <<pc, id, before, done, nextTransactionId>>
    BY <1>1 DEF vars, localVars
  <2>2. \A t \in Threads : (Pending(t)' <=> Pending(t)) /\ (Begun(t)' <=> Begun(t))
    BY <2>1 DEF Pending, Begun, Owing
  <2>3. QED
    BY <2>1, <2>2 DEF CallsInv, Ids
<1>2. CASE Next
  <2>1. PICK t \in Threads : OtherStep(t) \/ FlushPop(t) \/ PublishId(t) \/ PublishSst(t)
    BY <1>2 DEF Next, OtherStep
  <2>2. /\ nextTransactionId \in Nat \ {0} /\ Ids \subseteq Ids'
        /\ before' \in Seq(SUBSET Ids') /\ Len(before') = nextTransactionId' - 1
        /\ \A i \in Ids : before'[i] = before[i]
        /\ \/ Ids' = Ids
           \/ /\ Begin(t) /\ Ids' = Ids \cup {nextTransactionId}
              /\ nextTransactionId \notin Ids
              /\ id'[t] = nextTransactionId
              /\ before'[nextTransactionId] = done
        /\ Begin(t) => Ids' # Ids
    BY <2>1, HistorySteps
  <2>3. /\ done \subseteq done'
        /\ \A v \in done' \ done : v = id[t] /\ Begun(t) /\ ~Pending(t)'
        /\ Begin(t) => done' = done
    BY <2>1, DoneSteps
  <2>4. ASSUME NEW u \in Threads, Begun(u)'
        PROVE  (Begun(u) /\ id'[u] = id[u] /\ (Pending(u)' => Pending(u))) \/ (Begin(t) /\ u = t)
    BY <2>1, <2>4, BegunFrom DEF Begun
  <2>5. done' \subseteq Ids'
    <3>1. \A v \in done' \ done : v \in Ids
      BY <2>3 DEF CallsInv
    <3>2. QED
      BY <2>2, <3>1 DEF CallsInv
  <2>6. \A i \in Ids' : before'[i] \subseteq done' \cap (1..(i - 1))
    <3>1. \A i \in Ids : before'[i] \subseteq done' \cap (1..(i - 1))
      BY <2>2, <2>3 DEF CallsInv
    <3>2. done \subseteq 1..(nextTransactionId - 1)
      BY DEF CallsInv, Ids
    <3>3. QED
      BY <2>2, <2>3, <3>1, <3>2
  <2>7. ASSUME NEW u \in Threads, Begun(u)' PROVE id'[u] \in Ids'
    BY <2>2, <2>4, <2>7 DEF CallsInv
  <2>8. ASSUME NEW u \in Threads, NEW w \in Threads, Begun(u)', Begun(w)', id'[u] = id'[w]
        PROVE  u = w
    <3>1. CASE Begin(t) /\ (u = t \/ w = t)
      <4>1. id'[t] = nextTransactionId /\ nextTransactionId \notin Ids
        BY <2>2, <3>1
      <4>2. \A x \in Threads : Begun(x)' /\ x # t => id'[x] \in Ids
        BY <2>4 DEF CallsInv
      <4>3. QED
        BY <2>8, <3>1, <4>1, <4>2
    <3>2. CASE ~(Begin(t) /\ (u = t \/ w = t))
      <4>1. Begun(u) /\ Begun(w) /\ id'[u] = id[u] /\ id'[w] = id[w]
        BY <2>4, <2>8, <3>2
      <4>2. QED
        BY <2>8, <4>1 DEF CallsInv
    <3>3. QED
      BY <3>1, <3>2
  <2>9. ASSUME NEW u \in Threads, Pending(u)' PROVE id'[u] \notin done'
    <3>1. Begun(u)'
      BY <2>9 DEF Begun
    <3>2. CASE Begin(t) /\ u = t
      <4>1. id'[u] \notin Ids /\ done' = done
        BY <2>2, <2>3, <3>2
      <4>2. QED
        BY <4>1 DEF CallsInv
    <3>3. CASE Begun(u) /\ id'[u] = id[u] /\ Pending(u)
      <4>1. id[u] \notin done
        BY <3>3 DEF CallsInv
      <4>2. id[u] \notin done' \ done
        <5>1. SUFFICES ASSUME id[u] \in done' \ done PROVE FALSE
          OBVIOUS
        <5>2. id[u] = id[t] /\ Begun(t) /\ ~Pending(t)'
          BY <2>3, <5>1
        <5>3. u = t
          BY <3>3, <5>2 DEF CallsInv
        <5>4. QED
          BY <2>9, <5>2, <5>3
      <4>3. QED
        BY <3>3, <4>1, <4>2
    <3>4. QED
      BY <2>4, <2>9, <3>1, <3>2, <3>3
  <2>10. QED
    BY <2>2, <2>5, <2>6, <2>7, <2>8, <2>9 DEF CallsInv
<1>3. QED
  BY <1>1, <1>2

\* A version that goes into a table was begun and not acknowledged.
LEMMA NewVersions ==
    ASSUME TypesInv, PutsCurrent, CallsInv, [Next]_vars, NEW n \in 1..Current,
           NEW v \in content'[n]
    PROVE  v \in content[n] \/ (n = Current /\ v \notin done /\ v \in Ids)
<1>1. /\ Current \in Nat \ {0}
      /\ \A m \in 1..(Current - 1) : content'[m] = content[m]
      /\ \A x \in content'[Current] \ content[Current] :
            \E t \in Threads : Pending(t) /\ x = id[t]
  BY ContentSteps
<1>2. CASE n # Current
  BY <1>1, <1>2
<1>3. CASE n = Current /\ v \notin content[n]
  <2>1. PICK t \in Threads : Pending(t) /\ v = id[t]
    BY <1>1, <1>3
  <2>2. QED
    BY <1>3, <2>1 DEF CallsInv, Begun
<1>4. QED
  BY <1>2, <1>3

LEMMA VersionsNext ==
    ASSUME TypesInv, PutsCurrent, CallsInv, VersionsInv, [Next]_vars, [PutUndisturbed]_vars
    PROVE  VersionsInv'
<1>0. /\ Current \in Nat \ {0} /\ Current' \in {Current, Current + 1}
      /\ \A n \in 1..Current : content[n] \subseteq content'[n]
      /\ \A n \in 1..(Current - 1) : content'[n] = content[n]
      /\ Current' = Current + 1 => /\ content'[Current] = content[Current]
                                   /\ content'[Current'] = {}
  BY ContentSteps
<1>a. \A n \in 1..(Current') : n \in 1..Current \/ content'[n] = {}
  BY <1>0
<1>b. 1..Current \subseteq 1..(Current') /\ Current \in 1..Current
  BY <1>0
<1>1. CASE UNCHANGED vars
  <2>1. UNCHANGED <<pc, id, content, before, done, nextTransactionId>>
    BY <1>1 DEF vars, localVars, memVars
  <2>2. \A t \in Threads : Owing(t)' <=> Owing(t)
    BY <2>1 DEF Owing
  <2>3. QED
    BY <2>1, <2>2 DEF VersionsInv, Ids, Current
<1>2. CASE Next /\ PutUndisturbed
  <2>1. PICK t \in Threads : OtherStep(t) \/ FlushPop(t) \/ PublishId(t) \/ PublishSst(t)
    BY <1>2 DEF Next, OtherStep
  <2>2. /\ nextTransactionId \in Nat \ {0} /\ Ids \subseteq Ids'
        /\ \A i \in Ids : before'[i] = before[i]
        /\ \/ Ids' = Ids
           \/ Ids' = Ids \cup {nextTransactionId} /\ nextTransactionId \notin Ids
    BY <2>1, HistorySteps
  <2>3. ASSUME NEW w \in Ids', NEW v \in before'[w], NEW n \in 1..(Current'), NEW m \in 1..(Current'),
               v \in content'[n], w \in content'[m]
        PROVE  n <= m
    <3>1. n \in 1..Current /\ m \in 1..Current
      BY <1>a, <2>3
    <3>2. w \in Ids
      <4>1. content[m] \subseteq Ids
        BY <3>1 DEF TypesInv, StateTypes, Current
      <4>2. w \in content[m] \/ w \in Ids
        BY <2>3, <3>1, NewVersions
      <4>3. QED
        BY <4>1, <4>2
    <3>3. v \in before[w] /\ v \in done
      BY <2>2, <2>3, <3>2 DEF CallsInv
    <3>4. v \in content[n]
      BY <2>3, <3>1, <3>3, NewVersions
    <3>5. CASE w \in content[m]
      BY <3>1, <3>2, <3>3, <3>4, <3>5 DEF VersionsInv
    <3>6. CASE m = Current
      BY <1>0, <3>1, <3>6
    <3>7. QED
      BY <2>3, <3>1, <3>5, <3>6, NewVersions
  <2>4. ASSUME PutWrite(t) \/ CommitWrite(t)
        PROVE  /\ Current' = Current
               /\ PutWrite(t) => id[t] \in content'[Current]
               /\ done' \subseteq done \cup (content'[Current] \cap {id[t]})
    BY <2>4, WritesCurrent
  <2>5. \A u \in Threads : Owing(u)' => \E n \in 1..(Current') : id'[u] \in content'[n]
    <3>1. SUFFICES ASSUME NEW u \in Threads, Owing(u)'
                   PROVE  \E n \in 1..(Current') : id'[u] \in content'[n]
      OBVIOUS
    <3>2. CASE Owing(u) /\ id'[u] = id[u]
      <4>1. PICK n \in 1..Current : id[u] \in content[n]
        BY <3>2 DEF VersionsInv
      <4>2. n \in 1..(Current') /\ id'[u] \in content'[n]
        BY <1>0, <1>b, <3>2, <4>1
      <4>3. QED
        BY <4>2
    <3>3. CASE id'[u] = id[u] /\ PutWrite(t) /\ u = t
      <4>1. Current \in 1..(Current') /\ id'[u] \in content'[Current]
        BY <1>b, <2>4, <3>3
      <4>2. QED
        BY <4>1
    <3>4. QED
      BY <2>1, <3>1, <3>2, <3>3, BegunFrom
  <2>6. \A v \in done' : \E n \in 1..(Current') : v \in content'[n]
    <3>1. SUFFICES ASSUME NEW v \in done' PROVE \E n \in 1..(Current') : v \in content'[n]
      OBVIOUS
    <3>2. CASE \E n \in 1..Current : v \in content[n]
      <4>1. PICK n \in 1..Current : v \in content[n]
        BY <3>2
      <4>2. n \in 1..(Current') /\ v \in content'[n]
        BY <1>0, <1>b, <4>1
      <4>3. QED
        BY <4>2
    <3>3. CASE CommitWrite(t) /\ v \notin done
      <4>1. Current \in 1..(Current') /\ v \in content'[Current]
        BY <1>b, <2>4, <3>1, <3>3
      <4>2. QED
        BY <4>1
    <3>4. v \in done \/ (Owing(t) /\ v = id[t]) \/ CommitWrite(t)
      BY <2>1, <3>1, DoneFrom
    <3>5. QED
      BY <3>2, <3>3, <3>4 DEF VersionsInv
  <2>7. ASSUME Current' # Current
        PROVE  /\ \A u \in Threads : pc'[u] # "put_freeze"
               /\ content[Current] # {}
    <3>1. PICK u \in Threads :
              /\ PutFreeze(u) \/ (FlushTake(u) /\ Size(Current) # 0)
              /\ FreezeCurrent
      BY <1>2, <2>7, TableMoves
    <3>2. content[Current] # {}
      <4>1. PutFreeze(u) => pc[u] = "put_freeze"
        BY DEF PutFreeze, At
      <4>2. Cardinality({}) = 0
        BY FS_EmptySet
      <4>3. QED
        BY <3>1, <4>1, <4>2 DEF VersionsInv, Size
    <3>3. pc'[u] # "put_freeze" /\ \A x \in Threads \ {u} : pc'[x] = pc[x]
      BY <3>1 DEF PutFreeze, FlushTake, Goto, TypesInv, StateTypes
    <3>4. QED
      BY <1>2, <2>7, <3>2, <3>3 DEF PutUndisturbed
  <2>8. \A n \in 1..(Current' - 1) : content'[n] # {}
    <3>1. CASE Current' = Current
      BY <1>0, <3>1 DEF VersionsInv
    <3>2. CASE Current' = Current + 1
      <4>1. content[Current] # {} /\ content'[Current] = content[Current]
        BY <1>0, <2>7, <3>2
      <4>2. \A n \in 1..(Current' - 1) : n = Current \/ n \in 1..(Current - 1)
        BY <1>0, <3>2
      <4>3. QED
        BY <1>0, <4>1, <4>2 DEF VersionsInv
    <3>3. QED
      BY <1>0, <3>1, <3>2
  <2>9. (\E u \in Threads : pc'[u] = "put_freeze") => content'[Current'] # {}
    <3>1. SUFFICES ASSUME NEW u \in Threads, pc'[u] = "put_freeze"
                   PROVE  content'[Current'] # {}
      OBVIOUS
    <3>2. Current' = Current
      BY <2>7, <3>1
    <3>3. CASE pc[u] = "put_freeze"
      <4>1. content[Current] # {} /\ content[Current] \subseteq content'[Current]
        BY <1>0, <1>b, <3>3 DEF VersionsInv
      <4>2. QED
        BY <3>2, <4>1
    <3>4. CASE PutWrite(t)
      BY <2>4, <3>2, <3>4
    <3>5. pc[u] = "put_freeze" \/ PutWrite(t)
      <4>1. CASE u # t
        BY <2>1, <3>1, <4>1, StepOfOne
      <4>2. CASE u = t
        <5>0. pc'[t] = "put_freeze" /\ pc \in [Threads -> Steps]
          BY <3>1, <4>2 DEF TypesInv, StateTypes
        <5>1. ~(Begin(t) \/ BeginFlush(t) \/ SizeRead(t) \/ PublishSst(t))
          BY <5>0 DEF Begin, BeginFlush, SizeRead, PublishSst, Return, Goto
        <5>2. ~(GetCur(t) \/ GetFrozen(t) \/ GetSst(t))
          BY <5>0 DEF GetCur, GetFrozen, GetSst, Answered, Goto
        <5>3. ~(\/ PutLock(t) \/ PutFreeze(t) \/ SizeLock(t) \/ FlushLoad(t)
                \/ FlushInc(t) \/ FlushLock(t) \/ CommitLock(t) \/ CommitWrite(t))
          BY <5>0 DEF PutLock, PutFreeze, SizeLock, FlushLoad, FlushInc, FlushLock, CommitLock,
                      CommitWrite, Goto
        <5>4. ~(FlushTake(t) \/ FlushPop(t) \/ PublishId(t))
          BY <5>0 DEF FlushTake, FlushPop, PublishId, Goto
        <5>5. QED
          BY <2>1, <5>1, <5>2, <5>3, <5>4 DEF OtherStep
      <4>3. QED
        BY <4>1, <4>2
    <3>6. QED
      BY <3>3, <3>4, <3>5
  <2>10. QED
    BY <2>3, <2>5, <2>6, <2>8, <2>9 DEF VersionsInv
<1>3. QED
  BY <1>1, <1>2

\* Tables in memory are at the end: the ones before are gone.
LEMMA PoppedType ==
    ASSUME TypesInv, \A i \in 1..Len(frozen_tables) : frozen_tables[i] = Current - i
    PROVE  /\ Current \in Nat \ {0} /\ Len(frozen_tables) \in Nat
           /\ Popped \in 0..(Current - 1) /\ Len(frozen_tables) = Current - 1 - Popped
<1>1. Current \in Nat \ {0} /\ Len(frozen_tables) \in Nat
  BY DEF TypesInv, StateTypes, Current
<1>2. CASE Len(frozen_tables) = 0
  BY <1>1, <1>2 DEF Popped
<1>3. CASE Len(frozen_tables) # 0
  <2>1. Len(frozen_tables) \in 1..Len(frozen_tables)
    BY <1>1, <1>3
  <2>2. frozen_tables[Len(frozen_tables)] \in 1..(Current - 1)
    <3>1. frozen_tables \in Seq(1..(Current - 1))
      BY DEF TypesInv, StateTypes
    <3>2. \A i \in DOMAIN frozen_tables : frozen_tables[i] \in 1..(Current - 1)
      BY <3>1, ElementsOf
    <3>3. Len(frozen_tables) \in DOMAIN frozen_tables
      BY <2>1, <3>1
    <3>4. QED
      BY <3>2, <3>3
  <2>3. Current - Len(frozen_tables) \in 1..(Current - 1)
    BY <2>1, <2>2
  <2>4. QED
    BY <1>1, <2>3 DEF Popped
<1>4. QED
  BY <1>2, <1>3

\* How the frozen tables change: one more in front, one less at the end, or not at all.
LEMMA FrozenSteps ==
    ASSUME TypesInv, PutsCurrent, PlacesInv, NEW t \in Threads,
           \/ OtherStep(t) /\ FreezeCurrent /\ UNCHANGED <<nextTransactionId, done>>
           \/ FlushPop(t) \/ PutWrite(t) \/ CommitWrite(t)
           \/ StillStep(t)
    PROVE  /\ \A i \in 1..Len(frozen_tables') : frozen_tables'[i] = Current' - i
           /\ FlushPop(t) => /\ Popped' = Popped + 1 /\ UNCHANGED content
                             /\ Last(frozen_tables) = Popped'
           /\ ~FlushPop(t) => Popped' = Popped
<1>0. /\ Current \in Nat \ {0} /\ Len(frozen_tables) \in Nat
      /\ Popped \in 0..(Current - 1) /\ Len(frozen_tables) = Current - 1 - Popped
      /\ \A i \in 1..Len(frozen_tables) : frozen_tables[i] = Current - i
  BY PoppedType DEF PlacesInv
<1>1. CASE OtherStep(t) /\ FreezeCurrent /\ UNCHANGED <<nextTransactionId, done>>
  <2>1. /\ Current' = Current + 1
        /\ Len(frozen_tables') = Len(frozen_tables) + 1
        /\ frozen_tables'[1] = Current
        /\ \A i \in 1..Len(frozen_tables) : frozen_tables'[i + 1] = frozen_tables[i]
    BY <1>1, FreezeTypes DEF TypesInv
  <2>2. \A i \in 1..Len(frozen_tables') : frozen_tables'[i] = Current' - i
    <3>1. SUFFICES ASSUME NEW i \in 1..Len(frozen_tables')
                   PROVE  frozen_tables'[i] = Current' - i
      OBVIOUS
    <3>2. CASE i = 1
      BY <1>0, <2>1, <3>2
    <3>3. CASE i # 1
      <4>1. i - 1 \in 1..Len(frozen_tables) /\ (i - 1) + 1 = i
        BY <1>0, <2>1, <3>3
      <4>2. frozen_tables'[i] = frozen_tables[i - 1] /\ frozen_tables[i - 1] = Current - (i - 1)
        BY <1>0, <2>1, <4>1
      <4>3. QED
        BY <1>0, <2>1, <4>2
    <3>4. QED
      BY <3>2, <3>3
  <2>3. Popped' = Popped
    BY <1>0, <2>1 DEF Popped
  <2>4. ~FlushPop(t)
    BY <1>0, <2>1 DEF FlushPop, Current
  <2>5. QED
    BY <2>2, <2>3, <2>4
<1>2. CASE FlushPop(t)
  <2>1. frozen_tables # <<>> /\ frozen_tables' = Front(frozen_tables) /\ UNCHANGED content
    BY <1>2, PopTypes DEF FlushPop
  <2>2. frozen_tables \in Seq(1..(Current - 1))
    BY DEF TypesInv, StateTypes
  <2>3. Current' = Current
    BY <2>1 DEF Current
  <2>4. /\ Len(frozen_tables') = Len(frozen_tables) - 1
        /\ \A i \in 1..(Len(frozen_tables) - 1) : frozen_tables'[i] = frozen_tables[i]
        /\ Last(frozen_tables) = frozen_tables[Len(frozen_tables)]
        /\ Len(frozen_tables) # 0
    BY <2>1, <2>2, FrontOf DEF Last
  <2>5. \A i \in 1..Len(frozen_tables') : frozen_tables'[i] = Current' - i
    BY <1>0, <2>3, <2>4
  <2>6. Popped' = Popped + 1
    BY <1>0, <2>3, <2>4 DEF Popped
  <2>7. Last(frozen_tables) = Popped'
    <3>1. Len(frozen_tables) \in 1..Len(frozen_tables)
      BY <1>0, <2>4
    <3>2. Last(frozen_tables) = Current - Len(frozen_tables)
      BY <1>0, <2>4, <3>1
    <3>3. QED
      BY <1>0, <2>6, <3>2
  <2>8. QED
    BY <1>2, <2>1, <2>5, <2>6, <2>7
<1>3. CASE PutWrite(t) \/ CommitWrite(t) \/ StillStep(t)
  <2>1. frozen_tables' = frozen_tables
    BY <1>3 DEF PutWrite, CommitWrite, StillStep, PublishId, PublishSst, memVars
  <2>2. Current' = Current
    <3>1. CASE StillStep(t)
      BY <3>1 DEF StillStep, PublishId, PublishSst, memVars, Current
    <3>2. QED
      BY <1>3, <3>1, WritesCurrent
  <2>3. ~FlushPop(t)
    <3>1. ASSUME FlushPop(t) PROVE Len(frozen_tables') = Len(frozen_tables) - 1
      <4>1. frozen_tables # <<>> /\ frozen_tables' = Front(frozen_tables)
        BY <3>1, PopTypes
      <4>2. frozen_tables \in Seq(1..(Current - 1))
        BY DEF TypesInv, StateTypes
      <4>3. QED
        BY <4>1, <4>2, FrontOf
    <3>2. QED
      BY <1>0, <2>1, <3>1
  <2>4. QED
    BY <1>0, <2>1, <2>2, <2>3 DEF Popped
<1>4. QED
  BY <1>1, <1>2, <1>3

LEMMA PlacesNext ==
    ASSUME TypesInv, PutsCurrent, PlacesInv, [Next]_vars
    PROVE  PlacesInv'
<1>0. /\ Current \in Nat \ {0} /\ Len(frozen_tables) \in Nat
      /\ Popped \in 0..(Current - 1) /\ Len(frozen_tables) = Current - 1 - Popped
  BY PoppedType DEF PlacesInv
<1>a. \A n \in 1..(Current - 1) : content'[n] = content[n]
  BY ContentSteps
<1>1. CASE UNCHANGED vars
  <2>1. UNCHANGED <<pc, table, content, frozen_tables, ssts>>
    BY <1>1 DEF vars, localVars, memVars, sstVars
  <2>2. UNCHANGED <<InHand, Built, Popped, Current>>
    BY <2>1 DEF InHand, Built, Popped, Current
  <2>3. QED
    BY <2>1, <2>2 DEF PlacesInv
<1>2. CASE Next
  <2>1. PICK t \in Threads :
              \/ OtherStep(t) /\ FreezeCurrent /\ UNCHANGED <<nextTransactionId, done>>
              \/ FlushPop(t) \/ PutWrite(t) \/ CommitWrite(t)
              \/ StillStep(t)
    BY <1>2, StepKinds
  <2>2. /\ \A i \in 1..Len(frozen_tables') : frozen_tables'[i] = Current' - i
        /\ FlushPop(t) => /\ Popped' = Popped + 1 /\ UNCHANGED content
                          /\ Last(frozen_tables) = Popped'
        /\ ~FlushPop(t) => Popped' = Popped
    BY <2>1, FrozenSteps
  <2>3. OtherStep(t) \/ FlushPop(t) \/ PublishId(t) \/ PublishSst(t)
    BY <2>1 DEF StillStep, OtherStep
  <2>4. \A u \in InHand' : /\ Popped' # 0
                           /\ table'[u].table = Popped' /\ table'[u].versions = content'[Popped']
    <3>1. SUFFICES ASSUME NEW u \in InHand'
                   PROVE  /\ Popped' # 0
                          /\ table'[u].table = Popped' /\ table'[u].versions = content'[Popped']
      OBVIOUS
    <3>2. u \in Threads
      BY DEF InHand
    <3>3. CASE FlushPop(t) /\ u = t
      <4>1. table'[t] = [table |-> Last(frozen_tables), versions |-> content[Last(frozen_tables)]]
        BY <3>3, PopTypes
      <4>2. Popped' # 0
        BY <1>0, <2>2, <3>3
      <4>3. QED
        BY <2>2, <3>3, <4>1, <4>2
    <3>4. CASE u \in InHand /\ table'[u] = table[u] /\ ~FlushPop(t)
      <4>1. Popped # 0 /\ table[u].table = Popped /\ table[u].versions = content[Popped]
        BY <3>4 DEF PlacesInv
      <4>2. Popped \in 1..(Current - 1)
        BY <1>0, <4>1
      <4>3. QED
        BY <1>a, <2>2, <3>4, <4>1, <4>2
    <3>5. CASE FlushPop(t) /\ u # t
      <4>1. pc'[u] = pc[u] /\ pc'[u] \in {"publish_id", "publish_sst"}
        BY <3>1, <3>2, <3>5, StepOfOne DEF InHand
      <4>2. QED
        BY <3>2, <3>5, <4>1, OneFlush DEF FlushPop, At, FlushAlone
    <3>6. CASE OtherStep(t)
      <4>1. u \in InHand /\ table'[u] = table[u]
        BY <3>1, <3>6, OtherStepHand
      <4>2. ~FlushPop(t)
        <5>1. pc[t] # "flush_pop"
          BY <3>6 DEF OtherStep, Begin, BeginFlush, PutLock, PutWrite, PutFreeze, SizeLock,
               SizeRead, FlushLoad, FlushInc, FlushLock, FlushTake, GetCur, GetFrozen, GetSst,
               CommitLock, CommitWrite, At
        <5>2. QED
          BY <5>1 DEF FlushPop, At
      <4>3. QED
        BY <3>4, <4>1, <4>2
    <3>7. CASE PublishId(t)
      <4>1. ~FlushPop(t)
        BY <3>7 DEF PublishId, FlushPop, At
      <4>2. /\ table'[u] = table[u] /\ pc[t] = "publish_id"
            /\ \A x \in Threads \ {t} : pc'[x] = pc[x]
        BY <3>7 DEF PublishId, At, localVars, Goto, TypesInv, StateTypes
      <4>3. QED
        BY <3>1, <3>4, <4>1, <4>2 DEF InHand
    <3>8. CASE PublishSst(t)
      <4>1. ~FlushPop(t)
        BY <3>8 DEF PublishSst, FlushPop, At
      <4>2. table'[t] = None
        BY <3>8 DEF PublishSst, TypesInv, StateTypes
      <4>3. u # t
        BY <3>1, <4>2 DEF InHand
      <4>4. pc'[u] = pc[u] /\ table'[u] = table[u]
        BY <3>2, <3>8, <4>3, StepOfOne
      <4>5. QED
        BY <3>1, <3>4, <4>1, <4>4 DEF InHand
    <3>9. QED
      BY <2>3, <3>3, <3>5, <3>6, <3>7, <3>8
  <2>5. \A n \in Built' : ssts'[n].table \in 1..(Popped') /\ ssts'[n].versions = content'[ssts'[n].table]
    <3>0. /\ 1..Popped \subseteq 1..(Current - 1) /\ 1..Popped \subseteq 1..(Popped')
          /\ Popped # 0 => Popped \in 1..Popped
      BY <1>0, <2>2
    <3>1. ASSUME NEW n \in Built, ssts'[n] = ssts[n]
          PROVE  ssts'[n].table \in 1..(Popped') /\ ssts'[n].versions = content'[ssts'[n].table]
      BY <1>a, <3>0, <3>1 DEF PlacesInv
    <3>2. CASE PublishSst(t)
      <4>1. SUFFICES ASSUME NEW n \in Built'
                     PROVE  ssts'[n].table \in 1..(Popped') /\ ssts'[n].versions = content'[ssts'[n].table]
        OBVIOUS
      <4>2. CASE n = sst_id[t]
        <5>1. ssts'[n] = table[t] /\ table[t] # None /\ pc[t] = "publish_sst"
          BY <3>2, <4>1, <4>2, PublishedSsts DEF Built, PublishSst, At
        <5>2. t \in InHand
          BY <5>1 DEF InHand
        <5>3. Popped # 0 /\ table[t].table = Popped /\ table[t].versions = content[Popped]
          BY <5>2 DEF PlacesInv
        <5>4. QED
          BY <1>a, <3>0, <5>1, <5>3
      <4>3. CASE n # sst_id[t]
        <5>1. n \in DOMAIN ssts /\ ssts'[n] = ssts[n] /\ ssts'[n] # None
          BY <3>2, <4>1, <4>3, PublishedSsts DEF Built
        <5>2. QED
          BY <3>1, <5>1 DEF Built
      <4>4. QED
        BY <4>2, <4>3
    <3>3. CASE UNCHANGED ssts
      BY <3>1, <3>3 DEF Built
    <3>4. QED
      BY <2>3, <3>2, <3>3, OtherStepHand DEF FlushPop, PublishId, sstVars
  <2>6. QED
    BY <2>2, <2>4, <2>5 DEF PlacesInv
<1>3. QED
  BY <1>1, <1>2

LEMMA LatestNext ==
    ASSUME TypesInv, PutsCurrent, PlacesInv, LatestInv, [Next]_vars
    PROVE  LatestInv'
<1>1. CASE UNCHANGED vars
  <2>1. UNCHANGED <<pc, table, content, frozen_tables, level_sst_ids, ssts>>
    BY <1>1 DEF vars, localVars, memVars, sstVars
  <2>2. UNCHANGED <<InHand, Built, Popped, Collided>>
    BY <2>1 DEF InHand, Built, Popped, Current, Collided
  <2>3. QED
    BY <2>1, <2>2 DEF LatestInv, Latest
<1>2. CASE Next /\ ~Collided'
  <2>1. PICK t \in Threads :
              \/ OtherStep(t) /\ FreezeCurrent /\ UNCHANGED <<nextTransactionId, done>>
              \/ FlushPop(t) \/ PutWrite(t) \/ CommitWrite(t)
              \/ StillStep(t)
    BY <1>2, StepKinds
  <2>2. ~FlushPop(t) => Popped' = Popped
    BY <2>1, FrozenSteps
  <2>3. OtherStep(t) \/ FlushPop(t) \/ PublishId(t) \/ PublishSst(t)
    BY <2>1 DEF StillStep, OtherStep
  <2>4. ~Collided /\ Latest
    BY <1>2, CollidedStays DEF LatestInv
  <2>5. SUFFICES ASSUME InHand' = {}
                 PROVE  /\ Popped' # 0 => level_sst_ids' # <<>>
                        /\ level_sst_ids' # <<>> /\ Head(level_sst_ids') \in Built'
                              => ssts'[Head(level_sst_ids')].table = Popped'
    BY DEF LatestInv, Latest
  <2>6. CASE FlushPop(t)
    <3>1. pc'[t] = "publish_id" /\ table'[t] \in Taken
      BY <2>6, PopTypes DEF FlushPop, Goto, TypesInv, StateTypes
    <3>2. t \in InHand'
      BY <3>1, NoneAssumption DEF InHand, Taken
    <3>3. QED
      BY <2>5, <3>2
  <2>7. CASE OtherStep(t) /\ ~FlushPop(t)
    <3>1. UNCHANGED <<level_sst_ids, ssts>> /\ InHand = {}
      BY <2>5, <2>7, OtherStepHand
    <3>2. Built' = Built
      BY <3>1 DEF Built
    <3>3. QED
      BY <2>2, <2>4, <2>7, <3>1, <3>2 DEF Latest
  <2>8. CASE PublishId(t)
    <3>1. /\ sst_id[t] \in Nat /\ level_sst_ids \in Seq(Nat) /\ UNCHANGED ssts
          /\ level_sst_ids' = <<sst_id[t]>> \o level_sst_ids
      BY <2>8 DEF PublishId, At, TypesInv, StateTypes, HandTypes, FlushSteps
    <3>2. Head(level_sst_ids') = sst_id[t] /\ level_sst_ids' # <<>>
      BY <3>1, PrependOf
    <3>3. sst_id[t] \notin ToSet(level_sst_ids)
      BY <1>2, <3>1, PrependedNumber
    <3>4. sst_id[t] \notin Built'
      BY <3>1, <3>3 DEF Built, TypesInv, StateTypes
    <3>5. QED
      BY <3>2, <3>4
  <2>9. CASE PublishSst(t)
    <3>1. /\ pc[t] = "publish_sst" /\ level_sst_ids # <<>> /\ sst_id[t] = Head(level_sst_ids)
          /\ UNCHANGED level_sst_ids
      BY <2>9 DEF PublishSst, At, TypesInv, HandTypes
    <3>2. ~FlushPop(t)
      BY <3>1 DEF FlushPop, At
    <3>3. Head(level_sst_ids') = sst_id[t] /\ ssts'[sst_id[t]] = table[t]
      BY <2>9, <3>1, PublishedSsts
    <3>4. ASSUME sst_id[t] \in Built' PROVE ssts'[sst_id[t]].table = Popped'
      <4>1. t \in InHand
        BY <3>1, <3>3, <3>4 DEF Built, InHand
      <4>2. QED
        BY <2>2, <3>2, <3>3, <4>1 DEF PlacesInv
    <3>5. QED
      BY <3>1, <3>3, <3>4
  <2>10. QED
    BY <2>3, <2>6, <2>7, <2>8, <2>9
<1>3. CASE Collided'
  BY <1>3 DEF LatestInv
<1>4. QED
  BY <1>1, <1>2, <1>3

\* A step of a read takes it to the next place only when it has found nothing.
LEMMA ReadsFrom ==
    ASSUME TypesInv, NEW t \in Threads,
           OtherStep(t) \/ FlushPop(t) \/ PublishId(t) \/ PublishSst(t),
           NEW u \in Threads, pc'[u] \in {"get_frozen", "get_sst"}
    PROVE  /\ id'[u] = id[u]
           /\ \/ pc[u] = pc'[u]
              \/ /\ pc'[u] = "get_frozen" /\ VisibleIn(Current, u) = {}
                 /\ u = t /\ pc[u] = "get_cur" /\ UNCHANGED memVars
              \/ /\ pc'[u] = "get_sst" /\ pc[u] = "get_frozen" /\ u = t /\ UNCHANGED memVars
                 /\ \A i \in DOMAIN frozen_tables : VisibleIn(frozen_tables[i], u) = {}
<1>0. pc \in [Threads -> Steps] /\ id \in [Threads -> Nat]
  BY DEF TypesInv, StateTypes
<1>1. Begin(t) \/ UNCHANGED id
  BY DEF OtherStep, BeginFlush, PutLock, PutWrite, PutFreeze, SizeLock, SizeRead,
         FlushLoad, FlushInc, FlushLock, FlushTake, GetCur, GetFrozen, GetSst,
         CommitLock, CommitWrite, FlushPop, PublishId, PublishSst, localVars
<1>2. CASE u # t
  <2>1. id'[u] = id[u]
    BY <1>0, <1>1, <1>2 DEF Begin, TakeId
  <2>2. QED
    BY <1>2, <2>1, StepOfOne
<1>3. CASE u = t
  <2>0. pc'[t] \in {"get_frozen", "get_sst"}
    BY <1>3
  <2>1. GetCur(t) \/ GetFrozen(t)
    <3>1. ~(Begin(t) \/ BeginFlush(t) \/ SizeRead(t) \/ PublishSst(t) \/ PutWrite(t))
      BY <1>0, <2>0 DEF Begin, BeginFlush, SizeRead, PublishSst, PutWrite, Return, Goto
    <3>2. ~GetSst(t)
      BY <1>0, <2>0 DEF GetSst, Answered, Goto
    <3>3. ~(\/ PutLock(t) \/ PutFreeze(t) \/ SizeLock(t) \/ FlushLoad(t)
            \/ FlushInc(t) \/ FlushLock(t) \/ CommitLock(t) \/ CommitWrite(t))
      BY <1>0, <2>0 DEF PutLock, PutFreeze, SizeLock, FlushLoad, FlushInc, FlushLock, CommitLock,
                  CommitWrite, Goto
    <3>4. ~(FlushTake(t) \/ FlushPop(t) \/ PublishId(t))
      BY <1>0, <2>0 DEF FlushTake, FlushPop, PublishId, Goto
    <3>5. QED
      BY <3>1, <3>2, <3>3, <3>4 DEF OtherStep
  <2>2. UNCHANGED <<id, memVars>>
    BY <2>1 DEF GetCur, GetFrozen, localVars
  <2>3. CASE GetCur(t)
    <3>1. pc[t] = "get_cur" /\ pc'[t] = "get_frozen" /\ VisibleIn(Current, t) = {}
      BY <1>0, <2>0, <2>3 DEF GetCur, At, Answered, Goto
    <3>2. QED
      BY <1>3, <2>2, <3>1
  <2>4. CASE GetFrozen(t)
    <3>1. /\ pc[t] = "get_frozen" /\ pc'[t] = "get_sst"
          /\ {i \in DOMAIN frozen_tables : VisibleIn(frozen_tables[i], t) # {}} = {}
      BY <1>0, <2>0, <2>4 DEF GetFrozen, At, Answered, Goto
    <3>2. QED
      BY <1>3, <2>2, <3>1
  <2>5. QED
    BY <2>1, <2>3, <2>4
<1>4. QED
  BY <1>2, <1>3

\* Where a read sees nothing, there is nothing that was acknowledged before it.
LEMMA NothingSeen ==
    ASSUME TypesInv, CallsInv, NEW t \in Threads, pc[t] \in GetSteps, NEW n,
           VisibleIn(n, t) = {}
    PROVE  content[n] \cap before[id[t]] = {}
<1>1. id[t] \in Ids /\ nextTransactionId \in Nat \ {0}
  BY DEF TypesInv, StateTypes, HandTypes
<1>2. before[id[t]] \subseteq 1..(id[t] - 1)
  BY <1>1 DEF CallsInv
<1>3. \A v \in 1..(id[t] - 1) : v <= id[t]
  BY <1>1 DEF Ids
<1>4. QED
  BY <1>2, <1>3 DEF VisibleIn

LEMMA SearchedNext ==
    ASSUME TypesInv, PutsCurrent, CallsInv, PlacesInv, SearchedInv, [Next]_vars
    PROVE  SearchedInv'
<1>0. /\ Current \in Nat \ {0} /\ Len(frozen_tables) \in Nat
      /\ Popped \in 0..(Current - 1) /\ Len(frozen_tables) = Current - 1 - Popped
      /\ \A i \in 1..Len(frozen_tables) : frozen_tables[i] = Current - i
  BY PoppedType DEF PlacesInv
<1>1. CASE UNCHANGED vars
  <2>1. UNCHANGED <<pc, id, content, frozen_tables, before>>
    BY <1>1 DEF vars, localVars, memVars
  <2>2. UNCHANGED <<Popped, Current>>
    BY <2>1 DEF Popped, Current
  <2>3. QED
    BY <2>1, <2>2 DEF SearchedInv
<1>2. CASE Next
  <2>1. PICK t \in Threads :
              \/ OtherStep(t) /\ FreezeCurrent /\ UNCHANGED <<nextTransactionId, done>>
              \/ FlushPop(t) \/ PutWrite(t) \/ CommitWrite(t)
              \/ StillStep(t)
    BY <1>2, StepKinds
  <2>2. Popped' \in {Popped, Popped + 1}
    BY <2>1, FrozenSteps
  <2>3. OtherStep(t) \/ FlushPop(t) \/ PublishId(t) \/ PublishSst(t)
    BY <2>1 DEF StillStep, OtherStep
  <2>4. SUFFICES ASSUME NEW u \in Threads, pc'[u] \in {"get_frozen", "get_sst"}
                 PROVE  /\ content'[Current'] \cap before'[id'[u]] = {}
                        /\ pc'[u] = "get_sst" =>
                              \A n \in (Popped' + 1)..(Current') : content'[n] \cap before'[id'[u]] = {}
    BY DEF SearchedInv
  <2>5. /\ id'[u] = id[u]
        /\ \/ pc[u] = pc'[u]
           \/ /\ pc'[u] = "get_frozen" /\ VisibleIn(Current, u) = {}
              /\ u = t /\ pc[u] = "get_cur" /\ UNCHANGED memVars
           \/ /\ pc'[u] = "get_sst" /\ pc[u] = "get_frozen" /\ u = t /\ UNCHANGED memVars
              /\ \A i \in DOMAIN frozen_tables : VisibleIn(frozen_tables[i], u) = {}
    BY <2>3, <2>4, ReadsFrom
  <2>6. id[u] \in Ids /\ pc[u] \in GetSteps
    BY <2>4, <2>5 DEF TypesInv, HandTypes, GetSteps
  <2>7. before'[id'[u]] = before[id[u]] /\ before[id[u]] \subseteq done
    BY <2>3, <2>5, <2>6, HistorySteps DEF CallsInv
  <2>8. ASSUME NEW n \in 1..Current, content[n] \cap before[id[u]] = {}
        PROVE  content'[n] \cap before[id[u]] = {}
    BY <2>7, <2>8, NewVersions
  <2>9. /\ Current' \in {Current, Current + 1}
        /\ Current' = Current + 1 => content'[Current'] = {}
    BY ContentSteps
  <2>10. content[Current] \cap before[id[u]] = {}
    BY <2>4, <2>5, <2>6, NothingSeen DEF SearchedInv
  <2>11. content'[Current'] \cap before[id[u]] = {}
    BY <1>0, <2>8, <2>9, <2>10
  <2>12. ASSUME pc'[u] = "get_sst", NEW n \in (Popped' + 1)..(Current')
         PROVE  content'[n] \cap before[id[u]] = {}
    <3>1. n \in (Popped + 1)..Current \/ n = Current'
      <4>1. ASSUME NEW p \in Nat, NEW q \in {p, p + 1}, NEW c \in Nat, NEW d \in {c, c + 1},
                   NEW m \in (q + 1)..d
            PROVE  m \in (p + 1)..c \/ m = d
        OBVIOUS
      <4>2. Popped \in Nat /\ Current \in Nat
        BY <1>0
      <4>3. QED
        BY <2>2, <2>9, <2>12, <4>1, <4>2
    <3>2. CASE n \in (Popped + 1)..Current
      <4>1. n \in 1..Current
        BY <1>0, <3>2
      <4>2. content[n] \cap before[id[u]] = {}
        <5>1. CASE pc[u] = "get_sst"
          BY <3>2, <5>1 DEF SearchedInv
        <5>2. CASE n = Current
          BY <2>10, <5>2
        <5>3. CASE n # Current /\ \A i \in DOMAIN frozen_tables : VisibleIn(frozen_tables[i], u) = {}
          <6>1. Current - n \in 1..Len(frozen_tables) /\ Current - (Current - n) = n
            BY <1>0, <3>2, <5>3
          <6>2. frozen_tables[Current - n] = n
            BY <1>0, <6>1
          <6>3. DOMAIN frozen_tables = 1..Len(frozen_tables)
            BY DEF TypesInv, StateTypes
          <6>4. VisibleIn(n, u) = {}
            BY <5>3, <6>1, <6>2, <6>3
          <6>5. QED
            BY <2>6, <6>4, NothingSeen
        <5>4. QED
          BY <2>5, <2>12, <5>1, <5>2, <5>3
      <4>3. QED
        BY <2>8, <4>1, <4>2
    <3>3. QED
      BY <2>11, <3>1, <3>2
  <2>13. QED
    BY <2>7, <2>11, <2>12
<1>3. QED
  BY <1>1, <1>2

\* Every reader has an answer, if none yet.
AnswersInv == DOMAIN answer = Readers

LEMMA AnswersNext == AnswersInv /\ [Next]_vars => AnswersInv'
<1>1. [Next]_vars => (UNCHANGED answer) \/ \E t, v : answer' = [answer EXCEPT ![t] = v]
  BY DEF Next, vars, Begin, BeginFlush, PutLock, PutWrite, PutFreeze, SizeLock, SizeRead,
         FlushLoad, FlushInc, FlushLock, FlushTake, FlushPop, PublishId, PublishSst,
         GetCur, GetFrozen, GetSst, Answered, CommitLock, CommitWrite
<1>2. QED
  BY <1>1 DEF AnswersInv

\* The core of the argument: the largest of a table's versions is admissible when no
\* newer table has anything that was acknowledged before the read began.  A version w
\* that overwrote it would be in no older table, hence in this one, and larger.
LEMMA Answering ==
    ASSUME TypesInv, CallsInv, VersionsInv, NEW t \in Threads, pc[t] \in GetSteps,
           NEW n \in 1..Current, NEW S \in SUBSET content[n], S # {}, VisibleIn(n, t) \subseteq S,
           \A m \in (n + 1)..Current : content[m] \cap before[id[t]] = {}
    PROVE  Admissible(Max(S), t)
<1>1. content[n] \subseteq Ids /\ Current \in Nat \ {0} /\ nextTransactionId \in Nat \ {0}
  BY DEF TypesInv, StateTypes, Current
<1>2. Max(S) \in S /\ \A y \in S : Max(S) >= y
  <2>1. S \in SUBSET Nat /\ \A y \in S : y <= nextTransactionId
    BY <1>1 DEF Ids
  <2>2. \E m \in S : \A y \in S : y <= m
    BY <1>1, <2>1, GreatestNat
  <2>3. \E m \in S : \A y \in S : m >= y
    BY <2>1, <2>2
  <2>4. QED
    BY <2>3 DEF Max
<1> DEFINE v == Max(S)
<1> HIDE DEF v
<1>3. v \in Ids /\ v \in content[n] /\ v # None
  BY <1>1, <1>2, NoneAssumption DEF v, Ids
<1>4. SUFFICES ASSUME NEW w \in before[id[t]], v \in before[w] PROVE FALSE
  BY <1>3 DEF Admissible, v
<1>5. id[t] \in Ids
  BY DEF TypesInv, HandTypes
<1>6. w \in done /\ w \in 1..(id[t] - 1)
  BY <1>4, <1>5 DEF CallsInv
<1>7. w \in Ids
  BY <1>6 DEF CallsInv
<1>8. v < w
  BY <1>3, <1>4, <1>7 DEF CallsInv, Ids
<1>9. PICK m \in 1..Current : w \in content[m]
  BY <1>6 DEF VersionsInv
<1>10. n <= m
  BY <1>3, <1>4, <1>7, <1>9 DEF VersionsInv
<1>11. m <= n
  BY <1>1, <1>4, <1>9
<1>12. w \in S
  <2>1. w \in content[n]
    BY <1>9, <1>10, <1>11
  <2>2. w <= id[t]
    BY <1>5, <1>6 DEF Ids
  <2>3. QED
    BY <2>1, <2>2 DEF VisibleIn
<1>13. QED
  BY <1>2, <1>3, <1>7, <1>8, <1>12 DEF v, Ids

LEMMA AnswerCur ==
    ASSUME ReadsInv, AnswersInv, NEW t \in Readers, GetCur(t), pc'[t] = "idle"
    PROVE  Admissible(answer'[t], t)
<1>0. TypesInv /\ CallsInv /\ VersionsInv /\ t \in Threads /\ pc \in [Threads -> Steps]
  BY DEF ReadsInv, Threads, TypesInv, StateTypes
<1>1. pc[t] \in GetSteps
  BY DEF GetCur, At, GetSteps
<1>2. VisibleIn(Current, t) # {} /\ answer'[t] = Max(VisibleIn(Current, t))
  BY <1>0 DEF GetCur, Answered, Goto, AnswersInv
<1>3. Current \in 1..Current /\ (Current + 1)..Current = {}
  BY <1>0 DEF TypesInv, StateTypes, Current
<1>4. VisibleIn(Current, t) \in SUBSET content[Current]
  BY DEF VisibleIn
<1>5. QED
  BY <1>0, <1>1, <1>2, <1>3, <1>4, Answering

LEMMA AnswerFrozen ==
    ASSUME ReadsInv, AnswersInv, NEW t \in Readers, GetFrozen(t), pc'[t] = "idle"
    PROVE  Admissible(answer'[t], t)
<1> DEFINE hits == {i \in DOMAIN frozen_tables : VisibleIn(frozen_tables[i], t) # {}}
           k == Min(hits)
           n == frozen_tables[k]
<1>0. TypesInv /\ CallsInv /\ VersionsInv /\ t \in Threads /\ pc \in [Threads -> Steps]
  BY DEF ReadsInv, Threads, TypesInv, StateTypes
<1>1. pc[t] = "get_frozen" /\ pc[t] \in GetSteps
  BY DEF GetFrozen, At, GetSteps
<1>2. hits # {} /\ Answered(t, VisibleIn(n, t))
  BY <1>0 DEF GetFrozen, Goto
<1>3. /\ Current \in Nat \ {0} /\ Len(frozen_tables) \in Nat
      /\ Popped \in 0..(Current - 1) /\ Len(frozen_tables) = Current - 1 - Popped
      /\ \A i \in 1..Len(frozen_tables) : frozen_tables[i] = Current - i
      /\ DOMAIN frozen_tables = 1..Len(frozen_tables)
  BY <1>0, PoppedType DEF PlacesInv, ReadsInv, TypesInv, StateTypes
<1>4. k \in hits /\ \A i \in hits : k <= i
  <2>1. hits \in SUBSET Nat
    BY <1>3
  <2>2. \E m \in hits : \A i \in hits : m <= i
    BY <1>2, <2>1, LeastNat
  <2> HIDE DEF hits
  <2>3. QED
    BY <2>2 DEF Min
<1>5. k \in 1..Len(frozen_tables) /\ n = Current - k /\ VisibleIn(n, t) # {}
  BY <1>3, <1>4
<1>6. n \in 1..Current
  <2> HIDE DEF k, n
  <2>1. QED
    BY <1>3, <1>5
<1>7. \A m \in (n + 1)..Current : content[m] \cap before[id[t]] = {}
  <2>1. SUFFICES ASSUME NEW m \in (n + 1)..Current
                 PROVE  content[m] \cap before[id[t]] = {}
    OBVIOUS
  <2>2. CASE m = Current
    BY <1>0, <1>1, <2>2 DEF ReadsInv, SearchedInv
  <2>3. CASE m # Current
    <3>1. Current - m \in 1..Len(frozen_tables) /\ Current - m < k /\ Current - (Current - m) = m
      <4> HIDE DEF k, n
      <4>1. QED
        BY <1>3, <1>5, <2>1, <2>3
    <3>2. frozen_tables[Current - m] = m
      BY <1>3, <3>1
    <3>3. Current - m \notin hits
      <4> HIDE DEF hits
      <4>1. k \in Nat
        BY <1>3, <1>5
      <4> HIDE DEF k
      <4>2. QED
        BY <1>3, <1>4, <3>1, <4>1
    <3>4. VisibleIn(m, t) = {}
      BY <1>3, <3>1, <3>2, <3>3
    <3>5. QED
      BY <1>0, <1>1, <3>4, NothingSeen
  <2>4. QED
    BY <2>2, <2>3
<1>8. VisibleIn(n, t) \in SUBSET content[n]
  BY DEF VisibleIn
<1> HIDE DEF n, k, hits
<1>9. Admissible(Max(VisibleIn(n, t)), t)
  BY <1>0, <1>1, <1>5, <1>6, <1>7, <1>8, Answering
<1>10. answer'[t] = Max(VisibleIn(n, t))
  BY <1>2, <1>5 DEF Answered, AnswersInv
<1>11. QED
  BY <1>9, <1>10

LEMMA AnswerSst ==
    ASSUME ReadsInv, AnswersInv, ~Collided, NEW t \in Readers, GetSst(t), pc'[t] = "idle",
           InHand = {}
    PROVE  Admissible(answer'[t], t)
<1>0. TypesInv /\ CallsInv /\ VersionsInv /\ t \in Threads /\ pc \in [Threads -> Steps]
  BY DEF ReadsInv, Threads, TypesInv, StateTypes
<1>1. pc[t] = "get_sst" /\ pc[t] \in GetSteps
  BY DEF GetSst, At, GetSteps
<1>2. /\ Popped # 0 => level_sst_ids # <<>>
      /\ level_sst_ids # <<>> /\ Head(level_sst_ids) \in Built
            => ssts[Head(level_sst_ids)].table = Popped
  BY DEF ReadsInv, LatestInv, Latest
<1>3. Current \in Nat \ {0} /\ Popped \in 0..(Current - 1)
  BY <1>0, PoppedType DEF PlacesInv, ReadsInv
<1>4. \A n \in (Popped + 1)..Current : content[n] \cap before[id[t]] = {}
  BY <1>0, <1>1 DEF ReadsInv, SearchedInv
<1>5. CASE level_sst_ids = <<>>
  <2>1. answer'[t] = None
    BY <1>5 DEF GetSst, Answered, AnswersInv
  <2>2. Popped = 0
    BY <1>2, <1>5
  <2>3. before[id[t]] \subseteq done
    BY <1>0, <1>1 DEF CallsInv, TypesInv, HandTypes
  <2>4. \A w \in done : \E n \in 1..Current : w \in content[n]
    BY <1>0 DEF VersionsInv
  <2>5. \A n \in 1..Current : content[n] \cap before[id[t]] = {}
    BY <1>3, <1>4, <2>2
  <2>6. before[id[t]] = {}
    BY <2>3, <2>4, <2>5
  <2>7. QED
    BY <2>1, <2>6 DEF Admissible
<1>6. CASE level_sst_ids # <<>>
  <2> DEFINE first == Head(level_sst_ids)
  <2>1. first \in Built /\ Goto(t, "idle")
        /\ answer' = [answer EXCEPT ![t] = IF ssts[first].versions = {} THEN None
                                           ELSE Max(ssts[first].versions)]
    BY <1>0, <1>6 DEF GetSst, Answered, Goto, Built
  <2>2. Popped \in 1..Popped /\ ssts[first].versions = content[Popped]
    BY <1>2, <1>6, <2>1 DEF ReadsInv, PlacesInv
  <2>3. Popped \in 1..(Current - 1) /\ Popped \in 1..Current
    BY <1>3, <2>2
  <2>4. content[Popped] # {}
    BY <1>0, <2>3 DEF VersionsInv
  <2>5. answer'[t] = Max(content[Popped])
    BY <2>1, <2>2, <2>4 DEF AnswersInv
  <2>6. VisibleIn(Popped, t) \subseteq content[Popped]
    BY DEF VisibleIn
  <2>7. QED
    BY <1>0, <1>1, <1>4, <2>3, <2>4, <2>5, <2>6, Answering
<1>7. QED
  BY <1>5, <1>6

\* What ReadsAdmissible says of a step.
ReadStep ==
    \A t \in Readers :
        (pc[t] \in GetSteps /\ pc'[t] = "idle")
           => (InHand # {} /\ pc[t] = "get_sst") \/ Admissible(answer'[t], t)

LEMMA ReadsStep ==
    ASSUME ReadsInv, AnswersInv, ~Collided, [Next]_vars
    PROVE  [ReadStep]_vars
<1>1. SUFFICES ASSUME Next, NEW t \in Readers, pc[t] \in GetSteps, pc'[t] = "idle",
                      ~(InHand # {} /\ pc[t] = "get_sst")
               PROVE  Admissible(answer'[t], t)
  BY DEF ReadStep
<1>2. PICK u \in Threads : OtherStep(u) \/ FlushPop(u) \/ PublishId(u) \/ PublishSst(u)
  BY <1>1 DEF Next, OtherStep
<1>3. t \in Threads /\ TypesInv
  BY DEF Threads, ReadsInv
<1>4. u = t
  <2>1. pc'[t] # pc[t]
    BY <1>1 DEF GetSteps
  <2>2. QED
    BY <1>2, <1>3, <2>1, StepOfOne
<1>5. GetCur(t) \/ GetFrozen(t) \/ GetSst(t)
  BY <1>1, <1>2, <1>4
  DEF OtherStep, Begin, BeginFlush, PutLock, PutWrite, PutFreeze, SizeLock, SizeRead,
      FlushLoad, FlushInc, FlushLock, FlushTake, FlushPop, PublishId, PublishSst,
      CommitLock, CommitWrite, At, GetSteps
<1>6. GetSst(t) => pc[t] = "get_sst"
  BY DEF GetSst, At
<1>7. QED
  BY <1>1, <1>5, <1>6, AnswerCur, AnswerFrozen, AnswerSst

LEMMA ReadsInit == Init => ReadsInv /\ AnswersInv
<1> SUFFICES ASSUME Init PROVE ReadsInv /\ AnswersInv
  OBVIOUS
<1>1. TypesInv
  BY TypesInit
<1>2. /\ \A t \in Threads : pc[t] = "idle"
      /\ content = <<{}>> /\ Current = 1 /\ frozen_tables = <<>> /\ Len(frozen_tables) = 0
      /\ nextTransactionId = 1 /\ Ids = {}
      /\ level_sst_ids = <<>> /\ ssts = <<>> /\ done = {} /\ before = <<>>
  BY DEF Init, Current, Ids
<1>3. PutsCurrent /\ HeadUnbuilt /\ SearchedInv
  BY <1>2 DEF PutsCurrent, HeadUnbuilt, SearchedInv
<1>4. \A t \in Threads : ~Pending(t) /\ ~Owing(t)
  BY <1>2 DEF Pending, Owing, CommitSteps, SizeSteps, FlushSteps
<1>5. CallsInv
  BY <1>2, <1>4 DEF CallsInv, Begun
<1>6. VersionsInv
  BY <1>2, <1>4 DEF VersionsInv
<1>7. InHand = {} /\ Built = {} /\ Popped = 0
  <2>1. DOMAIN ssts = {}
    BY <1>2
  <2>2. Built = {}
    BY <2>1 DEF Built
  <2>3. InHand = {}
    BY <1>2 DEF InHand
  <2>4. Popped = 0
    <3>1. Current = 1 /\ Len(frozen_tables) = 0
      BY <1>2
    <3>2. QED
      BY <3>1 DEF Popped
  <2>5. QED
    BY <2>2, <2>3, <2>4
<1>8. PlacesInv /\ LatestInv
  BY <1>2, <1>7 DEF PlacesInv, LatestInv, Latest
<1>9. AnswersInv
  BY DEF AnswersInv, Init
<1>10. QED
  BY <1>1, <1>3, <1>5, <1>6, <1>8, <1>9 DEF ReadsInv

\* A put that is about to write stays there while another thread moves the table.
LEMMA UndisturbedStays ==
    ASSUME TypesInv, [Next]_vars, [PutUndisturbed]_vars
    PROVE  [TableStays]_vars
<1>1. SUFFICES ASSUME Next, PutUndisturbed, NEW u \in Threads, pc[u] = "put_write",
                      Current' # Current
               PROVE  FALSE
  BY DEF TableStays
<1>2. PICK t \in Threads : PutFreeze(t) \/ FlushTake(t)
  BY <1>1, TableMoves
<1>3. pc[t] # "put_write" /\ pc'[u] = pc[u]
  BY <1>1, <1>2 DEF PutFreeze, FlushTake, At, Goto, TypesInv, StateTypes
<1>4. QED
  BY <1>1, <1>3 DEF PutUndisturbed

LEMMA ReadsNext == ReadsInv /\ [Next]_vars /\ [PutUndisturbed]_vars => ReadsInv'
<1> SUFFICES ASSUME ReadsInv, [Next]_vars, [PutUndisturbed]_vars PROVE ReadsInv'
  OBVIOUS
<1>1. TypesInv' /\ HeadUnbuilt' /\ CallsInv'
  BY TypesNext, HeadUnbuiltNext, CallsNext DEF ReadsInv
<1>2. [TableStays]_vars
  BY UndisturbedStays DEF ReadsInv
<1>3. PutsCurrent'
  BY <1>2, PutsCurrentNext DEF ReadsInv
<1>4. VersionsInv' /\ PlacesInv'
  BY VersionsNext, PlacesNext DEF ReadsInv
<1>5. LatestInv' /\ SearchedInv'
  BY LatestNext, SearchedNext DEF ReadsInv
<1>6. QED
  BY <1>1, <1>3, <1>4, <1>5 DEF ReadsInv

\* With any number of threads: as long as no step changes the current table under a put
\* (memtable.cpp:209 beside memtable.cpp:35) and no two flushes take one number
\* (engine.cpp:236), a read that goes from table to table without keeping a lock
\* answers with nothing that was overwritten before it began.
THEOREM ReadsStayAdmissible ==
    Spec /\ [][PutUndisturbed]_vars /\ []~Collided => ReadsAdmissible
<1>1. ReadsInv /\ AnswersInv /\ ~Collided /\ [Next]_vars =>
         [\A t \in Readers :
             (pc[t] \in GetSteps /\ pc'[t] = "idle")
                => (InHand # {} /\ pc[t] = "get_sst") \/ Admissible(answer'[t], t)]_vars
  BY ReadsStep DEF ReadStep
<1>2. Spec /\ [][PutUndisturbed]_vars => [](ReadsInv /\ AnswersInv)
  BY ReadsInit, ReadsNext, AnswersNext, PTL DEF Spec
<1>3. QED
  BY <1>1, <1>2, PTL DEF Spec, ReadsAdmissible

-----------------------------------------------------------------------------
(* One writer, and clients that flush while nobody writes                   *)

\* Only a put of a writer, or a call of a thread that flushes, gets to these steps.
RoleInv ==
    \A t \in Threads :
        /\ pc[t] \in PutSteps => t \in Writers
        /\ pc[t] \in SizeSteps \cup FlushSteps => t \in Writers \cup Flushers \cup Closers

\* Nobody writes while a client flushes.
LoneInv == ~\E t, u \in Threads : Writing(t) /\ Flushing(u)

\* From which steps a step is reached.
LEMMA Reached ==
    ASSUME TypesInv, NEW t \in Threads,
           OtherStep(t) \/ FlushPop(t) \/ PublishId(t) \/ PublishSst(t)
    PROVE  /\ pc'[t] \in PutSteps =>
                 pc[t] \in PutSteps \/ (Begin(t) /\ t \in Writers)
           /\ pc'[t] \in SizeSteps \cup FlushSteps =>
                 pc[t] \in PutSteps \cup SizeSteps \cup FlushSteps \/ BeginFlush(t)
           /\ pc'[t] # "idle" => pc[t] # "idle" \/ Begin(t) \/ BeginFlush(t)
<1>0. pc \in [Threads -> Steps]
  BY DEF TypesInv, StateTypes
<1>1. CASE Begin(t)
  BY <1>0, <1>1 DEF Begin, Goto, PutSteps, SizeSteps, FlushSteps
<1>2. CASE BeginFlush(t)
  BY <1>0, <1>2 DEF BeginFlush, Goto, PutSteps, SizeSteps, FlushSteps
<1>3. CASE PutLock(t) \/ PutWrite(t) \/ PutFreeze(t) \/ SizeLock(t)
  BY <1>0, <1>3 DEF PutLock, PutWrite, PutFreeze, SizeLock, At, Goto, PutSteps, SizeSteps,
                    FlushSteps
<1>4. CASE SizeRead(t) \/ PublishSst(t)
  BY <1>0, <1>4 DEF SizeRead, PublishSst, Return, At, Goto, PutSteps, SizeSteps, FlushSteps
<1>5. CASE FlushLoad(t) \/ FlushInc(t) \/ FlushLock(t) \/ FlushTake(t)
  BY <1>0, <1>5 DEF FlushLoad, FlushInc, FlushLock, FlushTake, At, Goto, PutSteps, SizeSteps,
                    FlushSteps
<1>6. CASE FlushPop(t) \/ PublishId(t)
  BY <1>0, <1>6 DEF FlushPop, PublishId, At, Goto, PutSteps, SizeSteps, FlushSteps
<1>7. CASE GetCur(t) \/ GetFrozen(t) \/ GetSst(t)
  BY <1>0, <1>7 DEF GetCur, GetFrozen, GetSst, Answered, At, Goto, PutSteps, SizeSteps,
                    FlushSteps
<1>8. CASE CommitLock(t) \/ CommitWrite(t)
  BY <1>0, <1>8 DEF CommitLock, CommitWrite, At, Goto, PutSteps, SizeSteps, FlushSteps
<1>9. QED
  BY <1>1, <1>2, <1>3, <1>4, <1>5, <1>6, <1>7, <1>8 DEF OtherStep

LEMMA RoleNext == TypesInv /\ RoleInv /\ [Next]_vars => RoleInv'
<1> SUFFICES ASSUME TypesInv, RoleInv, [Next]_vars PROVE RoleInv'
  OBVIOUS
<1>1. CASE UNCHANGED vars
  BY <1>1 DEF vars, RoleInv
<1>2. CASE Next
  <2>1. PICK t \in Threads : OtherStep(t) \/ FlushPop(t) \/ PublishId(t) \/ PublishSst(t)
    BY <1>2 DEF Next, OtherStep
  <2>2. \A u \in Threads \ {t} : pc'[u] = pc[u]
    BY <2>1, StepOfOne
  <2>3. BeginFlush(t) => t \in Flushers \cup Closers
    BY DEF BeginFlush
  <2>4. QED
    BY <2>1, <2>2, <2>3, Reached DEF RoleInv
<1>3. QED
  BY <1>1, <1>2

LEMMA LoneNext ==
    ASSUME LoneFlush, TypesInv, LoneInv, [Next]_vars
    PROVE  LoneInv'
<1>1. CASE UNCHANGED vars
  BY <1>1 DEF vars, LoneInv, Writing, Flushing
<1>2. CASE Next
  <2>1. PICK t \in Threads : OtherStep(t) \/ FlushPop(t) \/ PublishId(t) \/ PublishSst(t)
    BY <1>2 DEF Next, OtherStep
  <2>2. \A u \in Threads \ {t} : Writing(u)' = Writing(u) /\ Flushing(u)' = Flushing(u)
    BY <2>1, StepOfOne DEF Writing, Flushing
  <2>3. Writing(t)' => Writing(t) \/ ~\E u \in Threads : Flushing(u)
    <3>1. BeginFlush(t) => t \notin Writers \cup Committers
      BY RolesAssumption DEF BeginFlush
    <3>2. Begin(t) => t \in Readers \/ ~\E u \in Threads : Flushing(u)
      BY DEF Begin
    <3>3. QED
      BY <2>1, <3>1, <3>2, Reached, RolesAssumption DEF Writing
  <2>4. Flushing(t)' => Flushing(t) \/ ~\E u \in Threads : Writing(u)
    <3>1. Begin(t) => t \notin Flushers \cup Closers
      BY RolesAssumption DEF Begin
    <3>2. BeginFlush(t) => ~\E u \in Threads : Writing(u)
      BY DEF BeginFlush
    <3>3. QED
      BY <2>1, <3>1, <3>2, Reached DEF Flushing
  <2>5. ~(Writing(t)' /\ Flushing(t)')
    BY RolesAssumption DEF Writing, Flushing
  <2>6. QED
    BY <2>2, <2>3, <2>4, <2>5 DEF LoneInv
<1>3. QED
  BY <1>1, <1>2

\* The writer cannot be in a put and about to flush at once.
LEMMA LoneUndisturbed ==
    ASSUME \A w, x \in Writers : w = x,
           TypesInv, RoleInv, LoneInv, [Next]_vars
    PROVE  [PutUndisturbed]_vars
<1>1. SUFFICES ASSUME Next, NEW w \in Threads, pc[w] \in {"put_write", "put_freeze"},
                      pc'[w] = pc[w], Current' # Current
               PROVE  FALSE
  BY DEF PutUndisturbed
<1>2. w \in Writers /\ Writing(w)
  BY <1>1 DEF RoleInv, PutSteps, Writing
<1>3. PICK t \in Threads : PutFreeze(t) \/ FlushTake(t)
  BY <1>1, TableMoves
<1>4. CASE PutFreeze(t)
  <2>1. pc[t] = "put_freeze" /\ pc'[t] = "size_cur"
    BY <1>4 DEF PutFreeze, At, Goto, TypesInv, StateTypes
  <2>2. t \in Writers /\ t # w
    BY <1>1, <2>1 DEF RoleInv, PutSteps
  <2>3. QED
    BY <1>2, <2>2
<1>5. CASE FlushTake(t)
  <2>1. pc[t] = "flush_frozen"
    BY <1>5 DEF FlushTake, At
  <2>2. t \in Flushers \cup Closers /\ Flushing(t)
    BY <1>1, <1>2, <2>1 DEF RoleInv, FlushSteps, Flushing
  <2>3. QED
    BY <1>2, <2>2 DEF LoneInv
<1>6. QED
  BY <1>3, <1>4, <1>5

\* A client with one writing thread, which flushes and closes only while it does not
\* write, loses nothing, with any number of readers and transactions beside it.
THEOREM LoneWriterLosesNothing ==
    ASSUME LoneFlush, \A w, x \in Writers : w = x
    PROVE  Spec => [](BytesExact /\ AcknowledgedKept)
<1>1. Init => RoleInv /\ LoneInv
  BY DEF Init, RoleInv, LoneInv, Writing, Flushing, PutSteps, SizeSteps, FlushSteps
<1>2. Spec => [](TypesInv /\ RoleInv /\ LoneInv)
  BY <1>1, TypesInit, TypesNext, RoleNext, LoneNext, PTL DEF Spec
<1>3. TypesInv /\ RoleInv /\ LoneInv /\ [Next]_vars => [TableStays]_vars
  BY LoneUndisturbed, UndisturbedStays
<1>4. QED
  BY <1>2, <1>3, OnlyATakenTableLoses, PTL DEF Spec

\* The numbers of one flush at a time: those in level 0 have been counted, the one a
\* flush holds is the next to count, or the last counted and new to level 0.
NumbersInv ==
    /\ ~Collided
    /\ \A n \in ToSet(level_sst_ids) : n < next_sst_id
    /\ \A t \in Threads :
          /\ pc[t] = "flush_inc" => sst_id[t] = next_sst_id
          /\ pc[t] \in {"flush_ssts", "flush_frozen", "flush_pop", "publish_id"} =>
                sst_id[t] < next_sst_id /\ sst_id[t] \notin ToSet(level_sst_ids)

LEMMA LoneFlushes ==
    ASSUME \A w, x \in Writers : w = x, \A c, d \in Flushers \cup Closers : c = d,
           RoleInv, LoneInv, NEW t \in Threads, NEW u \in Threads,
           pc[t] \in FlushSteps, pc[u] \in FlushSteps
    PROVE  t = u
<1>1. pc[t] # "idle" /\ pc[u] # "idle"
  BY DEF FlushSteps
<1>2. t \in Writers \cup Flushers \cup Closers /\ u \in Writers \cup Flushers \cup Closers
  BY DEF RoleInv
<1>3. ~((t \in Writers /\ u \notin Writers) \/ (u \in Writers /\ t \notin Writers))
  BY <1>1, <1>2 DEF LoneInv, Writing, Flushing
<1>4. QED
  BY <1>2, <1>3

\* A number that level 0 does not have yet collides with none.
LEMMA NumberPrepended ==
    ASSUME NEW x \in Nat, level_sst_ids \in Seq(Nat), level_sst_ids' = <<x>> \o level_sst_ids,
           ~Collided, x \notin ToSet(level_sst_ids)
    PROVE  ~Collided'
<1>1. /\ Len(level_sst_ids') = Len(level_sst_ids) + 1 /\ level_sst_ids' \in Seq(Nat)
      /\ level_sst_ids'[1] = x
      /\ \A i \in 1..Len(level_sst_ids) : level_sst_ids'[i + 1] = level_sst_ids[i]
  BY PrependOf
<1>2. /\ DOMAIN level_sst_ids = 1..Len(level_sst_ids) /\ Len(level_sst_ids) \in Nat
      /\ DOMAIN level_sst_ids' = 1..(Len(level_sst_ids) + 1)
  BY <1>1
<1>3. \A i \in DOMAIN level_sst_ids' :
         i = 1 \/ (i - 1 \in DOMAIN level_sst_ids /\ level_sst_ids'[i] = level_sst_ids[i - 1])
  BY <1>1, <1>2
<1>4. \A i \in DOMAIN level_sst_ids : level_sst_ids[i] # x
  BY DEF ToSet
<1>5. \A i, j \in DOMAIN level_sst_ids : level_sst_ids[i] = level_sst_ids[j] => i = j
  BY DEF Collided, IsInjective
<1>6. ASSUME NEW i \in DOMAIN level_sst_ids', NEW j \in DOMAIN level_sst_ids',
             level_sst_ids'[i] = level_sst_ids'[j]
      PROVE  i = j
  <2>1. CASE i = 1 \/ j = 1
    BY <1>1, <1>3, <1>4, <1>6, <2>1
  <2>2. CASE i # 1 /\ j # 1
    <3>1. i - 1 = j - 1
      BY <1>3, <1>5, <1>6, <2>2
    <3>2. QED
      BY <1>2, <3>1
  <2>3. QED
    BY <2>1, <2>2
<1>7. QED
  BY <1>6 DEF Collided, IsInjective

LEMMA NumbersNext ==
    ASSUME \A w, x \in Writers : w = x, \A c, d \in Flushers \cup Closers : c = d,
           TypesInv, RoleInv, LoneInv, NumbersInv, [Next]_vars
    PROVE  NumbersInv'
<1> DEFINE holds == {"flush_ssts", "flush_frozen", "flush_pop", "publish_id"}
<1>0. /\ pc \in [Threads -> Steps] /\ sst_id \in [Threads -> Nat \cup {None}]
      /\ next_sst_id \in Nat /\ level_sst_ids \in Seq(Nat) /\ ToSet(level_sst_ids) \subseteq Nat
  BY DEF TypesInv, StateTypes, ToSet
<1>1. CASE UNCHANGED vars
  BY <1>1 DEF vars, localVars, sstVars, NumbersInv, Collided
<1>2. ASSUME NEW t \in Threads, FlushLoad(t)
      PROVE  NumbersInv'
  <2>1. /\ pc[t] = "flush_load" /\ UNCHANGED <<next_sst_id, level_sst_ids>>
        /\ pc' = [pc EXCEPT ![t] = "flush_inc"] /\ sst_id' = [sst_id EXCEPT ![t] = next_sst_id]
    BY <1>2 DEF FlushLoad, At, Goto, sstVars
  <2>2. QED
    BY <1>0, <2>1 DEF NumbersInv, Collided
<1>3. ASSUME NEW t \in Threads, FlushInc(t)
      PROVE  NumbersInv'
  <2>1. /\ pc[t] = "flush_inc" /\ UNCHANGED <<sst_id, level_sst_ids>>
        /\ pc' = [pc EXCEPT ![t] = "flush_ssts"] /\ next_sst_id' = sst_id[t] + 1
    BY <1>3 DEF FlushInc, At, Goto, localVars
  <2>2. sst_id[t] = next_sst_id /\ next_sst_id' = next_sst_id + 1
    BY <2>1 DEF NumbersInv
  <2>3. \A n \in ToSet(level_sst_ids) : n < next_sst_id' /\ n # next_sst_id
    BY <1>0, <2>2 DEF NumbersInv
  <2>4. \A u \in Threads \ {t} : pc'[u] = pc[u] /\ pc'[u] \notin FlushSteps
    BY <1>0, <2>1, LoneFlushes DEF FlushSteps
  <2>5. pc'[t] = "flush_ssts" /\ sst_id'[t] < next_sst_id' /\ sst_id'[t] \notin ToSet(level_sst_ids')
    BY <1>0, <2>1, <2>2, <2>3
  <2>6. QED
    BY <2>1, <2>3, <2>4, <2>5 DEF NumbersInv, Collided, FlushSteps
<1>4. ASSUME NEW t \in Threads, PublishId(t)
      PROVE  NumbersInv'
  <2>1. /\ pc[t] = "publish_id" /\ UNCHANGED <<sst_id, next_sst_id>>
        /\ pc' = [pc EXCEPT ![t] = "publish_sst"]
        /\ level_sst_ids' = <<sst_id[t]>> \o level_sst_ids /\ sst_id[t] \in Nat
    BY <1>4 DEF PublishId, At, Goto, localVars, TypesInv, HandTypes, FlushSteps
  <2>2. sst_id[t] < next_sst_id /\ sst_id[t] \notin ToSet(level_sst_ids)
    BY <2>1 DEF NumbersInv
  <2>3. ToSet(level_sst_ids') = {sst_id[t]} \cup ToSet(level_sst_ids)
    BY <1>0, <2>1, PrependOf
  <2>4. ~Collided'
    BY <1>0, <2>1, <2>2, NumberPrepended DEF NumbersInv
  <2>5. \A u \in Threads : pc'[u] \notin holds \cup {"flush_inc"}
    <3>1. \A u \in Threads \ {t} : pc'[u] = pc[u] /\ pc'[u] \notin FlushSteps
      BY <1>0, <2>1, LoneFlushes DEF FlushSteps
    <3>2. pc'[t] = "publish_sst"
      BY <1>0, <2>1
    <3>3. QED
      BY <3>1, <3>2 DEF FlushSteps
  <2>6. QED
    BY <2>1, <2>2, <2>3, <2>4, <2>5 DEF NumbersInv
<1>5. ASSUME NEW t \in Threads, FlushLock(t) \/ FlushTake(t) \/ FlushPop(t)
      PROVE  NumbersInv'
  <2>1. /\ pc[t] \in holds /\ UNCHANGED <<sst_id, next_sst_id, level_sst_ids>>
        /\ \A u \in Threads \ {t} : pc'[u] = pc[u]
        /\ pc'[t] # "flush_inc"
    BY <1>0, <1>5 DEF FlushLock, FlushTake, FlushPop, At, Goto, localVars, sstVars
  <2>2. QED
    BY <2>1 DEF NumbersInv, Collided
<1>6. ASSUME NEW t \in Threads,
             \/ Begin(t) \/ BeginFlush(t) \/ PutLock(t) \/ PutWrite(t) \/ PutFreeze(t)
             \/ SizeLock(t) \/ SizeRead(t) \/ PublishSst(t)
             \/ GetCur(t) \/ GetFrozen(t) \/ GetSst(t) \/ CommitLock(t) \/ CommitWrite(t)
      PROVE  NumbersInv'
  <2>1. UNCHANGED <<next_sst_id, level_sst_ids>> /\ \A u \in Threads \ {t} : sst_id'[u] = sst_id[u]
    BY <1>0, <1>6
    DEF Begin, BeginFlush, PutLock, PutWrite, PutFreeze, SizeLock, SizeRead, PublishSst,
        GetCur, GetFrozen, GetSst, CommitLock, CommitWrite, localVars, sstVars
  <2>2. \A u \in Threads \ {t} : pc'[u] = pc[u]
    BY <1>6, StepOfOne DEF OtherStep
  <2>3. pc'[t] \notin holds \cup {"flush_inc"}
    <3>1. CASE Begin(t) \/ BeginFlush(t) \/ PutLock(t) \/ PutWrite(t) \/ PutFreeze(t)
      BY <1>0, <3>1 DEF Begin, BeginFlush, PutLock, PutWrite, PutFreeze, Goto
    <3>2. CASE SizeLock(t) \/ SizeRead(t) \/ PublishSst(t)
      BY <1>0, <3>2 DEF SizeLock, SizeRead, PublishSst, Return, Goto
    <3>3. CASE \/ GetCur(t) \/ GetFrozen(t) \/ GetSst(t) \/ CommitLock(t) \/ CommitWrite(t)
      BY <1>0, <3>3 DEF GetCur, GetFrozen, GetSst, Answered, CommitLock, CommitWrite, Goto
    <3>4. QED
      BY <1>6, <3>1, <3>2, <3>3
  <2>4. QED
    BY <2>1, <2>2, <2>3 DEF NumbersInv, Collided
<1>7. QED
  BY <1>1, <1>2, <1>3, <1>4, <1>5, <1>6 DEF Next

\* A client with one writing and one flushing thread, which take turns, reads nothing
\* that was overwritten before the read began, with any number of readers and
\* transactions beside it.
THEOREM LoneClientReads ==
    ASSUME LoneFlush, \A w, x \in Writers : w = x, \A c, d \in Flushers \cup Closers : c = d
    PROVE  Spec => ReadsAdmissible
<1>1. Init => RoleInv /\ LoneInv /\ NumbersInv
  <2>1. Init => RoleInv /\ LoneInv
    BY DEF Init, RoleInv, LoneInv, Writing, Flushing, PutSteps, SizeSteps, FlushSteps
  <2>2. Init => level_sst_ids = <<>> /\ DOMAIN level_sst_ids = {} /\ \A t \in Threads : pc[t] = "idle"
    BY DEF Init
  <2>3. QED
    BY <2>1, <2>2 DEF NumbersInv, Collided, IsInjective, ToSet
<1>2. Spec => [](TypesInv /\ RoleInv /\ LoneInv /\ NumbersInv)
  BY <1>1, TypesInit, TypesNext, RoleNext, LoneNext, NumbersNext, PTL DEF Spec
<1>3. TypesInv /\ RoleInv /\ LoneInv /\ [Next]_vars => [PutUndisturbed]_vars
  BY LoneUndisturbed
<1>4. NumbersInv => ~Collided
  BY DEF NumbersInv
<1>5. QED
  BY <1>2, <1>3, <1>4, ReadsStayAdmissible, PTL DEF Spec
=============================================================================
