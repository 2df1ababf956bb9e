----------------------------- MODULE LSMClaims ------------------------------
(***************************************************************************)
(* What comments of the engine say of a flush, as a property of LSM.tla    *)
(* that the code breaks.  PROJECT.json quotes the lines.                   *)
(***************************************************************************)
EXTENDS LSMProps

\* What the reader of an answer learns: a value, or nothing.
Answer(hit) == IF hit = NoNode THEN Empty ELSE hit.value

\* A flush moves versions from memory to a file; level 0 is then searched newest
\* file first (engine.cpp:68-73).  What a key read before it, it reads after it.
\* (A flush of an empty memtable, which stores a null pointer, is left aside.)
FlushKeepsReads ==
    [][Flush /\ ~NothingToFlush(memtable) => \A k \in Keys :
          LET before == EngineGet(k, nextTransactionId)
              after  == EngineGet(k, nextTransactionId)'
          IN  before \notin {NoNode, Failure} =>
                 after # Failure /\ Answer(after) = Answer(before)]_vars
=============================================================================
