---------------------------- MODULE MCThreadPool ----------------------------
(***************************************************************************)
(* Small instances of ThreadPool.                                          *)
(***************************************************************************)
EXTENDS ThreadPool

\* An empty range, and two indexes claimed as one chunk.
MCRanges == {[begin |-> 1, end |-> 1, chunk |-> 1],
             [begin |-> 0, end |-> 2, chunk |-> 2]}

\* Two indexes by the default chunk of 1 (0 stands for 1): one task for each
\* of two workers.
MCSharedRanges == {[begin |-> 0, end |-> 2, chunk |-> 0]}

\* prewarm_pool on a pool of two workers.
MCPrewarmRanges == {[begin |-> 0, end |-> 2, chunk |-> 1]}
=============================================================================
