----------------------------- MODULE MCLevelDB -----------------------------
\* LevelDB as TLC instantiates it.
EXTENDS LevelDB, TLC

Put == 1 :> "put"
Delete == 1 :> "delete"
PutSecond == 2 :> "put"
DeleteSecond == 1 :> "put" @@ 2 :> "delete"
PutBoth == 1 :> "put" @@ 2 :> "put"

Bounds(batches, w, writes, syncs, errors, crashes, seeks, readers) ==
    [batches |-> batches, writers |-> w, writes |-> writes, syncs |-> syncs,
     errors |-> errors, crashes |-> crashes, seeks |-> seeks, readers |-> readers]

\* Two writers, a failure and a crash; two crashes; compactions and a reader; compactions
\* and a crash; level 0 full, and a failure.
MCBudgets ==
    {Bounds({Put, Delete, PutBoth}, 2, 2, 1, 1, 1, 0, 0),
     Bounds({Put, Delete, PutBoth}, 1, 2, 1, 0, 2, 0, 0),
     Bounds({Put, Delete}, 1, 3, 0, 0, 0, 1, 1),
     Bounds({Put, PutBoth}, 1, 3, 0, 0, 0, 1, 1),
     Bounds({Delete, PutBoth}, 1, 3, 0, 0, 1, 1, 0),
     Bounds({Put}, 1, 4, 0, 1, 1, 0, 0)}

\* Two versions of a key in two tables of a level, and a compaction that takes the first.
MCSplitBudgets == {Bounds({Put, PutSecond, DeleteSecond}, 1, 4, 0, 0, 0, 0, 1)}
=============================================================================
