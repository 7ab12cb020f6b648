---------------------------- MODULE MCWatchList ----------------------------
\* Instances of WatchList for TLC.
EXTENDS WatchList

TwoSymbols == 1..2
OneSymbol == {1}

\* Refresh slots are interchangeable; no liveness is checked under this symmetry.
BatchSymmetry == Permutations(Batches)
=============================================================================
