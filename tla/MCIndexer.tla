------------------------------ MODULE MCIndexer ------------------------------
(***************************************************************************)
(* Three ledgers of up to two events: two of one ledger to cut a page in    *)
(* two, an empty ledger to scan past, and an event of a failed call.       *)
(***************************************************************************)
EXTENDS Indexer, TLC

MCWidth == 4
MCEvents == {5, 6, 13, 14}
MCPoolEvents == {5, 14}
MCFailed == {13}
\* For liveness, one event on each side of the empty ledger.
MCLiveEvents == {5, 13}
MCLivePoolEvents == {5}

MCSymmetry == Permutations(Procs)
=============================================================================
