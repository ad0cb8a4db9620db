------------------------------ MODULE MCIndexer ------------------------------
(***************************************************************************)
(* Small instances of Indexer for TLC.                                     *)
(***************************************************************************)
EXTENDS IndexerProperties, TLC

CONSTANTS r1, r2, s1, s2

\* Events in consecutive blocks.
OnePerBlock == [l \in Logs |-> l]

\* A first boot, and a boot with a checkpoint behind the head.
FirstBootOrGap == {NoBlock, 0}

IndexerSymmetry == Permutations(Replicas) \union Permutations(Slots)
=============================================================================
