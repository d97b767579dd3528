------------------------------ MODULE MCChain -------------------------------
(***************************************************************************)
(* ChainManager on the tree of MCBlocks.                                   *)
(***************************************************************************)
EXTENDS ChainManager, MCBlocks

\* The byte order of the hashes: a2 sorts before b2.
Rank ==
  [g |-> 0, a1 |-> 1, a2 |-> 2, a3 |-> 3, a4 |-> 4, b2 |-> 5, b3 |-> 6,
   b4 |-> 7, c3 |-> 8, c4 |-> 9, c5 |-> 10]

\* Work that does not follow height, as with the minimum-difficulty blocks of
\* a test network: b3 outweighs the longer a4.
Weight ==
  [g |-> 0, a1 |-> 1, a2 |-> 2, a3 |-> 3, a4 |-> 4, b2 |-> 2, b3 |-> 5,
   b4 |-> 6, c3 |-> 3, c4 |-> 5, c5 |-> 7]

\* The default of indexer.start_height.
AtCoreTip == -1

\* Every control point but those of a rollback in progress.
NotInRollback == Steps \ {"down", "rollback"}
=============================================================================
