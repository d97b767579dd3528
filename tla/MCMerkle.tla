------------------------------ MODULE MCMerkle ------------------------------
(***************************************************************************)
(* Merkle for TLC: all blocks of up to MaxTxs transactions.                *)
(***************************************************************************)
EXTENDS Merkle
=============================================================================
