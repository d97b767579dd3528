------------------------------ MODULE MCLedger ------------------------------
(***************************************************************************)
(* IndexLedger on the tree of MCBlocks.                                    *)
(***************************************************************************)
EXTENDS IndexLedger, MCBlocks
=============================================================================
