----------------------------- MODULE MCOrderly ------------------------------
(***************************************************************************)
(* The instance of MCChain that meets all the proofs under Discipline ask. *)
(***************************************************************************)
EXTENDS MCChain

ASSUME OrderlyDiscipline == Discipline
=============================================================================
