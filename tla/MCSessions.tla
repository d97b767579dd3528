----------------------------- MODULE MCSessions -----------------------------
(***************************************************************************)
(* Sessions for TLC.                                                       *)
(***************************************************************************)
EXTENDS Sessions, TLC

\* Connections are interchangeable (not for the liveness properties).
ConnSymmetry == Permutations(Conn)
=============================================================================
