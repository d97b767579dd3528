------------------------------ MODULE MCMempool -----------------------------
(***************************************************************************)
(* MempoolOverlay on a small tree:                                         *)
(*                                                                         *)
(*     g -- a1 -- a2 -- a3                                                 *)
(*            | \                                                          *)
(*            |  b2 -- b3                                                  *)
(*             \                                                           *)
(*              c2                                                         *)
(*                                                                         *)
(* p and x spend the same output of a1, q spends one of the two outputs of *)
(* p.  a2 mines p and a3 mines q, b2 mines x, c2 mines p and q together.   *)
(***************************************************************************)
EXTENDS MempoolOverlay

AllBlocks == {"g", "a1", "a2", "a3", "b2", "b3", "c2"}

PrevOf ==
  [g |-> "zero", a1 |-> "g", a2 |-> "a1", a3 |-> "a2", b2 |-> "a1", b3 |-> "b2",
   c2 |-> "a1"]

HeightOf == [g |-> 0, a1 |-> 1, a2 |-> 2, a3 |-> 3, b2 |-> 2, b3 |-> 3, c2 |-> 2]

AncOf ==
  [g |-> {}, a1 |-> {"g"}, a2 |-> {"g", "a1"}, a3 |-> {"g", "a1", "a2"},
   b2 |-> {"g", "a1"}, b3 |-> {"g", "a1", "b2"}, c2 |-> {"g", "a1"}]

AllTxs == AllBlocks \cup {"p", "q", "x"}

TxsOf ==
  [g |-> <<"g">>, a1 |-> <<"a1">>, a2 |-> <<"a2", "p">>, a3 |-> <<"a3", "q">>,
   b2 |-> <<"b2", "x">>, b3 |-> <<"b3">>, c2 |-> <<"c2", "p", "q">>]

InOf ==
  [t \in AllTxs |->
     CASE t \in {"p", "x"} -> {<<"a1", 0>>}
       [] t = "q"          -> {<<"p", 0>>}
       [] OTHER            -> {}]

OutOf ==
  [t \in AllTxs |->
     CASE t = "p"                -> {<<"p", 0>>, <<"p", 1>>}
       [] t \in {"a1", "q", "x"} -> {<<t, 0>>}
       [] OTHER                  -> {}]

ScriptOf ==
  [o \in UNION {OutOf[t] : t \in AllTxs} |->
     IF o \in {<<"a1", 0>>, <<"p", 1>>, <<"q", 0>>} THEN "alice" ELSE "bob"]

ValueOf ==
  [o \in UNION {OutOf[t] : t \in AllTxs} |->
     CASE o = <<"a1", 0>> -> 8
       [] o[1] = "p"      -> 4
       [] o[1] = "x"      -> 2
       [] OTHER           -> 1]
=============================================================================
