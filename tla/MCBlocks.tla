------------------------------ MODULE MCBlocks ------------------------------
(***************************************************************************)
(* A small block tree for the model checker:                               *)
(*                                                                         *)
(*     g -- a1 -- a2 -- a3 -- a4                                           *)
(*            \                                                            *)
(*             b2 -- b3 -- b4                                              *)
(*               \                                                         *)
(*                c3 -- c4 -- c5                                           *)
(*                                                                         *)
(* Transaction p is mined by a2 and again, higher and behind another       *)
(* coinbase, by b3; in b3 its output is spent by r in the same block.      *)
(* One output of p is an OP_RETURN.                                        *)
(***************************************************************************)
EXTENDS Integers, Sequences

AllBlocks == {"g", "a1", "a2", "a3", "a4", "b2", "b3", "b4", "c3", "c4", "c5"}

PrevOf ==
  [g  |-> "zero", a1 |-> "g", a2 |-> "a1", a3 |-> "a2", a4 |-> "a3",
   b2 |-> "a1", b3 |-> "b2", b4 |-> "b3",
   c3 |-> "b2", c4 |-> "c3", c5 |-> "c4"]

HeightOf ==
  [g |-> 0, a1 |-> 1, a2 |-> 2, a3 |-> 3, a4 |-> 4, b2 |-> 2, b3 |-> 3,
   b4 |-> 4, c3 |-> 3, c4 |-> 4, c5 |-> 5]

AncOf ==
  [g  |-> {}, a1 |-> {"g"}, a2 |-> {"g", "a1"}, a3 |-> {"g", "a1", "a2"},
   a4 |-> {"g", "a1", "a2", "a3"},
   b2 |-> {"g", "a1"}, b3 |-> {"g", "a1", "b2"},
   b4 |-> {"g", "a1", "b2", "b3"}, c3 |-> {"g", "a1", "b2"},
   c4 |-> {"g", "a1", "b2", "c3"}, c5 |-> {"g", "a1", "b2", "c3", "c4"}]

\* Coinbases are named after their block.
TxsOf ==
  [g  |-> <<"g">>, a1 |-> <<"a1">>, a2 |-> <<"a2", "p">>,
   a3 |-> <<"a3", "q">>, a4 |-> <<"a4">>,
   b2 |-> <<"b2">>, b3 |-> <<"b3", "s", "p", "r">>, b4 |-> <<"b4">>,
   c3 |-> <<"c3", "s">>, c4 |-> <<"c4", "p">>, c5 |-> <<"c5">>]

AllTxs == AllBlocks \cup {"p", "q", "r", "s"}

InOf ==
  [t \in AllTxs |->
     CASE t = "p" -> {<<"a1", 0>>}
       [] t = "q" -> {<<"p", 0>>}
       [] t = "r" -> {<<"p", 0>>}
       [] t = "s" -> {<<"b2", 0>>}
       [] OTHER   -> {}]

\* Only the coinbases that are spent have an output worth indexing.
OutOf ==
  [t \in AllTxs |->
     CASE t = "p" -> {<<"p", 0>>, <<"p", 1>>}
       [] t \in {"a1", "b2", "q", "r", "s"} -> {<<t, 0>>}
       [] OTHER -> {}]

SkippedOutputs == {<<"p", 1>>}

ScriptOf ==
  [o \in UNION {OutOf[t] : t \in AllTxs} |->
     IF o[1] \in {"a1", "q", "s"} THEN "alice" ELSE "bob"]
=============================================================================
