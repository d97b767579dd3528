-------------------------------- MODULE Feed --------------------------------
(***************************************************************************)
(* What the path from Bitcoin Core's publisher to the index promises: the  *)
(* messages of a stream are handed over in the order of publication and at *)
(* most once; any of them may be lost on the way.  ChainManager and        *)
(* MempoolOverlay assume no more of their notifications; Pipeline, with    *)
(* sockets, channels and the writer's queue, implements it.                *)
(***************************************************************************)
EXTENDS Naturals, Sequences

CONSTANT Stream

VARIABLES   \* functions of the stream
  sent,       \* number of messages published, which are 1 .. sent
  pending,    \* published, neither lost nor handed over; oldest first
  delivered   \* handed over so far

vars == <<sent, pending, delivered>>

Init ==
  /\ sent = [s \in Stream |-> 0]
  /\ pending = [s \in Stream |-> <<>>] /\ delivered = [s \in Stream |-> <<>>]

Publish(s) ==
  /\ sent' = [sent EXCEPT ![s] = @ + 1]
  /\ pending' = [pending EXCEPT ![s] = Append(@, sent[s] + 1)]
  /\ UNCHANGED delivered

\* One message is lost ...
Lose(s, i) ==
  /\ pending' = [pending EXCEPT ![s] =
                   SubSeq(@, 1, i - 1) \o SubSeq(@, i + 1, Len(@))]
  /\ UNCHANGED <<sent, delivered>>

\* ... or all from the i-th on, with the socket that holds them.
LoseFrom(s, i) ==
  /\ pending' = [pending EXCEPT ![s] = SubSeq(@, 1, i - 1)]
  /\ UNCHANGED <<sent, delivered>>

Deliver(s) ==
  /\ pending[s] # <<>>
  /\ delivered' = [delivered EXCEPT ![s] = Append(@, Head(pending[s]))]
  /\ pending' = [pending EXCEPT ![s] = Tail(@)]
  /\ UNCHANGED sent

Next ==
  \E s \in Stream :
    \/ Publish(s) \/ Deliver(s)
    \/ \E i \in 1 .. Len(pending[s]) : Lose(s, i) \/ LoseFrom(s, i)

Spec == Init /\ [][Next]_vars
=============================================================================
