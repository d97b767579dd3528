------------------------------ MODULE Registry ------------------------------
(***************************************************************************)
(* What the SubscriptionManager promises its callers, as one relation: who *)
(* is subscribed to what.  A connection that has been dropped stays out.   *)
(* Sessions, which keeps the three maps of the code, implements it.        *)
(***************************************************************************)
CONSTANTS Conn, Topic

VARIABLES
  subs,   \* pairs <<connection, topic>>
  gone    \* connections that have been dropped

vars == <<subs, gone>>

Init == subs = {} /\ gone = {}

Subscribe(c, t) ==
  /\ c \notin gone
  /\ subs' = subs \cup {<<c, t>>}
  /\ UNCHANGED gone

Unsubscribe(c, t) ==
  /\ c \notin gone
  /\ subs' = subs \ {<<c, t>>}
  /\ UNCHANGED gone

Drop(c) ==
  /\ subs' = subs \ ({c} \X Topic)
  /\ gone' = gone \cup {c}

Next ==
  \E c \in Conn :
    \/ \E t \in Topic : Subscribe(c, t) \/ Unsubscribe(c, t)
    \/ Drop(c)

Spec == Init /\ [][Next]_vars
=============================================================================
