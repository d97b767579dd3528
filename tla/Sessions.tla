------------------------------ MODULE Sessions ------------------------------
(***************************************************************************)
(* The Electrum server's sessions: connections and their write queues,     *)
(* subscriptions, the status cache, and the notifications the main loop    *)
(* sends.  Each connection has a goroutine that serves requests and one    *)
(* that writes; the main loop is a goroutine beside them.  An action is    *)
(* what one goroutine does under one lock, in one channel operation, or in *)
(* one read of the index or of the overlay.                                *)
(*                                                                         *)
(* What a scripthash's status is computed from is abstracted to two        *)
(* version numbers, of its confirmed and of its unconfirmed history: the   *)
(* status is the pair, and is right when both are the present ones.  A     *)
(* header is the number of the block.  Requests that only read, and        *)
(* errors of the database, are left out.                                   *)
(***************************************************************************)
EXTENDS Integers, Sequences, FiniteSets, Functions

CONSTANTS
  Conn,            \* connections, each of them used once
  Scripthash,
  Headers,         \* the topic of blockchain.headers.subscribe
  Main,            \* the main loop, beside Conn among the goroutines
  None,            \* no connection, no topic, nothing seen yet
  MaxConnections,  \* server.max_connections
  BufSize,         \* capacity of a write queue (1000 in the code)
  StartTips,       \* the last block when the server starts
  MaxRequests, MaxChanges, MaxFaults   \* bounds of the model

ASSUME SessionAssumption ==
  /\ Main \notin Conn /\ None \notin Conn
  /\ Headers \notin Scripthash /\ None \notin Scripthash /\ None # Headers
  /\ MaxConnections \in Nat \ {0} /\ BufSize \in Nat \ {0}
  /\ StartTips \subseteq Nat /\ {MaxRequests, MaxChanges, MaxFaults} \subseteq Nat

Topic == Scripthash \cup {Headers}

Goroutine == Conn \cup {Main}

Status == [db : Nat, mem : Nat]

VARIABLES
  db, mem,          \* versions of the confirmed and unconfirmed histories
  tip,              \* number of the last block, 0 if none is indexed
  status, dirty,    \* the status cache
  scripthashSubs,   \* scripthash -> connections, no empty entries
  connScripthash,   \* connection -> scripthashes, no empty entries
  headerSubs,
  calc,             \* ComputeScripthashStatusHex, one call per goroutine
  pc, resp,         \* handleConnection: its position, answers so far
  ch,               \* ConnWriter: messages in the channel ...
  closed,           \* ... connections with closed set, done and ch closed
  loop,             \* ... connections whose writeLoop runs
  main,             \* runMainLoop, see MainState
  view,             \* what each client was told last of each topic
  up,               \* the process
  requests, changes, faults,   \* used up so far
  overlap, silent, missed      \* history, see below

indexVars == <<db, mem, tip>>
cacheVars == <<status, dirty>>
subVars   == <<scripthashSubs, connScripthash, headerSubs>>
connVars  == <<ch, closed, loop>>
bounds    == <<requests, changes, faults>>
vars == <<indexVars, cacheVars, subVars, calc, pc, resp, connVars, main, view,
          up, bounds, overlap, silent, missed>>

\* A goroutine runs until the process dies of a panic.
Alive == up # "panicked"

EmptyMap == [x \in {} |-> None]

Put(f, k, v) == [x \in DOMAIN f \cup {k} |-> IF x = k THEN v ELSE f[x]]

\* m[k] of a Go map of sets: nothing when the key is missing.
Entry(f, k) == IF k \in DOMAIN f THEN f[k] ELSE {}

Positions ==
  {"new", "serve", "compute", "header", "batch", "leave", "close", "wait", "gone"}

\* at: what comes next.  kind: which case of the select is being handled.
\* todo: what has changed and is not announced.  topic, conns, to: what is
\* announced, to whom still, and whom TrySend has found open.
MainState ==
  [at : {"idle", "commit", "headers", "mark", "next", "compute", "push", "send"},
   kind : {"block", "tx", "catchup", "gap"}, todo : SUBSET Topic,
   topic : Topic \cup {None}, conns : SUBSET Conn, to : Conn \cup {None}]

Idle == [at |-> "idle", kind |-> "tx", todo |-> {}, topic |-> None,
         conns |-> {}, to |-> None]

NotComputing == [at |-> "no", sh |-> None, val |-> [db |-> 0, mem |-> 0]]

\* TypeOK: of what kind every variable is.
TypeOK ==
  /\ db \in [Scripthash -> Nat] /\ mem \in [Scripthash -> Nat] /\ tip \in Nat
  /\ DOMAIN status \subseteq Scripthash
  /\ \A s \in DOMAIN status : status[s] \in Status
  /\ dirty \subseteq Scripthash
  /\ DOMAIN scripthashSubs \subseteq Scripthash
  /\ \A s \in DOMAIN scripthashSubs : scripthashSubs[s] \subseteq Conn
  /\ DOMAIN connScripthash \subseteq Conn
  /\ \A c \in DOMAIN connScripthash : connScripthash[c] \subseteq Scripthash
  /\ headerSubs \subseteq Conn
  /\ calc \in [Goroutine -> [at : {"no", "lookup", "db", "mem", "store", "done"},
                             sh : Scripthash \cup {None}, val : Status]]
  /\ pc \in [Conn -> Positions]
  /\ \A c \in Conn : DOMAIN resp[c] \subseteq Topic
  /\ \A c \in Conn : Len(ch[c]) \in 0 .. BufSize
  /\ closed \subseteq Conn /\ loop \subseteq Conn
  /\ main \in MainState
  /\ DOMAIN view = Conn
  /\ up \in {"running", "stopping", "panicked"}
  /\ requests \in 0 .. MaxRequests /\ changes \in 0 .. MaxChanges
  /\ faults \in 0 .. MaxFaults
  /\ overlap \subseteq Topic /\ silent \subseteq Topic
  /\ missed \subseteq Conn \X Topic

Init ==
  /\ db = [s \in Scripthash |-> 0] /\ mem = [s \in Scripthash |-> 0]
  /\ tip \in StartTips
  /\ status = EmptyMap /\ dirty = {}
  /\ scripthashSubs = EmptyMap /\ connScripthash = EmptyMap /\ headerSubs = {}
  /\ calc = [g \in Goroutine |-> NotComputing]
  /\ pc = [c \in Conn |-> "new"] /\ resp = [c \in Conn |-> EmptyMap]
  /\ ch = [c \in Conn |-> <<>>] /\ closed = {} /\ loop = {}
  /\ main = Idle
  /\ view = [c \in Conn |-> [t \in Topic |-> None]]
  /\ up = "running"
  /\ requests = 0 /\ changes = 0 /\ faults = 0
  /\ overlap = {} /\ silent = {} /\ missed = {}

-----------------------------------------------------------------------------
(***************************************************************************)
(* SubscriptionManager: each method holds the lock throughout.             *)
(***************************************************************************)
Add(f, k, x) == Put(f, k, Entry(f, k) \cup {x})

\* delete(m[k], x), and the entry itself once it is empty.
Delete(f, k, x) ==
  LET kept == {j \in DOMAIN f : j # k \/ f[j] # {x}}
  IN  [j \in kept |-> IF j = k THEN f[j] \ {x} ELSE f[j]]

SubscribeScripthash(c, s) ==
  /\ scripthashSubs' = Add(scripthashSubs, s, c)
  /\ connScripthash' = Add(connScripthash, c, s)
  /\ UNCHANGED headerSubs

UnsubscribeScripthash(c, s) ==
  /\ scripthashSubs' = Delete(scripthashSubs, s, c)
  /\ connScripthash' = Delete(connScripthash, c, s)
  /\ UNCHANGED headerSubs

SubscribeHeaders(c) ==
  /\ headerSubs' = headerSubs \cup {c}
  /\ UNCHANGED <<scripthashSubs, connScripthash>>

\* A variant that forgets the reverse map.
UnsubscribeConnOnly(c) ==
  /\ connScripthash' = Restrict(connScripthash, DOMAIN connScripthash \ {c})
  /\ headerSubs' = headerSubs \ {c}
  /\ UNCHANGED scripthashSubs

\* Finds the entries of c in scripthashSubs through connScripthash.
Unsubscribe(c) ==
  LET mine == Entry(connScripthash, c)
      kept == {s \in DOMAIN scripthashSubs :
                 s \notin mine \/ scripthashSubs[s] # {c}}
  IN  /\ scripthashSubs' = [s \in kept |-> IF s \in mine THEN scripthashSubs[s] \ {c}
                                           ELSE scripthashSubs[s]]
      /\ connScripthash' = Restrict(connScripthash, DOMAIN connScripthash \ {c})
      /\ headerSubs' = headerSubs \ {c}

\* The connections the two Notify methods copy before they send.
Subscribers(t) == IF t = Headers THEN headerSubs ELSE Entry(scripthashSubs, t)

-----------------------------------------------------------------------------
(***************************************************************************)
(* ComputeScripthashStatusHex, for the handlers and for the main loop:     *)
(* GetIfClean; if that fails read the confirmed history, then the          *)
(* overlay's, then SetClean.  Nothing is held from one to the next.        *)
(***************************************************************************)
Current(s) == [db |-> db[s], mem |-> mem[s]]

Clean(s) == s \in DOMAIN status /\ s \notin dirty

\* overlap: topics a request read while their last change was being made or
\* announced, or had read before it and not yet answered.
NoteRead(g, t) ==
  overlap' = IF g \in Conn /\ t \in main.todo THEN overlap \cup {t} ELSE overlap

\* The call returns v: a handler has its answer, the main loop its status.
Return(g, v) ==
  IF g \in Conn
  THEN /\ calc' = [calc EXCEPT ![g] = NotComputing]
       /\ resp' = [resp EXCEPT ![g] = Put(@, calc[g].sh, v)]
       /\ pc' = [pc EXCEPT ![g] = "batch"]
  ELSE /\ calc' = [calc EXCEPT ![g].at = "done", ![g].val = v]
       /\ UNCHANGED <<resp, pc>>

Elsewhere == <<indexVars, subVars, connVars, main, view, up, bounds, silent, missed>>

GetIfClean(g) ==
  /\ Alive /\ calc[g].at = "lookup"
  /\ IF Clean(calc[g].sh)
     THEN Return(g, status[calc[g].sh]) /\ NoteRead(g, calc[g].sh)
     ELSE /\ calc' = [calc EXCEPT ![g].at = "db"]
          /\ UNCHANGED <<resp, pc, overlap>>
  /\ UNCHANGED <<cacheVars, Elsewhere>>

ReadConfirmed(g) ==
  /\ Alive /\ calc[g].at = "db"
  /\ calc' = [calc EXCEPT ![g].at = "mem", ![g].val.db = db[calc[g].sh]]
  /\ NoteRead(g, calc[g].sh)
  /\ UNCHANGED <<resp, pc, cacheVars, Elsewhere>>

ReadMempool(g) ==
  /\ Alive /\ calc[g].at = "mem"
  /\ calc' = [calc EXCEPT ![g].at = "store", ![g].val.mem = mem[calc[g].sh]]
  /\ NoteRead(g, calc[g].sh)
  /\ UNCHANGED <<resp, pc, cacheVars, Elsewhere>>

SetClean(g) ==
  /\ Alive /\ calc[g].at = "store"
  /\ status' = Put(status, calc[g].sh, calc[g].val)
  /\ dirty' = dirty \ {calc[g].sh}
  /\ Return(g, calc[g].val)
  /\ UNCHANGED <<overlap, Elsewhere>>

Compute(g) == GetIfClean(g) \/ ReadConfirmed(g) \/ ReadMempool(g) \/ SetClean(g)

-----------------------------------------------------------------------------
(***************************************************************************)
(* Server.Start and handleConnection.  A request is read, or the next one  *)
(* of a batch; the answers of a batch go out in one message.               *)
(***************************************************************************)
\* Connections that hold a place of connLimiter.
Admitted == {c \in Conn : pc[c] \notin {"new", "close", "wait", "gone"}}

\* With no place left the socket is closed at once and nothing is kept of it.
Accept(c) ==
  /\ pc[c] = "new" /\ up = "running"
  /\ Cardinality(Admitted) < MaxConnections
  /\ pc' = [pc EXCEPT ![c] = "serve"]
  /\ loop' = loop \cup {c}
  /\ UNCHANGED <<indexVars, cacheVars, subVars, calc, resp, ch, closed, main,
                 view, up, bounds, overlap, silent, missed>>

NextRequest(c) ==
  /\ Alive /\ pc[c] \in {"serve", "batch"}
  /\ requests < MaxRequests /\ requests' = requests + 1
  /\ UNCHANGED <<indexVars, cacheVars, connVars, main, view, up, changes, faults,
                 overlap, silent, missed>>

HandleScripthashSubscribe(c, s) ==
  /\ NextRequest(c)
  /\ SubscribeScripthash(c, s)
  /\ calc' = [calc EXCEPT ![c] = [NotComputing EXCEPT !.at = "lookup", !.sh = s]]
  /\ pc' = [pc EXCEPT ![c] = "compute"]
  /\ UNCHANGED resp

HandleScripthashUnsubscribe(c, s) ==
  /\ NextRequest(c)
  /\ UnsubscribeScripthash(c, s)
  /\ pc' = [pc EXCEPT ![c] = "batch"]
  /\ UNCHANGED <<calc, resp>>

HandleHeadersSubscribe(c) ==
  /\ NextRequest(c)
  /\ SubscribeHeaders(c)
  /\ pc' = [pc EXCEPT ![c] = "header"]
  /\ UNCHANGED <<calc, resp>>

\* ... then LoadCheckpoint and GetHeaderHex; with no block indexed the answer is
\* an error, which tells of no header, and the subscription stays.
LoadTip(c) ==
  /\ Alive /\ pc[c] = "header"
  /\ resp' = IF tip = 0 THEN resp ELSE [resp EXCEPT ![c] = Put(@, Headers, tip)]
  /\ pc' = [pc EXCEPT ![c] = "batch"]
  /\ NoteRead(c, Headers)
  /\ UNCHANGED <<calc, cacheVars, Elsewhere>>

\* A variant with a queue that has no limit.
SendUnbounded(c) ==
  /\ Alive /\ pc[c] = "batch"
  /\ ch' = [ch EXCEPT ![c] = Append(@, resp[c])]
  /\ resp' = [resp EXCEPT ![c] = EmptyMap]
  /\ pc' = [pc EXCEPT ![c] = IF up = "stopping" THEN "leave" ELSE "serve"]
  /\ missed' = missed \ ({c} \X DOMAIN resp[c])
  /\ UNCHANGED <<indexVars, cacheVars, subVars, calc, closed, loop, main, view, up,
                 bounds, overlap, silent>>

\* Send blocks while the channel is full; only this goroutine closes it.
SendResponses(c) ==
  /\ Alive /\ pc[c] = "batch"
  /\ Len(ch[c]) < BufSize
  /\ ch' = [ch EXCEPT ![c] = Append(@, resp[c])]
  /\ resp' = [resp EXCEPT ![c] = EmptyMap]
  /\ pc' = [pc EXCEPT ![c] = IF up = "stopping" THEN "leave" ELSE "serve"]
  /\ missed' = missed \ ({c} \X DOMAIN resp[c])
  /\ UNCHANGED <<indexVars, cacheVars, subVars, calc, closed, loop, main, view, up,
                 bounds, overlap, silent>>

\* What a handler's goroutine leaves alone while it cleans up.
Cleanup(c, from, to) ==
  /\ Alive /\ pc[c] = from
  /\ pc' = [pc EXCEPT ![c] = to]
  /\ UNCHANGED <<indexVars, cacheVars, calc, resp, main, up, bounds, overlap, silent>>

\* The client closes, is idle beyond the request timeout, or the server stops.
Leave(c) ==
  /\ Cleanup(c, "serve", "leave")
  /\ UNCHANGED <<subVars, connVars, view, missed>>

\* The deferred function: its place in connLimiter and its subscriptions ...
Release(c) ==
  /\ Cleanup(c, "leave", "close")
  /\ Unsubscribe(c)
  /\ UNCHANGED <<connVars, view, missed>>

\* ... ConnWriter.Close: closed, done and ch, then wait for the write loop ...
CloseWriter(c) ==
  /\ Cleanup(c, "close", "wait")
  /\ closed' = closed \cup {c}
  /\ UNCHANGED <<subVars, ch, loop, view, missed>>

\* ... and conn.Close.  What is left in the channel is lost with the client.
CloseConn(c) ==
  /\ c \notin loop
  /\ Cleanup(c, "wait", "gone")
  /\ ch' = [ch EXCEPT ![c] = <<>>]
  /\ view' = [view EXCEPT ![c] = [t \in Topic |-> None]]
  /\ missed' = {ct \in missed : ct[1] # c}
  /\ UNCHANGED <<subVars, closed, loop>>

Handler(c) ==
  \/ LoadTip(c) \/ SendResponses(c) \/ Release(c) \/ CloseWriter(c) \/ CloseConn(c)

-----------------------------------------------------------------------------
(***************************************************************************)
(* ConnWriter.writeLoop.  A write ends within its deadline, perhaps        *)
(* without having written; the result is ignored.                          *)
(***************************************************************************)
TakeMessage(c) ==
  /\ Alive /\ c \in loop /\ ch[c] # <<>>
  /\ ch' = [ch EXCEPT ![c] = Tail(@)]
  /\ UNCHANGED <<indexVars, cacheVars, subVars, calc, pc, resp, closed, loop,
                 main, up, requests, changes, overlap, silent>>

Write(c) ==
  /\ TakeMessage(c)
  /\ view' = [view EXCEPT ![c] = [t \in Topic |-> IF t \in DOMAIN Head(ch[c])
                                                  THEN Head(ch[c])[t] ELSE @[t]]]
  /\ UNCHANGED <<faults, missed>>

WriteFails(c) ==
  /\ TakeMessage(c)
  /\ faults < MaxFaults /\ faults' = faults + 1
  /\ missed' = missed \cup ({c} \X DOMAIN Head(ch[c]))
  /\ UNCHANGED view

\* A variant that waits on an empty channel although it is closed.
LoopNeverEnds(c) ==
  /\ Alive /\ c \in loop /\ c \in closed /\ ch[c] # <<>>
  /\ loop' = loop \ {c}
  /\ UNCHANGED <<indexVars, cacheVars, subVars, calc, pc, resp, ch, closed,
                 main, view, up, bounds, overlap, silent, missed>>

\* done is closed, or ch is closed and empty.
LoopEnds(c) ==
  /\ Alive /\ c \in loop /\ c \in closed
  /\ loop' = loop \ {c}
  /\ UNCHANGED <<indexVars, cacheVars, subVars, calc, pc, resp, ch, closed,
                 main, view, up, bounds, overlap, silent, missed>>

WriteLoop(c) == Write(c) \/ LoopEnds(c)

-----------------------------------------------------------------------------
(***************************************************************************)
(* runMainLoop, as far as clients are concerned.  A block takes its        *)
(* transactions out of the overlay, then commits; NotifyNewBlock, then the *)
(* scripthashes it affects are marked and announced.  A transaction, and   *)
(* the periodic reconcile, change the overlay and are announced the same   *)
(* way.  CatchUpToTip (blocks or a rollback) and the reconcile after a gap *)
(* of the rawtx stream announce nothing and mark nothing.                  *)
(***************************************************************************)
\* silent: topics whose last change was of that kind.

HasRead(c, t) ==
  \/ t \in DOMAIN resp[c]
  \/ calc[c].sh = t /\ calc[c].at \in {"mem", "store"}

Bump(f, S) == [s \in Scripthash |-> IF s \in S THEN f[s] + 1 ELSE f[s]]

\* The scripthashes in O change in the overlay, all in all T change.
StartChange(kind, O, T) ==
  /\ main.at = "idle" /\ up = "running"
  /\ changes < MaxChanges /\ changes' = changes + 1
  /\ mem' = Bump(mem, O)
  /\ overlap' = (overlap \ T) \cup {t \in T : \E c \in Conn : HasRead(c, t)}
  /\ UNCHANGED <<db, tip, cacheVars, subVars, calc, pc, resp, connVars, view, up,
                 requests, faults, missed>>

IndexTx(S) ==
  /\ StartChange("tx", S, S)
  /\ main' = [Idle EXCEPT !.at = "mark", !.todo = S]
  /\ silent' = silent \ S

IndexBlock(kind, O, S) ==
  /\ StartChange(kind, O, S \cup {Headers})
  /\ main' = [Idle EXCEPT !.at = "commit", !.kind = kind, !.todo = S \cup {Headers}]
  /\ silent' = silent \ (S \cup {Headers})

GapReconcile(S) ==
  /\ StartChange("gap", S, S)
  /\ silent' = silent \cup S
  /\ UNCHANGED main

MainOnly ==
  /\ Alive
  /\ UNCHANGED <<mem, subVars, pc, resp, closed, loop, view, bounds, overlap>>

Commit ==
  /\ main.at = "commit"
  /\ db' = Bump(db, main.todo) /\ tip' = tip + 1
  /\ \/ /\ main.kind = "block"
        /\ main' = [main EXCEPT !.at = "headers"]
        /\ UNCHANGED silent
     \/ /\ main.kind = "catchup"
        /\ main' = Idle
        /\ silent' = silent \cup main.todo
  /\ UNCHANGED <<cacheVars, calc, ch, up, missed>> /\ MainOnly

\* The subscribers are copied under the lock and written to without it.
NotifyNewBlock ==
  /\ main.at = "headers"
  /\ main' = [main EXCEPT !.at = "push", !.topic = Headers,
                          !.conns = Subscribers(Headers)]
  /\ UNCHANGED <<db, tip, cacheVars, calc, ch, up, silent, missed>> /\ MainOnly

\* A variant that marks nothing.
MarkNothing ==
  /\ main.at = "mark"
  /\ main' = [main EXCEPT !.at = "next"]
  /\ UNCHANGED <<db, tip, cacheVars, calc, ch, up, silent, missed>> /\ MainOnly

MarkDirtyMany ==
  /\ main.at = "mark"
  /\ dirty' = dirty \cup main.todo
  /\ main' = [main EXCEPT !.at = "next"]
  /\ UNCHANGED <<db, tip, status, calc, ch, up, silent, missed>> /\ MainOnly

NotifyScripthashStatus(s) ==
  /\ main.at = "next" /\ s \in main.todo
  /\ main' = [main EXCEPT !.at = "compute", !.topic = s]
  /\ calc' = [calc EXCEPT ![Main] = [NotComputing EXCEPT !.at = "lookup", !.sh = s]]
  /\ UNCHANGED <<db, tip, cacheVars, ch, up, silent, missed>> /\ MainOnly

NotifyScripthash ==
  /\ main.at = "compute" /\ calc[Main].at = "done"
  /\ main' = [main EXCEPT !.at = "push", !.conns = Subscribers(main.topic)]
  /\ UNCHANGED <<db, tip, cacheVars, calc, ch, up, silent, missed>> /\ MainOnly

Notification ==
  [t \in {main.topic} |-> IF t = Headers THEN tip ELSE calc[Main].val]

\* TrySend: the check of closed ...
TrySendCheck(c) ==
  /\ main.at = "push" /\ c \in main.conns
  /\ main' = IF c \in closed
             THEN [main EXCEPT !.conns = @ \ {c}]
             ELSE [main EXCEPT !.at = "send", !.to = c, !.conns = @ \ {c}]
  /\ UNCHANGED <<db, tip, cacheVars, calc, ch, up, silent, missed>> /\ MainOnly

\* ... and the send: on a closed channel it panics, on a full one it gives up.
TrySend ==
  /\ main.at = "send"
  /\ main' = [main EXCEPT !.at = "push", !.to = None]
  /\ IF main.to \in closed
     THEN up' = "panicked" /\ UNCHANGED <<ch, missed>>
     ELSE /\ UNCHANGED up
          /\ IF Len(ch[main.to]) < BufSize
             THEN /\ ch' = [ch EXCEPT ![main.to] = Append(@, Notification)]
                  /\ missed' = missed \ {<<main.to, main.topic>>}
             ELSE /\ missed' = missed \cup {<<main.to, main.topic>>}
                  /\ UNCHANGED ch
  /\ UNCHANGED <<db, tip, cacheVars, calc, silent>> /\ MainOnly

\* A variant that stops after the first topic.
AnnouncedOnce ==
  /\ main.at = "push" /\ main.conns = {}
  /\ main' = [main EXCEPT !.at = IF main.topic = Headers THEN "mark" ELSE "next",
                          !.topic = None, !.todo = {}]
  /\ calc' = [calc EXCEPT ![Main] = NotComputing]
  /\ UNCHANGED <<db, tip, cacheVars, ch, up, silent, missed>> /\ MainOnly

Announced ==
  /\ main.at = "push" /\ main.conns = {}
  /\ main' = [main EXCEPT !.at = IF main.topic = Headers THEN "mark" ELSE "next",
                          !.topic = None, !.todo = @ \ {main.topic}]
  /\ calc' = [calc EXCEPT ![Main] = NotComputing]
  /\ UNCHANGED <<db, tip, cacheVars, ch, up, silent, missed>> /\ MainOnly

LoopAgain ==
  /\ main.at = "next" /\ main.todo = {}
  /\ main' = Idle
  /\ UNCHANGED <<db, tip, cacheVars, calc, ch, up, silent, missed>> /\ MainOnly

MainStep ==
  \/ Commit \/ NotifyNewBlock \/ MarkDirtyMany
  \/ \E s \in Scripthash : NotifyScripthashStatus(s)
  \/ Compute(Main) \/ NotifyScripthash
  \/ \E c \in Conn : TrySendCheck(c)
  \/ TrySend \/ Announced \/ LoopAgain

\* The main loop has returned and Server.Stop cancels the context; the process
\* ends when all connections are closed, or ten seconds later.
Stop ==
  /\ main.at = "idle" /\ up = "running"
  /\ up' = "stopping"
  /\ UNCHANGED <<indexVars, cacheVars, subVars, calc, pc, resp, connVars, main, view,
                 bounds, overlap, silent, missed>>

-----------------------------------------------------------------------------
Client(c) ==
  \/ Accept(c) \/ Leave(c) \/ HandleHeadersSubscribe(c)
  \/ \E s \in Scripthash : \/ HandleScripthashSubscribe(c, s)
                            \/ HandleScripthashUnsubscribe(c, s)

Change ==
  \/ \E S \in SUBSET Scripthash \ {{}} : IndexTx(S) \/ GapReconcile(S)
  \/ \E S \in SUBSET Scripthash : \E O \in SUBSET S :
        IndexBlock("block", O, S) \/ IndexBlock("catchup", O, S)

Next ==
  \/ \E c \in Conn : \/ Client(c) \/ Handler(c) \/ Compute(c)
                     \/ WriteLoop(c) \/ WriteFails(c)
  \/ Change \/ MainStep \/ Stop

Spec == Init /\ [][Next]_vars

\* Fairness: a goroutine that can go on goes on.  Clients, the chain and the
\* operator owe nothing.
Fairness ==
  /\ WF_vars(MainStep)
  /\ \A c \in Conn : /\ WF_vars(Handler(c) \/ Compute(c))
                     /\ WF_vars(WriteLoop(c))

FairSpec == Spec /\ Fairness

-----------------------------------------------------------------------------
\* SubscriptionsAgree: the two maps are inverses of one another without empty
\* entries, so that Unsubscribe finds all of a connection's subscriptions; and
\* only a connection whose goroutine has still to unsubscribe has any.
SubscriptionsAgree ==
  /\ \A c \in Conn, s \in Scripthash :
       c \in Entry(scripthashSubs, s) <=> s \in Entry(connScripthash, c)
  /\ \A s \in DOMAIN scripthashSubs : scripthashSubs[s] # {}
  /\ \A c \in DOMAIN connScripthash : connScripthash[c] # {}
  /\ \A c \in Conn : pc[c] \in {"new", "close", "wait", "gone"} =>
       c \notin headerSubs \cup DOMAIN connScripthash

\* The change of s is made, or begun, and not yet marked.
Unmarked(s) ==
  s \in main.todo /\ (main.at \in {"commit", "headers", "mark"} \/ main.topic = Headers)

\* StaleExplained: a status the cache would hand out is the present one, unless
\* its change is not marked yet, was made by catch-up or a gap reconcile, or a
\* request read the history while it changed.
StaleExplained ==
  \A s \in Scripthash :
    Clean(s) /\ status[s] # Current(s) => Unmarked(s) \/ s \in silent \cup overlap

\* What a client can know of a topic; of the header only once there is one.
Present(t) ==
  IF t # Headers THEN Current(t) ELSE IF tip = 0 THEN None ELSE tip

\* Every subscriber of a topic in T that missed no message has its state.
Told(T) == \A t \in T : \A c \in Subscribers(t) :
             <<c, t>> \in missed \/ view[c][t] = Present(t)

\* ClientsCurrent: with no more changes, every subscriber comes to have the
\* present status and header, of topics last changed in public and not while a
\* request was at them, and of which it missed no message.
ClientsCurrent == <>[](up = "running" => Told(Topic \ (silent \cup overlap)))

\* CloseEnds: a connection being closed is closed in the end, although Close
\* waits for a write loop that may be in the middle of its queue.
CloseEnds ==
  \A c \in Conn : pc[c] = "leave" ~> (pc[c] = "gone" \/ up = "panicked")

\* RegistrySpec: the three maps together implement one relation of who is
\* subscribed to what.
Subscribed == {ct \in Conn \X Topic : ct[1] \in Subscribers(ct[2])}

Dropped == {c \in Conn : pc[c] \in {"close", "wait", "gone"}}

Registry == INSTANCE Registry WITH subs <- Subscribed, gone <- Dropped

RegistrySpec == Registry!Spec

-----------------------------------------------------------------------------
(***************************************************************************)
(* What documents say and the code does not do (see README).               *)
(***************************************************************************)

\* NoPanic: TrySend to a connection that is being closed does no harm.
NoPanic == up # "panicked"

\* ToldDespiteRequests: "Electrum protocol v1.4 support" (README.md): a client
\* that subscribed comes to know the present status of what changed in public,
\* a request that read the history at that moment notwithstanding.
ToldDespiteRequests == <>[](up = "running" => Told(Topic \ silent))

\* ToldOfCatchUp: the same of what catch-up or a reconcile after a gap changed,
\* no request being at it.
ToldOfCatchUp == <>[](up = "running" => Told(Topic \ overlap))
=============================================================================
