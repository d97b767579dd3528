--------------------------- MODULE SessionsProofs ---------------------------
(***************************************************************************)
(* Proofs about Sessions, for any number of connections and scripthashes,  *)
(* any limits and any bounds.                                              *)
(***************************************************************************)
EXTENDS Sessions, TLAPS

Value == Status \cup Nat

\* What goes to a client: a value for some topics.
Msg == UNION {[T -> Value] : T \in SUBSET Topic}

CalcState ==
  [at : {"no", "lookup", "db", "mem", "store", "done"},
   sh : Scripthash \cup {None}, val : Status]

IndexTypes == db \in [Scripthash -> Nat] /\ mem \in [Scripthash -> Nat] /\ tip \in Nat

CacheTypes ==
  /\ DOMAIN status \subseteq Scripthash
  /\ \A s \in DOMAIN status : status[s] \in Status
  /\ dirty \subseteq Scripthash

SubTypes ==
  /\ DOMAIN scripthashSubs \subseteq Scripthash
  /\ \A s \in DOMAIN scripthashSubs : scripthashSubs[s] \subseteq Conn
  /\ DOMAIN connScripthash \subseteq Conn
  /\ \A c \in DOMAIN connScripthash : connScripthash[c] \subseteq Scripthash
  /\ headerSubs \subseteq Conn

\* A goroutine at ComputeScripthashStatusHex has a scripthash; a connection's
\* is there only from its subscribe request.
CalcTypes ==
  /\ calc \in [Goroutine -> CalcState]
  /\ \A g \in Goroutine : calc[g].at # "no" => calc[g].sh \in Scripthash
  /\ pc \in [Conn -> Positions]
  /\ \A c \in Conn : calc[c].at # "no" => pc[c] = "compute"

QueueTypes ==
  /\ resp \in [Conn -> Msg]
  /\ ch \in [Conn -> Seq(Msg)]
  /\ \A c \in Conn : Len(ch[c]) <= BufSize

\* The main loop: whom and what it is about to send, and that it computes a
\* status at one place only.
MainTypes ==
  /\ main \in MainState
  /\ main.at \in {"idle", "commit", "headers", "mark", "next"} => main.topic = None
  /\ main.at = "mark" => Headers \notin main.todo
  /\ main.at = "compute" => main.topic \in Scripthash
  /\ main.at \in {"push", "send"} => main.topic \in Topic
  /\ main.at = "send" => main.to \in Conn
  /\ calc[Main].at \in {"lookup", "db", "mem", "store"} => main.at = "compute"

RestTypes ==
  /\ closed \subseteq Conn /\ loop \subseteq Conn
  /\ DOMAIN view = Conn
  /\ up \in {"running", "stopping", "panicked"}
  /\ requests \in 0 .. MaxRequests /\ changes \in 0 .. MaxChanges
  /\ faults \in 0 .. MaxFaults
  /\ overlap \subseteq Topic /\ silent \subseteq Topic
  /\ missed \subseteq Conn \X Topic

Types ==
  /\ IndexTypes /\ CacheTypes /\ SubTypes /\ CalcTypes
  /\ QueueTypes /\ MainTypes /\ RestTypes

\* What a request has read of a history that has changed since, or is about to
\* in a batch being committed, is noted in overlap or silent.
RequestsNoted ==
  \A c \in Conn : calc[c].at \in {"mem", "store"} =>
    LET s == calc[c].sh IN
    \/ s \in overlap \cup silent
    \/ /\ calc[c].val.db = db[s]
       /\ calc[c].at = "store" => calc[c].val.mem = mem[s]
       /\ main.at = "commit" => s \notin main.todo

\* What the main loop has read is the present history: it makes the changes.
MainExact ==
  calc[Main].at \in {"mem", "store"} =>
    /\ calc[Main].val.db = db[calc[Main].sh]
    /\ calc[Main].at = "store" => calc[Main].val.mem = mem[calc[Main].sh]

Fresh == StaleExplained /\ RequestsNoted /\ MainExact

Inductive == Types /\ SubscriptionsAgree /\ Fresh

-----------------------------------------------------------------------------
(***************************************************************************)
(* Messages and maps.                                                      *)
(***************************************************************************)
\* MsgDomain: a message is about topics.
LEMMA MsgDomain == \A m \in Msg : DOMAIN m \subseteq Topic
  BY DEF Msg

\* PutMsg: an answer added to a message.
LEMMA PutMsg ==
  ASSUME NEW m \in Msg, NEW t \in Topic, NEW v \in Value
  PROVE  Put(m, t, v) \in Msg
  <1>1. PICK T \in SUBSET Topic : m \in [T -> Value]
    BY DEF Msg
  <1>2. Put(m, t, v) \in [T \cup {t} -> Value]
    BY <1>1 DEF Put
  <1>3. QED
    BY <1>1, <1>2 DEF Msg

\* EmptyMsg: a batch starts without answers.
LEMMA EmptyMsg == EmptyMap \in Msg
  <1>1. EmptyMap \in [{} -> Value]
    BY DEF EmptyMap
  <1>2. QED
    BY <1>1 DEF Msg

\* TypesImplyTypeOK: the types proved are at least those TLC checks.
LEMMA TypesImplyTypeOK == Types => TypeOK
  <1> SUFFICES ASSUME Types PROVE TypeOK
    OBVIOUS
  <1>1. \A c \in Conn : DOMAIN resp[c] \subseteq Topic
    BY MsgDomain DEF Types, QueueTypes
  <1>2. \A c \in Conn : Len(ch[c]) \in 0 .. BufSize
    BY SessionAssumption DEF Types, QueueTypes
  <1>3. QED
    BY <1>1, <1>2
    DEF Types, IndexTypes, CacheTypes, SubTypes, CalcTypes, CalcState, MainTypes, RestTypes,
        TypeOK

\* InitInductive: nobody is connected and nothing is cached.
LEMMA InitInductive == Init => Inductive
  <1> SUFFICES ASSUME Init PROVE Inductive
    OBVIOUS
  <1>1. IndexTypes /\ CacheTypes /\ SubTypes
    BY SessionAssumption DEF Init, IndexTypes, CacheTypes, SubTypes, EmptyMap
  <1>2. CalcTypes
    <2>1. NotComputing \in CalcState /\ NotComputing.at = "no"
      BY DEF NotComputing, CalcState, Status
    <2>2. calc \in [Goroutine -> CalcState] /\ \A g \in Goroutine : calc[g].at = "no"
      BY <2>1 DEF Init
    <2>3. pc \in [Conn -> Positions]
      BY DEF Init, Positions
    <2>4. QED
      BY <2>2, <2>3 DEF CalcTypes, Goroutine
  <1>3. QueueTypes
    BY EmptyMsg, SessionAssumption DEF Init, QueueTypes
  <1>4. MainTypes
    <2>1. Idle \in MainState /\ Idle.at = "idle" /\ Idle.topic = None
      BY DEF Idle, MainState
    <2>2. calc[Main].at = "no"
      BY DEF Init, NotComputing, Goroutine
    <2>3. QED
      BY <2>1, <2>2 DEF Init, MainTypes
  <1>5. RestTypes
    BY SessionAssumption DEF Init, RestTypes
  <1>6. SubscriptionsAgree
    BY DEF Init, SubscriptionsAgree, Entry, EmptyMap
  <1>7. Fresh
    <2>1. \A g \in Goroutine : calc[g].at = "no"
      BY DEF Init, NotComputing
    <2>2. \A s \in Scripthash : ~Clean(s)
      BY DEF Init, Clean, EmptyMap
    <2>3. QED
      BY <2>1, <2>2 DEF Fresh, StaleExplained, RequestsNoted, MainExact, Goroutine
  <1>8. QED
    BY <1>1, <1>2, <1>3, <1>4, <1>5, <1>6, <1>7 DEF Inductive, Types

-----------------------------------------------------------------------------
(***************************************************************************)
(* What an action leaves alone.                                            *)
(***************************************************************************)
\* IndexFrame: the histories and the tip are unchanged.
LEMMA IndexFrame == IndexTypes /\ UNCHANGED indexVars => IndexTypes'
  BY DEF IndexTypes, indexVars

\* CacheFrame: the status cache is unchanged.
LEMMA CacheFrame == CacheTypes /\ UNCHANGED cacheVars => CacheTypes'
  BY DEF CacheTypes, cacheVars

\* SubFrame: the subscription maps are unchanged.
LEMMA SubFrame == SubTypes /\ UNCHANGED subVars => SubTypes'
  BY DEF SubTypes, subVars

\* CalcFrame: no goroutine's call or position changes.
LEMMA CalcFrame == CalcTypes /\ UNCHANGED <<calc, pc>> => CalcTypes'
  BY DEF CalcTypes

\* QueueFrame: answers and queues are unchanged.
LEMMA QueueFrame == QueueTypes /\ UNCHANGED <<resp, ch>> => QueueTypes'
  BY DEF QueueTypes

\* MainFrame: the main loop's position and calls are unchanged.
LEMMA MainFrame == MainTypes /\ UNCHANGED <<main, calc>> => MainTypes'
  BY DEF MainTypes

\* RestFrame: the remaining variables are unchanged.
LEMMA RestFrame ==
  RestTypes /\ UNCHANGED <<closed, loop, view, up, bounds, overlap, silent, missed>>
  => RestTypes'
  BY DEF RestTypes, bounds

\* AgreeFrame: nobody unsubscribes and no goroutine passes the point where it does.
LEMMA AgreeFrame ==
  ASSUME SubscriptionsAgree, UNCHANGED subVars,
         \A c \in Conn : pc'[c] \in {"new", "close", "wait", "gone"} =>
           pc[c] \in {"new", "close", "wait", "gone"}
  PROVE  SubscriptionsAgree'
  BY DEF SubscriptionsAgree, subVars, Entry

\* FreshFrame: nothing that decides whether a status is right changes.
LEMMA FreshFrame ==
  Fresh /\ UNCHANGED <<db, mem, cacheVars, calc, main, overlap, silent>> => Fresh'
  BY DEF Fresh, StaleExplained, RequestsNoted, MainExact, Clean, Current, Unmarked, cacheVars

\* StaleFrame: a step that changes neither histories nor cache.
LEMMA StaleFrame ==
  ASSUME StaleExplained, UNCHANGED <<db, mem, cacheVars>>,
         overlap \subseteq overlap', silent \subseteq silent',
         \A s \in Scripthash : Unmarked(s) => Unmarked(s)' \/ s \in silent'
  PROVE  StaleExplained'
  BY DEF StaleExplained, Clean, Current, cacheVars

-----------------------------------------------------------------------------
(***************************************************************************)
(* ComputeScripthashStatusHex.                                             *)
(***************************************************************************)
\* GoroutineFacts: the main loop is not a connection.
LEMMA GoroutineFacts ==
  /\ Main \in Goroutine /\ Main \notin Conn /\ Conn \subseteq Goroutine
  /\ \A g \in Goroutine : g \notin Conn => g = Main
  BY SessionAssumption DEF Goroutine

\* ReturnKeeps: the end of a call gives a connection its answer, the main loop
\* its status, and leaves the other goroutines' calls alone.
LEMMA ReturnKeeps ==
  ASSUME Types, NEW g \in Goroutine, calc[g].at \in {"lookup", "store"},
         NEW v \in Status, Return(g, v)
  PROVE  /\ CalcTypes'
         /\ resp' \in [Conn -> Msg]
         /\ \A h \in Goroutine : h # g => calc'[h] = calc[h]
         /\ calc'[g].at \in {"no", "done"}
         /\ \A c \in Conn : pc'[c] = pc[c] \/ pc'[c] = "batch"
  <1> USE GoroutineFacts
  <1>1. calc[g] \in CalcState /\ calc[g].sh \in Scripthash
    BY DEF Types, CalcTypes
  <1>2. CASE g \in Conn
    <2>1. /\ calc' = [calc EXCEPT ![g] = NotComputing]
          /\ resp' = [resp EXCEPT ![g] = Put(@, calc[g].sh, v)]
          /\ pc' = [pc EXCEPT ![g] = "batch"]
      BY <1>2 DEF Return
    <2>2. NotComputing \in CalcState /\ NotComputing.at = "no"
      BY DEF NotComputing, CalcState, Status
    <2>3. Put(resp[g], calc[g].sh, v) \in Msg
      <3>1. resp[g] \in Msg /\ calc[g].sh \in Topic /\ v \in Value
        BY <1>1, <1>2 DEF Types, QueueTypes, Topic, Value
      <3>2. QED
        BY <3>1, PutMsg
    <2>4. resp' \in [Conn -> Msg]
      BY <2>1, <2>3 DEF Types, QueueTypes
    <2>5. calc' \in [Goroutine -> CalcState] /\ calc'[g].at = "no"
      BY <2>1, <2>2 DEF Types, CalcTypes
    <2>6. \A h \in Goroutine : h # g => calc'[h] = calc[h]
      BY <2>1 DEF Types, CalcTypes
    <2>7. pc' \in [Conn -> Positions] /\ \A c \in Conn : pc'[c] = IF c = g THEN "batch" ELSE pc[c]
      BY <2>1 DEF Types, CalcTypes, Positions
    <2>8. CalcTypes'
      BY <2>5, <2>6, <2>7 DEF Types, CalcTypes
    <2>9. QED
      BY <2>4, <2>5, <2>6, <2>7, <2>8
  <1>3. CASE g \notin Conn
    <2>1. /\ calc' = [calc EXCEPT ![g].at = "done", ![g].val = v]
          /\ UNCHANGED <<resp, pc>>
      BY <1>3 DEF Return
    <2>2. calc'[g] = [calc[g] EXCEPT !.at = "done", !.val = v]
      BY <2>1 DEF Types, CalcTypes
    <2>3. calc'[g] \in CalcState /\ calc'[g].at = "done" /\ calc'[g].sh = calc[g].sh
      BY <2>2, <1>1 DEF CalcState
    <2>4. \A h \in Goroutine : h # g => calc'[h] = calc[h]
      BY <2>1 DEF Types, CalcTypes
    <2>5. calc' \in [Goroutine -> CalcState]
      BY <2>1, <2>3, <2>4 DEF Types, CalcTypes
    <2>6. CalcTypes'
      BY <2>1, <2>3, <2>4, <2>5, <1>1, <1>3 DEF Types, CalcTypes
    <2>7. QED
      BY <2>1, <2>3, <2>4, <2>6 DEF Types, QueueTypes
  <1>4. QED
    BY <1>2, <1>3

\* NoteKeeps: what a read adds to overlap is a topic.
LEMMA NoteKeeps ==
  ASSUME Types, NEW g, NEW t \in Topic, NoteRead(g, t)
  PROVE  /\ overlap \subseteq overlap' /\ overlap' \subseteq Topic
         /\ g \in Conn /\ t \in main.todo => t \in overlap'
  BY DEF NoteRead, Types, RestTypes

\* GetIfCleanStep: an answer from the cache, or the beginning of the reads.
LEMMA GetIfCleanStep ==
  ASSUME Inductive, NEW g \in Goroutine, GetIfClean(g)
  PROVE  Inductive'
  <1> USE GoroutineFacts
  <1> DEFINE s == calc[g].sh
  <1>1. s \in Scripthash /\ s \in Topic /\ calc[g].at = "lookup" /\ calc[g] \in CalcState
    BY DEF GetIfClean, Inductive, Types, CalcTypes, Topic
  <1>2. UNCHANGED <<cacheVars, indexVars, subVars, connVars, main, view, up, bounds, silent, missed>>
    BY DEF GetIfClean, Elsewhere
  <1>3. /\ CalcTypes' /\ resp' \in [Conn -> Msg]
        /\ \A h \in Goroutine : h # g => calc'[h] = calc[h]
        /\ calc'[g].at \in {"no", "done", "db"}
        /\ \A c \in Conn : pc'[c] = pc[c] \/ pc'[c] = "batch"
        /\ overlap \subseteq overlap' /\ overlap' \subseteq Topic
        /\ g = Main /\ calc'[g].at = "db" => main.at = "compute"
    <2>1. CASE Clean(s)
      <3>1. Return(g, status[s]) /\ NoteRead(g, s)
        BY <2>1 DEF GetIfClean
      <3>2. status[s] \in Status
        BY <2>1 DEF Clean, Inductive, Types, CacheTypes
      <3>3. QED
        BY <1>1, <3>1, <3>2, ReturnKeeps, NoteKeeps DEF Inductive
    <2>2. CASE ~Clean(s)
      <3>1. calc' = [calc EXCEPT ![g].at = "db"] /\ UNCHANGED <<resp, pc, overlap>>
        BY <2>2 DEF GetIfClean
      <3>2. calc'[g] = [calc[g] EXCEPT !.at = "db"]
        BY <3>1 DEF Inductive, Types, CalcTypes
      <3>3. calc'[g] \in CalcState /\ calc'[g].at = "db" /\ calc'[g].sh = s
        BY <3>2, <1>1 DEF CalcState
      <3>4. \A h \in Goroutine : h # g => calc'[h] = calc[h]
        BY <3>1 DEF Inductive, Types, CalcTypes
      <3>5. calc' \in [Goroutine -> CalcState]
        BY <3>1, <3>3, <3>4 DEF Inductive, Types, CalcTypes
      <3>6. CalcTypes'
        BY <3>1, <3>3, <3>4, <3>5, <1>1 DEF Inductive, Types, CalcTypes
      <3>7. QED
        BY <3>1, <3>3, <3>4, <3>6, <1>1
        DEF Inductive, Types, QueueTypes, RestTypes, MainTypes
    <2>3. QED
      BY <2>1, <2>2
  <1>4. IndexTypes' /\ CacheTypes' /\ SubTypes'
    BY <1>2, IndexFrame, CacheFrame, SubFrame DEF Inductive, Types
  <1>5. QueueTypes'
    BY <1>2, <1>3 DEF Inductive, Types, QueueTypes, connVars
  <1>6. MainTypes'
    BY <1>2, <1>3 DEF Inductive, Types, MainTypes
  <1>7. RestTypes'
    BY <1>2, <1>3 DEF Inductive, Types, RestTypes, connVars, bounds
  <1>8. SubscriptionsAgree'
    BY <1>2, <1>3, AgreeFrame DEF Inductive
  <1>9. Fresh'
    <2>1. StaleExplained'
      BY <1>2, <1>3, StaleFrame DEF Inductive, Fresh, Unmarked, indexVars
    <2>2. RequestsNoted'
      BY <1>2, <1>3 DEF Inductive, Fresh, RequestsNoted, indexVars
    <2>3. MainExact'
      BY <1>2, <1>3 DEF Inductive, Fresh, MainExact, indexVars
    <2>4. QED
      BY <2>1, <2>2, <2>3 DEF Fresh
  <1>10. QED
    BY <1>3, <1>4, <1>5, <1>6, <1>7, <1>8, <1>9 DEF Inductive, Types

\* ReadStep: a read of one of the two histories.  A connection's is noted if the
\* history is changing; the main loop's is exact.
LEMMA ReadStep ==
  ASSUME Inductive, NEW g \in Goroutine, ReadConfirmed(g) \/ ReadMempool(g)
  PROVE  Inductive'
  <1> USE GoroutineFacts
  <1> DEFINE s == calc[g].sh
  <1>1. s \in Scripthash /\ s \in Topic /\ calc[g] \in CalcState /\ calc[g].at \in {"db", "mem"}
    BY DEF ReadConfirmed, ReadMempool, Inductive, Types, CalcTypes, Topic
  <1>2. UNCHANGED <<resp, pc, cacheVars, indexVars, subVars, connVars, main, view, up, bounds,
                    silent, missed>>
    BY DEF ReadConfirmed, ReadMempool, Elsewhere
  <1>3. db[s] \in Nat /\ mem[s] \in Nat
    BY <1>1 DEF Inductive, Types, IndexTypes
  <1>4. /\ overlap \subseteq overlap' /\ overlap' \subseteq Topic
        /\ g \in Conn /\ s \in main.todo => s \in overlap'
    <2>1. NoteRead(g, s)
      BY DEF ReadConfirmed, ReadMempool
    <2>2. QED
      BY <1>1, <2>1, NoteKeeps DEF Inductive
  <1>5. /\ calc' \in [Goroutine -> CalcState] /\ calc'[g].sh = s
        /\ \A h \in Goroutine : h # g => calc'[h] = calc[h]
        /\ \/ calc[g].at = "db" /\ calc'[g].at = "mem" /\ calc'[g].val.db = db[s]
           \/ /\ calc[g].at = "mem" /\ calc'[g].at = "store" /\ calc'[g].val.mem = mem[s]
              /\ calc'[g].val.db = calc[g].val.db
    <2>1. CASE ReadConfirmed(g)
      <3>1. calc' = [calc EXCEPT ![g].at = "mem", ![g].val.db = db[s]] /\ calc[g].at = "db"
        BY <2>1 DEF ReadConfirmed
      <3>2. calc'[g] = [calc[g] EXCEPT !.at = "mem", !.val.db = db[s]]
        BY <3>1 DEF Inductive, Types, CalcTypes
      <3>3. calc'[g] \in CalcState /\ calc'[g].at = "mem" /\ calc'[g].sh = s
        <4> DEFINE v == [calc[g].val EXCEPT !.db = db[s]]
        <4>1. v \in Status
          BY <1>1, <1>3 DEF CalcState, Status
        <4>2. calc'[g] = [calc[g] EXCEPT !.at = "mem", !.val = v]
          BY <3>2
        <4> HIDE DEF v
        <4>3. QED
          BY <4>1, <4>2, <1>1 DEF CalcState
      <3>4. calc'[g].val.db = db[s]
        BY <3>2, <1>1, <1>3 DEF CalcState, Status
      <3>5. \A h \in Goroutine : h # g => calc'[h] = calc[h]
        BY <3>1 DEF Inductive, Types, CalcTypes
      <3>6. calc' \in [Goroutine -> CalcState]
        BY <3>1, <3>3, <3>5 DEF Inductive, Types, CalcTypes
      <3>7. QED
        BY <3>1, <3>3, <3>4, <3>5, <3>6
    <2>2. CASE ReadMempool(g)
      <3>1. calc' = [calc EXCEPT ![g].at = "store", ![g].val.mem = mem[s]] /\ calc[g].at = "mem"
        BY <2>2 DEF ReadMempool
      <3>2. calc'[g] = [calc[g] EXCEPT !.at = "store", !.val.mem = mem[s]]
        BY <3>1 DEF Inductive, Types, CalcTypes
      <3>3. calc'[g] \in CalcState /\ calc'[g].at = "store" /\ calc'[g].sh = s
        <4> DEFINE v == [calc[g].val EXCEPT !.mem = mem[s]]
        <4>1. v \in Status
          BY <1>1, <1>3 DEF CalcState, Status
        <4>2. calc'[g] = [calc[g] EXCEPT !.at = "store", !.val = v]
          BY <3>2
        <4> HIDE DEF v
        <4>3. QED
          BY <4>1, <4>2, <1>1 DEF CalcState
      <3>4. calc'[g].val.mem = mem[s] /\ calc'[g].val.db = calc[g].val.db
        BY <3>2, <1>1, <1>3 DEF CalcState, Status
      <3>5. \A h \in Goroutine : h # g => calc'[h] = calc[h]
        BY <3>1 DEF Inductive, Types, CalcTypes
      <3>6. calc' \in [Goroutine -> CalcState]
        BY <3>1, <3>3, <3>5 DEF Inductive, Types, CalcTypes
      <3>7. QED
        BY <3>1, <3>3, <3>4, <3>5, <3>6
    <2>3. QED
      BY <2>1, <2>2
  <1>6. IndexTypes' /\ CacheTypes' /\ SubTypes' /\ QueueTypes'
    BY <1>2, IndexFrame, CacheFrame, SubFrame, QueueFrame DEF Inductive, Types, connVars
  <1>7. CalcTypes'
    BY <1>1, <1>2, <1>5 DEF Inductive, Types, CalcTypes
  <1>8. MainTypes'
    BY <1>2, <1>5 DEF Inductive, Types, MainTypes
  <1>9. RestTypes'
    BY <1>2, <1>4 DEF Inductive, Types, RestTypes, connVars, bounds
  <1>10. SubscriptionsAgree'
    BY <1>2, AgreeFrame DEF Inductive
  <1>11. StaleExplained'
    BY <1>2, <1>4, StaleFrame DEF Inductive, Fresh, Unmarked, indexVars
  <1>12. RequestsNoted'
    <2> SUFFICES ASSUME NEW c \in Conn, calc'[c].at \in {"mem", "store"},
                        calc'[c].sh \notin overlap' \cup silent'
                 PROVE  /\ calc'[c].val.db = db'[calc'[c].sh]
                        /\ calc'[c].at = "store" => calc'[c].val.mem = mem'[calc'[c].sh]
                        /\ main'.at = "commit" => calc'[c].sh \notin main'.todo
      BY DEF RequestsNoted
    <2>1. CASE c # g
      BY <1>2, <1>4, <1>5, <2>1 DEF Inductive, Fresh, RequestsNoted, indexVars
    <2>2. CASE c = g
      BY <1>2, <1>4, <1>5, <2>2 DEF Inductive, Fresh, RequestsNoted, indexVars
    <2>3. QED
      BY <2>1, <2>2
  <1>13. MainExact'
    BY <1>2, <1>5 DEF Inductive, Fresh, MainExact, indexVars
  <1>14. QED
    BY <1>6, <1>7, <1>8, <1>9, <1>10, <1>11, <1>12, <1>13 DEF Inductive, Types, Fresh

\* SetCleanStep: what is stored is the present status or is noted as doubtful.
LEMMA SetCleanStep ==
  ASSUME Inductive, NEW g \in Goroutine, SetClean(g)
  PROVE  Inductive'
  <1> USE GoroutineFacts
  <1> DEFINE s == calc[g].sh
  <1>1. s \in Scripthash /\ calc[g] \in CalcState /\ calc[g].at = "store" /\ calc[g].val \in Status
    BY DEF SetClean, Inductive, Types, CalcTypes, CalcState
  <1>2. UNCHANGED <<overlap, indexVars, subVars, connVars, main, view, up, bounds, silent, missed>>
    BY DEF SetClean, Elsewhere
  <1>3. /\ CalcTypes' /\ resp' \in [Conn -> Msg]
        /\ \A h \in Goroutine : h # g => calc'[h] = calc[h]
        /\ calc'[g].at \in {"no", "done"}
        /\ \A c \in Conn : pc'[c] = pc[c] \/ pc'[c] = "batch"
    <2>1. Return(g, calc[g].val)
      BY DEF SetClean
    <2>2. QED
      BY <1>1, <2>1, ReturnKeeps DEF Inductive
  <1>4. /\ DOMAIN status' = DOMAIN status \cup {s}
        /\ \A x \in DOMAIN status' : status'[x] = IF x = s THEN calc[g].val ELSE status[x]
        /\ dirty' = dirty \ {s}
    BY DEF SetClean, Put
  <1>5. IndexTypes' /\ SubTypes'
    BY <1>2, IndexFrame, SubFrame DEF Inductive, Types
  <1>6. CacheTypes'
    BY <1>1, <1>4 DEF Inductive, Types, CacheTypes
  <1>7. QueueTypes'
    BY <1>2, <1>3 DEF Inductive, Types, QueueTypes, connVars
  <1>8. MainTypes'
    BY <1>2, <1>3 DEF Inductive, Types, MainTypes
  <1>9. RestTypes'
    BY <1>2, RestFrame DEF Inductive, Types, connVars
  <1>10. SubscriptionsAgree'
    BY <1>2, <1>3, AgreeFrame DEF Inductive
  <1>11. s \in overlap \cup silent \/ calc[g].val = Current(s)
    <2>1. s \in overlap \cup silent \/ (calc[g].val.db = db[s] /\ calc[g].val.mem = mem[s])
      BY <1>1 DEF Inductive, Fresh, RequestsNoted, MainExact
    <2>2. calc[g].val = [db |-> calc[g].val.db, mem |-> calc[g].val.mem]
      BY <1>1 DEF Status
    <2>3. QED
      BY <2>1, <2>2 DEF Current
  <1>12. StaleExplained'
    <2> SUFFICES ASSUME NEW x \in Scripthash, Clean(x)', status'[x] # Current(x)'
                 PROVE  Unmarked(x)' \/ x \in silent' \cup overlap'
      BY DEF StaleExplained
    <2>1. Current(x)' = Current(x)
      BY <1>2 DEF Current, indexVars
    <2>2. Unmarked(x)' = Unmarked(x)
      BY <1>2 DEF Unmarked
    <2>3. CASE x = s
      BY <1>2, <1>4, <1>11, <2>1, <2>3 DEF Clean
    <2>4. CASE x # s
      BY <1>2, <1>4, <2>1, <2>2, <2>4 DEF Clean, Inductive, Fresh, StaleExplained
    <2>5. QED
      BY <2>3, <2>4
  <1>13. RequestsNoted'
    BY <1>2, <1>3 DEF Inductive, Fresh, RequestsNoted, indexVars
  <1>14. MainExact'
    BY <1>2, <1>3 DEF Inductive, Fresh, MainExact, indexVars
  <1>15. QED
    BY <1>3, <1>5, <1>6, <1>7, <1>8, <1>9, <1>10, <1>12, <1>13, <1>14
    DEF Inductive, Types, Fresh

-----------------------------------------------------------------------------
(***************************************************************************)
(* Go maps of sets.                                                        *)
(***************************************************************************)
NoEmptyEntry(f) == \A k \in DOMAIN f : f[k] # {}

\* AddEntry: what Add does to the entries.
LEMMA AddEntry ==
  ASSUME NEW f, NEW k, NEW x, NoEmptyEntry(f)
  PROVE  /\ \A j : Entry(Add(f, k, x), j) = IF j = k THEN Entry(f, k) \cup {x} ELSE Entry(f, j)
         /\ DOMAIN Add(f, k, x) = DOMAIN f \cup {k}
         /\ NoEmptyEntry(Add(f, k, x))
  <1>1. DOMAIN Add(f, k, x) = DOMAIN f \cup {k}
    BY DEF Add, Put
  <1>2. \A j \in DOMAIN Add(f, k, x) :
          Add(f, k, x)[j] = IF j = k THEN Entry(f, k) \cup {x} ELSE f[j]
    BY DEF Add, Put
  <1>3. QED
    BY <1>1, <1>2 DEF Entry, NoEmptyEntry

\* DeleteEntry: what Delete does to the entries.
LEMMA DeleteEntry ==
  ASSUME NEW f, NEW k, NEW x, NoEmptyEntry(f)
  PROVE  /\ \A j : Entry(Delete(f, k, x), j) = IF j = k THEN Entry(f, k) \ {x} ELSE Entry(f, j)
         /\ DOMAIN Delete(f, k, x) \subseteq DOMAIN f
         /\ NoEmptyEntry(Delete(f, k, x))
  <1> DEFINE kept == {j \in DOMAIN f : j # k \/ f[j] # {x}}
  <1>1. DOMAIN Delete(f, k, x) = kept
    BY DEF Delete
  <1>2. \A j \in kept : Delete(f, k, x)[j] = IF j = k THEN f[j] \ {x} ELSE f[j]
    BY DEF Delete
  <1>3. \A j : Entry(Delete(f, k, x), j) = IF j = k THEN Entry(f, k) \ {x} ELSE Entry(f, j)
    BY <1>1, <1>2 DEF Entry
  <1>4. NoEmptyEntry(Delete(f, k, x))
    BY <1>1, <1>2 DEF NoEmptyEntry
  <1>5. QED
    BY <1>1, <1>3, <1>4

\* MapType: the types of a map, by its entries.
LEMMA MapType ==
  ASSUME NEW f, NEW K, NEW V, DOMAIN f \subseteq K
  PROVE  (\A k \in DOMAIN f : f[k] \subseteq V) <=> (\A k \in K : Entry(f, k) \subseteq V)
  BY DEF Entry

\* SubscribeAgrees: one more pair in both maps.
LEMMA SubscribeAgrees ==
  ASSUME SubTypes, SubscriptionsAgree, NEW c \in Conn, NEW s \in Scripthash,
         SubscribeScripthash(c, s),
         pc' = [pc EXCEPT ![c] = "compute"], pc \in [Conn -> Positions],
         pc[c] \in {"serve", "batch"}
  PROVE  SubTypes' /\ SubscriptionsAgree'
  <1>1. NoEmptyEntry(scripthashSubs) /\ NoEmptyEntry(connScripthash)
    BY DEF SubscriptionsAgree, NoEmptyEntry
  <1>2. /\ scripthashSubs' = Add(scripthashSubs, s, c)
        /\ connScripthash' = Add(connScripthash, c, s)
        /\ headerSubs' = headerSubs
    BY DEF SubscribeScripthash
  <1>3. /\ \A j : Entry(scripthashSubs', j) = IF j = s THEN Entry(scripthashSubs, s) \cup {c}
                                               ELSE Entry(scripthashSubs, j)
        /\ DOMAIN scripthashSubs' = DOMAIN scripthashSubs \cup {s}
        /\ NoEmptyEntry(scripthashSubs')
    <2> DEFINE f == scripthashSubs
    <2>1. NoEmptyEntry(f)
      BY <1>1
    <2>2. scripthashSubs' = Add(f, s, c)
      BY <1>2
    <2> HIDE DEF f
    <2>3. /\ \A j : Entry(Add(f, s, c), j) =
                   IF j = s THEN Entry(f, s) \cup {c} ELSE Entry(f, j)
          /\ DOMAIN Add(f, s, c) = DOMAIN f \cup {s}
          /\ NoEmptyEntry(Add(f, s, c))
      BY ONLY <2>1, AddEntry
    <2>4. QED
      BY ONLY <2>2, <2>3 DEF f
  <1>4. /\ \A j : Entry(connScripthash', j) = IF j = c THEN Entry(connScripthash, c) \cup {s}
                                               ELSE Entry(connScripthash, j)
        /\ DOMAIN connScripthash' = DOMAIN connScripthash \cup {c}
        /\ NoEmptyEntry(connScripthash')
    <2> DEFINE f == connScripthash
    <2>1. NoEmptyEntry(f)
      BY <1>1
    <2>2. connScripthash' = Add(f, c, s)
      BY <1>2
    <2> HIDE DEF f
    <2>3. /\ \A j : Entry(Add(f, c, s), j) =
                   IF j = c THEN Entry(f, c) \cup {s} ELSE Entry(f, j)
          /\ DOMAIN Add(f, c, s) = DOMAIN f \cup {c}
          /\ NoEmptyEntry(Add(f, c, s))
      BY ONLY <2>1, AddEntry
    <2>4. QED
      BY ONLY <2>2, <2>3 DEF f
  <1>5. SubTypes'
    <2>1. /\ \A k \in Scripthash : Entry(scripthashSubs, k) \subseteq Conn
          /\ \A k \in Conn : Entry(connScripthash, k) \subseteq Scripthash
      BY DEF SubTypes, Entry
    <2>2. /\ \A k \in Scripthash : Entry(scripthashSubs', k) \subseteq Conn
          /\ \A k \in Conn : Entry(connScripthash', k) \subseteq Scripthash
      BY <1>3, <1>4, <2>1
    <2>3. DOMAIN scripthashSubs' \subseteq Scripthash /\ DOMAIN connScripthash' \subseteq Conn
      BY <1>3, <1>4 DEF SubTypes
    <2>4. /\ \A k \in DOMAIN scripthashSubs' : scripthashSubs'[k] \subseteq Conn
          /\ \A k \in DOMAIN connScripthash' : connScripthash'[k] \subseteq Scripthash
      BY <2>2, <2>3, MapType
    <2>5. QED
      BY <1>2, <2>3, <2>4 DEF SubTypes
  <1>6. SubscriptionsAgree'
    <2>1. \A d \in Conn, t \in Scripthash :
            d \in Entry(scripthashSubs', t) <=> t \in Entry(connScripthash', d)
      BY <1>3, <1>4 DEF SubscriptionsAgree
    <2>2. \A d \in Conn : pc'[d] \in {"new", "close", "wait", "gone"} =>
            d \notin headerSubs' \cup DOMAIN connScripthash'
      BY <1>2, <1>4 DEF SubscriptionsAgree
    <2>3. QED
      BY <1>3, <1>4, <2>1, <2>2 DEF SubscriptionsAgree, NoEmptyEntry, Entry
  <1>7. QED
    BY <1>5, <1>6

\* UnsubscribeAgrees: one pair less in both maps.
LEMMA UnsubscribeAgrees ==
  ASSUME SubTypes, SubscriptionsAgree, NEW c \in Conn, NEW s \in Scripthash,
         UnsubscribeScripthash(c, s),
         pc' = [pc EXCEPT ![c] = "batch"], pc \in [Conn -> Positions],
         pc[c] \in {"serve", "batch"}
  PROVE  SubTypes' /\ SubscriptionsAgree'
  <1>1. NoEmptyEntry(scripthashSubs) /\ NoEmptyEntry(connScripthash)
    BY DEF SubscriptionsAgree, NoEmptyEntry
  <1>2. /\ scripthashSubs' = Delete(scripthashSubs, s, c)
        /\ connScripthash' = Delete(connScripthash, c, s)
        /\ headerSubs' = headerSubs
    BY DEF UnsubscribeScripthash
  <1>3. /\ \A j : Entry(scripthashSubs', j) = IF j = s THEN Entry(scripthashSubs, s) \ {c}
                                               ELSE Entry(scripthashSubs, j)
        /\ DOMAIN scripthashSubs' \subseteq DOMAIN scripthashSubs
        /\ NoEmptyEntry(scripthashSubs')
    BY <1>1, <1>2, DeleteEntry
  <1>4. /\ \A j : Entry(connScripthash', j) = IF j = c THEN Entry(connScripthash, c) \ {s}
                                               ELSE Entry(connScripthash, j)
        /\ DOMAIN connScripthash' \subseteq DOMAIN connScripthash
        /\ NoEmptyEntry(connScripthash')
    BY <1>1, <1>2, DeleteEntry
  <1>5. SubTypes'
    <2>1. /\ \A k \in Scripthash : Entry(scripthashSubs, k) \subseteq Conn
          /\ \A k \in Conn : Entry(connScripthash, k) \subseteq Scripthash
      BY DEF SubTypes, Entry
    <2>2. /\ \A k \in Scripthash : Entry(scripthashSubs', k) \subseteq Conn
          /\ \A k \in Conn : Entry(connScripthash', k) \subseteq Scripthash
      BY <1>3, <1>4, <2>1
    <2>3. DOMAIN scripthashSubs' \subseteq Scripthash /\ DOMAIN connScripthash' \subseteq Conn
      BY <1>3, <1>4 DEF SubTypes
    <2>4. /\ \A k \in DOMAIN scripthashSubs' : scripthashSubs'[k] \subseteq Conn
          /\ \A k \in DOMAIN connScripthash' : connScripthash'[k] \subseteq Scripthash
      BY <2>2, <2>3, MapType
    <2>5. QED
      BY <1>2, <2>3, <2>4 DEF SubTypes
  <1>6. SubscriptionsAgree'
    <2>1. \A d \in Conn, t \in Scripthash :
            d \in Entry(scripthashSubs', t) <=> t \in Entry(connScripthash', d)
      BY <1>3, <1>4 DEF SubscriptionsAgree
    <2>2. \A d \in Conn : pc'[d] \in {"new", "close", "wait", "gone"} =>
            d \notin headerSubs' \cup DOMAIN connScripthash'
      BY <1>2, <1>4 DEF SubscriptionsAgree
    <2>3. QED
      BY <1>3, <1>4, <2>1, <2>2 DEF SubscriptionsAgree, NoEmptyEntry, Entry
  <1>7. QED
    BY <1>5, <1>6

\* DropAgrees: Unsubscribe finds all there is of a connection.
LEMMA DropAgrees ==
  ASSUME SubTypes, SubscriptionsAgree, NEW c \in Conn, Unsubscribe(c),
         pc' = [pc EXCEPT ![c] = "close"], pc \in [Conn -> Positions], pc[c] = "leave"
  PROVE  /\ SubTypes' /\ SubscriptionsAgree'
         /\ \A s \in Scripthash : Entry(scripthashSubs', s) = Entry(scripthashSubs, s) \ {c}
  <1> DEFINE mine == Entry(connScripthash, c)
             kept == {s \in DOMAIN scripthashSubs : s \notin mine \/ scripthashSubs[s] # {c}}
  <1>1. /\ scripthashSubs' = [s \in kept |-> IF s \in mine THEN scripthashSubs[s] \ {c}
                                             ELSE scripthashSubs[s]]
        /\ connScripthash' = Restrict(connScripthash, DOMAIN connScripthash \ {c})
        /\ headerSubs' = headerSubs \ {c}
    BY DEF Unsubscribe
  <1>2. /\ DOMAIN scripthashSubs' = kept
        /\ \A s \in kept : scripthashSubs'[s] = IF s \in mine THEN scripthashSubs[s] \ {c}
                                                ELSE scripthashSubs[s]
    BY <1>1
  <1>3. /\ DOMAIN connScripthash' = DOMAIN connScripthash \ {c}
        /\ \A d \in DOMAIN connScripthash' : connScripthash'[d] = connScripthash[d]
    BY <1>1 DEF Restrict
  <1>4. \A s \in Scripthash : s \in mine <=> c \in Entry(scripthashSubs, s)
    BY DEF SubscriptionsAgree
  <1> HIDE DEF mine
  <1>5. \A s \in Scripthash : Entry(scripthashSubs', s) = Entry(scripthashSubs, s) \ {c}
    <2> SUFFICES ASSUME NEW s \in Scripthash
                 PROVE  Entry(scripthashSubs', s) = Entry(scripthashSubs, s) \ {c}
      OBVIOUS
    <2>1. CASE s \in kept
      BY <1>2, <1>4, <2>1 DEF Entry
    <2>2. CASE s \notin kept
      BY <1>2, <2>2 DEF Entry
    <2>3. QED
      BY <2>1, <2>2
  <1>6. \A d \in Conn : Entry(connScripthash', d) = IF d = c THEN {} ELSE Entry(connScripthash, d)
    BY <1>3 DEF Entry
  <1>7. SubTypes'
    <2>1. /\ DOMAIN scripthashSubs' \subseteq Scripthash /\ DOMAIN connScripthash' \subseteq Conn
          /\ headerSubs' \subseteq Conn
      BY <1>1, <1>2, <1>3 DEF SubTypes
    <2>2. \A s \in DOMAIN scripthashSubs' : scripthashSubs'[s] \subseteq Conn
      BY <1>2 DEF SubTypes
    <2>3. \A d \in DOMAIN connScripthash' : connScripthash'[d] \subseteq Scripthash
      BY <1>3 DEF SubTypes
    <2>4. QED
      BY <2>1, <2>2, <2>3 DEF SubTypes
  <1>8. SubscriptionsAgree'
    <2>1. \A d \in Conn, t \in Scripthash :
            d \in Entry(scripthashSubs', t) <=> t \in Entry(connScripthash', d)
      BY <1>5, <1>6 DEF SubscriptionsAgree
    <2>2. \A d \in Conn : pc'[d] \in {"new", "close", "wait", "gone"} =>
            d \notin headerSubs' \cup DOMAIN connScripthash'
      BY <1>1, <1>3 DEF SubscriptionsAgree
    <2>3. \A s \in DOMAIN scripthashSubs' : scripthashSubs'[s] # {}
      BY <1>2 DEF SubscriptionsAgree
    <2>4. \A d \in DOMAIN connScripthash' : connScripthash'[d] # {}
      BY <1>3 DEF SubscriptionsAgree
    <2>5. QED
      BY <2>1, <2>2, <2>3, <2>4 DEF SubscriptionsAgree, Entry
  <1>9. QED
    BY <1>5, <1>7, <1>8

-----------------------------------------------------------------------------
(***************************************************************************)
(* A connection's goroutines.                                              *)
(***************************************************************************)
\* MoveKeeps: a goroutine that is not computing goes on to another position.
LEMMA MoveKeeps ==
  ASSUME CalcTypes, NEW c \in Conn, pc[c] # "compute", UNCHANGED calc,
         NEW p \in Positions, pc' = [pc EXCEPT ![c] = p]
  PROVE  CalcTypes' /\ \A d \in Conn : pc'[d] = IF d = c THEN p ELSE pc[d]
  BY DEF CalcTypes

\* AcceptStep: a new connection.
LEMMA AcceptStep ==
  ASSUME Inductive, NEW c \in Conn, Accept(c)
  PROVE  Inductive'
  <1>1. /\ pc[c] = "new" /\ pc' = [pc EXCEPT ![c] = "serve"] /\ loop' = loop \cup {c}
        /\ UNCHANGED <<indexVars, cacheVars, subVars, calc, resp, ch, closed, main,
                       view, up, bounds, overlap, silent, missed>>
    BY DEF Accept
  <1>2. CalcTypes' /\ \A d \in Conn : pc'[d] = IF d = c THEN "serve" ELSE pc[d]
    BY <1>1, MoveKeeps DEF Inductive, Types, Positions
  <1>3. IndexTypes' /\ CacheTypes' /\ SubTypes' /\ QueueTypes' /\ MainTypes'
    BY <1>1, IndexFrame, CacheFrame, SubFrame, QueueFrame, MainFrame DEF Inductive, Types
  <1>4. RestTypes'
    BY <1>1 DEF Inductive, Types, RestTypes, bounds
  <1>5. SubscriptionsAgree'
    BY <1>1, <1>2, AgreeFrame DEF Inductive
  <1>6. Fresh'
    BY <1>1, FreshFrame DEF Inductive, indexVars
  <1>7. QED
    BY <1>2, <1>3, <1>4, <1>5, <1>6 DEF Inductive, Types

\* SubscribeStep: the subscription is there before the status is computed.
LEMMA SubscribeStep ==
  ASSUME Inductive, NEW c \in Conn, NEW s \in Scripthash, HandleScripthashSubscribe(c, s)
  PROVE  Inductive'
  <1> USE GoroutineFacts
  <1> DEFINE call == [NotComputing EXCEPT !.at = "lookup", !.sh = s]
  <1>1. /\ pc[c] \in {"serve", "batch"} /\ requests < MaxRequests /\ requests' = requests + 1
        /\ SubscribeScripthash(c, s)
        /\ calc' = [calc EXCEPT ![c] = call] /\ pc' = [pc EXCEPT ![c] = "compute"]
        /\ UNCHANGED <<indexVars, cacheVars, connVars, main, view, up, changes, faults,
                       overlap, silent, missed, resp>>
    BY DEF HandleScripthashSubscribe, NextRequest
  <1>2. call \in CalcState /\ call.at = "lookup" /\ call.sh = s
    BY DEF NotComputing, CalcState, Status
  <1>3. /\ calc' \in [Goroutine -> CalcState] /\ calc'[c].at = "lookup" /\ calc'[c].sh = s
        /\ \A h \in Goroutine : h # c => calc'[h] = calc[h]
    <2> HIDE DEF call
    <2>1. QED
      BY <1>1, <1>2 DEF Inductive, Types, CalcTypes
  <1>4. pc' \in [Conn -> Positions] /\ \A d \in Conn : pc'[d] = IF d = c THEN "compute" ELSE pc[d]
    BY <1>1 DEF Inductive, Types, CalcTypes, Positions
  <1>5. CalcTypes'
    BY <1>3, <1>4 DEF Inductive, Types, CalcTypes
  <1>6. SubTypes' /\ SubscriptionsAgree'
    BY <1>1, SubscribeAgrees DEF Inductive, Types, CalcTypes
  <1>7. IndexTypes' /\ CacheTypes' /\ QueueTypes'
    BY <1>1, IndexFrame, CacheFrame, QueueFrame DEF Inductive, Types, connVars
  <1>8. MainTypes'
    BY <1>1, <1>3 DEF Inductive, Types, MainTypes
  <1>9. RestTypes'
    BY <1>1, SessionAssumption DEF Inductive, Types, RestTypes, connVars
  <1>10. StaleExplained'
    BY <1>1, StaleFrame DEF Inductive, Fresh, Unmarked, indexVars
  <1>11. RequestsNoted'
    BY <1>1, <1>3 DEF Inductive, Fresh, RequestsNoted, indexVars
  <1>12. MainExact'
    BY <1>1, <1>3 DEF Inductive, Fresh, MainExact, indexVars
  <1>13. QED
    BY <1>5, <1>6, <1>7, <1>8, <1>9, <1>10, <1>11, <1>12 DEF Inductive, Types, Fresh

\* RequestStep: the other two requests.
LEMMA RequestStep ==
  ASSUME Inductive, NEW c \in Conn,
         \/ HandleHeadersSubscribe(c)
         \/ \E s \in Scripthash : HandleScripthashUnsubscribe(c, s)
  PROVE  Inductive'
  <1>1. /\ pc[c] \in {"serve", "batch"} /\ requests < MaxRequests /\ requests' = requests + 1
        /\ UNCHANGED <<indexVars, cacheVars, connVars, main, view, up, changes, faults,
                       overlap, silent, missed, calc, resp>>
    BY DEF HandleHeadersSubscribe, HandleScripthashUnsubscribe, NextRequest
  <1>2. CalcTypes' /\ SubTypes' /\ SubscriptionsAgree'
    <2>1. CASE HandleHeadersSubscribe(c)
      <3>1. /\ headerSubs' = headerSubs \cup {c} /\ UNCHANGED <<scripthashSubs, connScripthash>>
            /\ pc' = [pc EXCEPT ![c] = "header"]
        BY <2>1 DEF HandleHeadersSubscribe, SubscribeHeaders
      <3>2. CalcTypes' /\ \A d \in Conn : pc'[d] = IF d = c THEN "header" ELSE pc[d]
        BY <1>1, <3>1, MoveKeeps DEF Inductive, Types, Positions
      <3>3. SubTypes'
        BY <3>1 DEF Inductive, Types, SubTypes
      <3>4. SubscriptionsAgree'
        BY <3>1, <3>2 DEF Inductive, SubscriptionsAgree, Entry
      <3>5. QED
        BY <3>2, <3>3, <3>4
    <2>2. ASSUME NEW s \in Scripthash, HandleScripthashUnsubscribe(c, s)
          PROVE  CalcTypes' /\ SubTypes' /\ SubscriptionsAgree'
      <3>1. UnsubscribeScripthash(c, s) /\ pc' = [pc EXCEPT ![c] = "batch"]
        BY <2>2 DEF HandleScripthashUnsubscribe
      <3>2. CalcTypes'
        BY <1>1, <3>1, MoveKeeps DEF Inductive, Types, Positions
      <3>3. QED
        BY <1>1, <3>1, <3>2, UnsubscribeAgrees DEF Inductive, Types, CalcTypes
    <2>3. QED
      BY <2>1, <2>2
  <1>3. IndexTypes' /\ CacheTypes' /\ QueueTypes' /\ MainTypes'
    BY <1>1, IndexFrame, CacheFrame, QueueFrame, MainFrame DEF Inductive, Types, connVars
  <1>4. RestTypes'
    BY <1>1, SessionAssumption DEF Inductive, Types, RestTypes, connVars
  <1>5. Fresh'
    BY <1>1, FreshFrame DEF Inductive, indexVars
  <1>6. QED
    BY <1>2, <1>3, <1>4, <1>5 DEF Inductive, Types

\* LoadTipStep: the answer to blockchain.headers.subscribe.
LEMMA LoadTipStep ==
  ASSUME Inductive, NEW c \in Conn, LoadTip(c)
  PROVE  Inductive'
  <1>1. /\ pc[c] = "header"
        /\ resp' = resp \/ resp' = [resp EXCEPT ![c] = Put(@, Headers, tip)]
        /\ pc' = [pc EXCEPT ![c] = "batch"] /\ NoteRead(c, Headers)
        /\ UNCHANGED <<calc, cacheVars, indexVars, subVars, connVars, main, view, up, bounds,
                       silent, missed>>
    BY DEF LoadTip, Elsewhere
  <1>2. CalcTypes' /\ \A d \in Conn : pc'[d] = IF d = c THEN "batch" ELSE pc[d]
    BY <1>1, MoveKeeps DEF Inductive, Types, Positions
  <1>3. overlap \subseteq overlap' /\ overlap' \subseteq Topic
    BY <1>1, NoteKeeps DEF Inductive, Topic
  <1>4. QueueTypes'
    <2>1. resp[c] \in Msg /\ Headers \in Topic /\ tip \in Value
      BY DEF Inductive, Types, QueueTypes, IndexTypes, Topic, Value
    <2>2. Put(resp[c], Headers, tip) \in Msg
      BY <2>1, PutMsg
    <2>3. QED
      BY <1>1, <2>2 DEF Inductive, Types, QueueTypes, connVars
  <1>5. IndexTypes' /\ CacheTypes' /\ SubTypes' /\ MainTypes'
    BY <1>1, IndexFrame, CacheFrame, SubFrame, MainFrame DEF Inductive, Types
  <1>6. RestTypes'
    BY <1>1, <1>3 DEF Inductive, Types, RestTypes, connVars, bounds
  <1>7. SubscriptionsAgree'
    BY <1>1, <1>2, AgreeFrame DEF Inductive
  <1>8. StaleExplained'
    BY <1>1, <1>3, StaleFrame DEF Inductive, Fresh, Unmarked, indexVars
  <1>9. RequestsNoted'
    BY <1>1, <1>3 DEF Inductive, Fresh, RequestsNoted, indexVars
  <1>10. MainExact'
    BY <1>1 DEF Inductive, Fresh, MainExact, indexVars
  <1>11. QED
    BY <1>2, <1>4, <1>5, <1>6, <1>7, <1>8, <1>9, <1>10 DEF Inductive, Types, Fresh

\* QueuePut: a message is queued if there is room.
LEMMA QueuePut ==
  ASSUME QueueTypes, NEW c \in Conn, NEW m \in Msg, Len(ch[c]) < BufSize
  PROVE  /\ [ch EXCEPT ![c] = Append(@, m)] \in [Conn -> Seq(Msg)]
         /\ \A d \in Conn : Len([ch EXCEPT ![c] = Append(@, m)][d]) <= BufSize
  <1>1. ch[c] \in Seq(Msg) /\ \A d \in Conn : ch[d] \in Seq(Msg)
    BY DEF QueueTypes
  <1>2. Append(ch[c], m) \in Seq(Msg) /\ Len(Append(ch[c], m)) = Len(ch[c]) + 1
    BY <1>1
  <1>3. Len(Append(ch[c], m)) <= BufSize
    BY <1>1, <1>2, SessionAssumption
  <1>4. QED
    BY <1>1, <1>2, <1>3 DEF QueueTypes

\* SendStep: the answers of a batch go to the queue.
LEMMA SendStep ==
  ASSUME Inductive, NEW c \in Conn, SendResponses(c)
  PROVE  Inductive'
  <1> DEFINE p == IF up = "stopping" THEN "leave" ELSE "serve"
  <1>1. /\ pc[c] = "batch" /\ Len(ch[c]) < BufSize
        /\ ch' = [ch EXCEPT ![c] = Append(@, resp[c])]
        /\ resp' = [resp EXCEPT ![c] = EmptyMap] /\ pc' = [pc EXCEPT ![c] = p]
        /\ missed' \subseteq missed
        /\ UNCHANGED <<indexVars, cacheVars, subVars, calc, closed, loop, main, view, up,
                       bounds, overlap, silent>>
    BY DEF SendResponses
  <1>2. p \in Positions /\ p \in {"serve", "leave"}
    BY DEF Positions
  <1> HIDE DEF p
  <1>3. CalcTypes' /\ \A d \in Conn : pc'[d] = IF d = c THEN p ELSE pc[d]
    BY <1>1, <1>2, MoveKeeps DEF Inductive, Types
  <1>4. QueueTypes'
    <2>1. QueueTypes /\ resp[c] \in Msg
      BY DEF Inductive, Types, QueueTypes
    <2>2. ch' \in [Conn -> Seq(Msg)] /\ \A d \in Conn : Len(ch'[d]) <= BufSize
      BY <1>1, <2>1, QueuePut
    <2>3. resp' \in [Conn -> Msg]
      BY <1>1, <2>1, EmptyMsg DEF QueueTypes
    <2>4. QED
      BY <2>2, <2>3 DEF QueueTypes
  <1>5. IndexTypes' /\ CacheTypes' /\ SubTypes' /\ MainTypes'
    BY <1>1, IndexFrame, CacheFrame, SubFrame, MainFrame DEF Inductive, Types
  <1>6. RestTypes'
    BY <1>1 DEF Inductive, Types, RestTypes, bounds
  <1>7. SubscriptionsAgree'
    BY <1>1, <1>2, <1>3, AgreeFrame DEF Inductive
  <1>8. Fresh'
    BY <1>1, FreshFrame DEF Inductive, indexVars
  <1>9. QED
    BY <1>3, <1>4, <1>5, <1>6, <1>7, <1>8 DEF Inductive, Types

\* CleanupStep: the deferred function of a connection's goroutine.
LEMMA CleanupStep ==
  ASSUME Inductive, NEW c \in Conn,
         Leave(c) \/ Release(c) \/ CloseWriter(c) \/ CloseConn(c)
  PROVE  Inductive'
  <1>1. UNCHANGED <<indexVars, cacheVars, calc, resp, main, up, bounds, overlap, silent>>
    BY DEF Leave, Release, CloseWriter, CloseConn, Cleanup
  <1>2. /\ CalcTypes'
        /\ ~Release(c) => \A d \in Conn : pc'[d] \in {"new", "close", "wait", "gone"} =>
                            pc[d] \in {"new", "close", "wait", "gone"}
    <2>1. \E p \in Positions : pc' = [pc EXCEPT ![c] = p] /\ pc[c] # "compute"
            /\ (~Release(c) => p = "leave" \/ pc[c] \in {"close", "wait"})
      BY DEF Leave, Release, CloseWriter, CloseConn, Cleanup, Positions
    <2>2. QED
      BY <1>1, <2>1, MoveKeeps DEF Inductive, Types
  <1>3. SubTypes' /\ SubscriptionsAgree'
    <2>1. CASE Release(c)
      <3>1. Unsubscribe(c) /\ pc' = [pc EXCEPT ![c] = "close"] /\ pc[c] = "leave"
        BY <2>1 DEF Release, Cleanup
      <3>2. QED
        BY <3>1, DropAgrees DEF Inductive, Types, CalcTypes
    <2>2. CASE ~Release(c)
      <3>1. UNCHANGED subVars
        BY <2>2 DEF Leave, CloseWriter, CloseConn
      <3>2. QED
        BY <1>2, <2>2, <3>1, SubFrame, AgreeFrame DEF Inductive, Types
    <2>3. QED
      BY <2>1, <2>2
  <1>4. IndexTypes' /\ CacheTypes' /\ MainTypes'
    BY <1>1, IndexFrame, CacheFrame, MainFrame DEF Inductive, Types
  <1>5. QueueTypes'
    <2>1. CASE CloseConn(c)
      <3>1. ch' = [ch EXCEPT ![c] = <<>>]
        BY <2>1 DEF CloseConn
      <3>2. <<>> \in Seq(Msg) /\ Len(<<>>) <= BufSize
        BY SessionAssumption
      <3>3. QED
        BY <1>1, <3>1, <3>2 DEF Inductive, Types, QueueTypes
    <2>2. CASE ~CloseConn(c)
      <3>1. UNCHANGED ch
        BY <2>2 DEF Leave, Release, CloseWriter, connVars
      <3>2. QED
        BY <1>1, <3>1, QueueFrame DEF Inductive, Types
    <2>3. QED
      BY <2>1, <2>2
  <1>6. RestTypes'
    <2>1. closed' \subseteq Conn /\ loop' \subseteq Conn
      BY DEF Leave, Release, CloseWriter, CloseConn, connVars, Inductive, Types, RestTypes
    <2>2. DOMAIN view' = Conn
      BY DEF Leave, Release, CloseWriter, CloseConn, Inductive, Types, RestTypes
    <2>3. missed' \subseteq Conn \X Topic
      BY DEF Leave, Release, CloseWriter, CloseConn, Inductive, Types, RestTypes
    <2>4. QED
      BY <1>1, <2>1, <2>2, <2>3 DEF Inductive, Types, RestTypes, bounds
  <1>7. Fresh'
    BY <1>1, FreshFrame DEF Inductive, indexVars
  <1>8. QED
    BY <1>2, <1>3, <1>4, <1>5, <1>6, <1>7 DEF Inductive, Types

\* WriteLoopStep: the goroutine that writes.
LEMMA WriteLoopStep ==
  ASSUME Inductive, NEW c \in Conn, WriteLoop(c) \/ WriteFails(c)
  PROVE  Inductive'
  <1>1. UNCHANGED <<indexVars, cacheVars, subVars, calc, pc, resp, closed, main, up, requests,
                    changes, overlap, silent>>
    BY DEF WriteLoop, Write, WriteFails, LoopEnds, TakeMessage, bounds
  <1>2. IndexTypes' /\ CacheTypes' /\ SubTypes' /\ CalcTypes' /\ MainTypes'
    BY <1>1, IndexFrame, CacheFrame, SubFrame, CalcFrame, MainFrame DEF Inductive, Types
  <1>3. QueueTypes'
    <2>1. CASE TakeMessage(c)
      <3>1. ch' = [ch EXCEPT ![c] = Tail(@)] /\ ch[c] # <<>> /\ ch[c] \in Seq(Msg)
        BY <2>1 DEF TakeMessage, Inductive, Types, QueueTypes
      <3>2. Tail(ch[c]) \in Seq(Msg) /\ Len(Tail(ch[c])) <= Len(ch[c])
        BY <3>1
      <3>3. Len(Tail(ch[c])) <= BufSize
        BY <3>1, <3>2, SessionAssumption DEF Inductive, Types, QueueTypes
      <3>4. QED
        BY <1>1, <3>1, <3>2, <3>3 DEF Inductive, Types, QueueTypes
    <2>2. CASE LoopEnds(c)
      BY <1>1, <2>2, QueueFrame DEF LoopEnds, Inductive, Types
    <2>3. QED
      BY <2>1, <2>2 DEF WriteLoop, Write, WriteFails
  <1>4. RestTypes'
    <2>1. CASE Write(c)
      <3>1. DOMAIN view' = Conn /\ UNCHANGED <<loop, faults, missed>>
        BY <2>1 DEF Write, TakeMessage, Inductive, Types, RestTypes
      <3>2. QED
        BY <1>1, <3>1 DEF Inductive, Types, RestTypes
    <2>2. CASE WriteFails(c)
      <3>1. /\ faults < MaxFaults /\ faults' = faults + 1 /\ UNCHANGED <<loop, view>>
            /\ missed' = missed \cup ({c} \X DOMAIN Head(ch[c])) /\ ch[c] # <<>>
        BY <2>2 DEF WriteFails, TakeMessage
      <3>2. Head(ch[c]) \in Msg
        BY <3>1 DEF Inductive, Types, QueueTypes
      <3>3. DOMAIN Head(ch[c]) \subseteq Topic
        BY <3>2, MsgDomain
      <3>4. missed' \subseteq Conn \X Topic
        BY <3>1, <3>3 DEF Inductive, Types, RestTypes
      <3>5. faults' \in 0 .. MaxFaults
        BY <3>1, SessionAssumption DEF Inductive, Types, RestTypes
      <3>6. QED
        BY <1>1, <3>1, <3>4, <3>5 DEF Inductive, Types, RestTypes
    <2>3. CASE LoopEnds(c)
      BY <2>3 DEF LoopEnds, Inductive, Types, RestTypes, bounds
    <2>4. QED
      BY <2>1, <2>2, <2>3 DEF WriteLoop
  <1>5. SubscriptionsAgree'
    BY <1>1, AgreeFrame DEF Inductive
  <1>6. Fresh'
    BY <1>1, FreshFrame DEF Inductive, indexVars
  <1>7. QED
    BY <1>2, <1>3, <1>4, <1>5, <1>6 DEF Inductive, Types

-----------------------------------------------------------------------------
(***************************************************************************)
(* The main loop.                                                          *)
(***************************************************************************)
\* ChangeKeeps: the beginning of a change of the topics in T, to be announced
\* or not.  What requests have read of them before is noted.
LEMMA ChangeKeeps ==
  ASSUME Inductive, NEW kind, NEW T \in SUBSET Topic, NEW O \in SUBSET (T \cap Scripthash),
         StartChange(kind, O, T), main' \in MainState,
         main'.at = "mark" => Headers \notin T,
         \/ main'.at \in {"mark", "commit"} /\ main'.topic = None /\ main'.todo = T
            /\ silent' = silent \ T
         \/ main' = main /\ silent' = silent \cup T
  PROVE  Inductive'
  <1> USE GoroutineFacts
  <1>1. /\ main.at = "idle" /\ changes < MaxChanges /\ changes' = changes + 1
        /\ mem' = Bump(mem, O)
        /\ overlap' = (overlap \ T) \cup {t \in T : \E c \in Conn : HasRead(c, t)}
        /\ UNCHANGED <<db, tip, cacheVars, subVars, calc, pc, resp, connVars, view, up,
                       requests, faults, missed>>
    BY DEF StartChange
  <1>2. main.topic = None /\ None # Headers /\ calc[Main].at \notin {"lookup", "db", "mem", "store"}
    BY <1>1, SessionAssumption DEF Inductive, Types, MainTypes
  <1>3. /\ mem' \in [Scripthash -> Nat]
        /\ \A s \in Scripthash : s \notin T => mem'[s] = mem[s]
    BY <1>1 DEF Bump, Inductive, Types, IndexTypes
  <1>4. IndexTypes'
    BY <1>1, <1>3 DEF Inductive, Types, IndexTypes
  <1>5. CacheTypes' /\ SubTypes' /\ CalcTypes' /\ QueueTypes'
    BY <1>1, CacheFrame, SubFrame, CalcFrame, QueueFrame DEF Inductive, Types, connVars
  <1>6. MainTypes'
    BY <1>1, <1>2 DEF Inductive, Types, MainTypes
  <1>7. RestTypes'
    BY <1>1, SessionAssumption DEF Inductive, Types, RestTypes, connVars
  <1>8. SubscriptionsAgree'
    BY <1>1, AgreeFrame DEF Inductive
  <1>9. StaleExplained'
    <2> SUFFICES ASSUME NEW s \in Scripthash, Clean(s)', status'[s] # Current(s)'
                 PROVE  Unmarked(s)' \/ s \in silent' \cup overlap'
      BY DEF StaleExplained
    <2>1. CASE s \in T
      BY <2>1 DEF Unmarked
    <2>2. CASE s \notin T
      <3>1. Clean(s) /\ status[s] # Current(s)
        BY <1>1, <1>3, <2>2 DEF Clean, Current, cacheVars
      <3>2. ~Unmarked(s)
        BY <1>1, <1>2 DEF Unmarked
      <3>3. s \in silent \cup overlap
        BY <3>1, <3>2 DEF Inductive, Fresh, StaleExplained
      <3>4. QED
        BY <1>1, <2>2, <3>3
    <2>3. QED
      BY <2>1, <2>2
  <1>10. RequestsNoted'
    <2> SUFFICES ASSUME NEW c \in Conn, calc[c].at \in {"mem", "store"},
                        calc[c].sh \notin overlap' \cup silent'
                 PROVE  /\ calc[c].val.db = db[calc[c].sh]
                        /\ calc[c].at = "store" => calc[c].val.mem = mem'[calc[c].sh]
                        /\ main'.at = "commit" => calc[c].sh \notin main'.todo
      BY <1>1 DEF RequestsNoted
    <2>1. calc[c].sh \in Scripthash
      BY DEF Inductive, Types, CalcTypes
    <2>2. HasRead(c, calc[c].sh)
      BY DEF HasRead
    <2>3. calc[c].sh \notin T
      BY <1>1, <2>2
    <2>4. calc[c].sh \notin overlap \cup silent
      BY <1>1, <2>3
    <2>5. QED
      BY <1>1, <1>3, <2>1, <2>3, <2>4 DEF Inductive, Fresh, RequestsNoted
  <1>11. MainExact'
    BY <1>1, <1>2 DEF MainExact
  <1>12. QED
    BY <1>4, <1>5, <1>6, <1>7, <1>8, <1>9, <1>10, <1>11 DEF Inductive, Types, Fresh

\* ChangeStep: every kind of change.
LEMMA ChangeStep == ASSUME Inductive, Change PROVE Inductive'
  <1>1. ASSUME NEW S \in SUBSET Scripthash, IndexTx(S) PROVE Inductive'
    <2>1. /\ StartChange("tx", S, S) /\ main' = [Idle EXCEPT !.at = "mark", !.todo = S]
          /\ silent' = silent \ S
      BY <1>1 DEF IndexTx
    <2>2. main' \in MainState /\ main'.at = "mark" /\ main'.topic = None /\ main'.todo = S
      BY <2>1 DEF Idle, MainState, Topic
    <2>3. S \in SUBSET Topic /\ S \in SUBSET (S \cap Scripthash) /\ Headers \notin S
      BY SessionAssumption DEF Topic
    <2>4. QED
      BY <2>1, <2>2, <2>3, ChangeKeeps
  <1>2. ASSUME NEW S \in SUBSET Scripthash, GapReconcile(S) PROVE Inductive'
    <2>1. StartChange("gap", S, S) /\ silent' = silent \cup S /\ main' = main
      BY <1>2 DEF GapReconcile
    <2>2. main' \in MainState
      BY <2>1 DEF Inductive, Types, MainTypes
    <2>3. S \in SUBSET Topic /\ S \in SUBSET (S \cap Scripthash) /\ Headers \notin S
      BY SessionAssumption DEF Topic
    <2>4. QED
      BY <2>1, <2>2, <2>3, ChangeKeeps
  <1>3. ASSUME NEW S \in SUBSET Scripthash, NEW O \in SUBSET S, NEW kind \in {"block", "catchup"},
               IndexBlock(kind, O, S)
        PROVE  Inductive'
    <2> DEFINE T == S \cup {Headers}
    <2>1. /\ StartChange(kind, O, T)
          /\ main' = [Idle EXCEPT !.at = "commit", !.kind = kind, !.todo = T]
          /\ silent' = silent \ T
      BY <1>3 DEF IndexBlock
    <2>2. T \in SUBSET Topic /\ O \in SUBSET (T \cap Scripthash)
      BY DEF Topic
    <2> HIDE DEF T
    <2>3. main' \in MainState /\ main'.at = "commit" /\ main'.topic = None /\ main'.todo = T
      BY <2>1, <2>2 DEF Idle, MainState
    <2>4. QED
      BY <2>1, <2>2, <2>3, ChangeKeeps
  <1>4. QED
    BY <1>1, <1>2, <1>3 DEF Change

\* MainFrames: what all steps of the main loop but those that change a history
\* leave alone.
LEMMA MainFrames ==
  ASSUME Inductive, MainOnly
  PROVE  /\ SubTypes' /\ SubscriptionsAgree'
         /\ UNCHANGED calc => CalcTypes'
         /\ UNCHANGED <<db, tip>> => IndexTypes'
         /\ UNCHANGED cacheVars => CacheTypes'
         /\ UNCHANGED ch => QueueTypes'
         /\ UNCHANGED <<up, silent, missed>> => RestTypes'
  <1>1. UNCHANGED <<mem, subVars, pc, resp, closed, loop, view, bounds, overlap>>
    BY DEF MainOnly
  <1>2. SubTypes' /\ SubscriptionsAgree'
    BY <1>1, SubFrame, AgreeFrame DEF Inductive, Types
  <1>3. UNCHANGED calc => CalcTypes'
    BY <1>1, CalcFrame DEF Inductive, Types
  <1>4. UNCHANGED <<db, tip>> => IndexTypes'
    BY <1>1, IndexFrame DEF Inductive, Types, indexVars
  <1>5. UNCHANGED cacheVars => CacheTypes'
    BY CacheFrame DEF Inductive, Types
  <1>6. UNCHANGED ch => QueueTypes'
    BY <1>1, QueueFrame DEF Inductive, Types
  <1>7. UNCHANGED <<up, silent, missed>> => RestTypes'
    BY <1>1, RestFrame DEF Inductive, Types
  <1>8. QED
    BY <1>2, <1>3, <1>4, <1>5, <1>6, <1>7

\* CommitStep: the confirmed histories change.
LEMMA CommitStep == ASSUME Inductive, Commit PROVE Inductive'
  <1> USE GoroutineFacts
  <1>1. /\ main.at = "commit" /\ db' = Bump(db, main.todo) /\ tip' = tip + 1
        /\ UNCHANGED <<cacheVars, calc, ch, up, missed>> /\ MainOnly
        /\ UNCHANGED <<mem, subVars, pc, resp, closed, loop, view, bounds, overlap>>
    BY DEF Commit, MainOnly
  <1>2. main.topic = None /\ None # Headers /\ calc[Main].at \notin {"lookup", "db", "mem", "store"}
        /\ main \in MainState /\ main.todo \subseteq Topic
    BY <1>1, SessionAssumption DEF Inductive, Types, MainTypes, MainState
  <1>3. \/ /\ main' \in MainState /\ main'.at = "headers" /\ main'.topic = None
           /\ main'.todo = main.todo /\ silent' = silent
        \/ /\ main' \in MainState /\ main'.at = "idle" /\ main'.topic = None
           /\ silent' = silent \cup main.todo
    <2>1. CASE main' = [main EXCEPT !.at = "headers"] /\ UNCHANGED silent
      BY <1>2, <2>1 DEF MainState
    <2>2. CASE main' = Idle /\ silent' = silent \cup main.todo
      BY <2>2 DEF MainState, Idle
    <2>3. QED
      BY <2>1, <2>2 DEF Commit
  <1>4. /\ db' \in [Scripthash -> Nat]
        /\ \A s \in Scripthash : s \notin main.todo => db'[s] = db[s]
    BY <1>1 DEF Bump, Inductive, Types, IndexTypes
  <1>5. IndexTypes'
    BY <1>1, <1>4 DEF Inductive, Types, IndexTypes
  <1>6. CacheTypes' /\ SubTypes' /\ CalcTypes' /\ QueueTypes' /\ SubscriptionsAgree'
    BY <1>1, MainFrames
  <1>7. MainTypes'
    BY <1>1, <1>2, <1>3 DEF MainTypes
  <1>8. RestTypes'
    BY <1>1, <1>2, <1>3 DEF Inductive, Types, RestTypes, bounds
  <1>9. StaleExplained'
    <2> SUFFICES ASSUME NEW s \in Scripthash, Clean(s)', status'[s] # Current(s)'
                 PROVE  Unmarked(s)' \/ s \in silent' \cup overlap'
      BY DEF StaleExplained
    <2>1. CASE s \in main.todo
      BY <1>3, <2>1 DEF Unmarked
    <2>2. CASE s \notin main.todo
      <3>1. Clean(s) /\ status[s] # Current(s)
        BY <1>1, <1>4, <2>2 DEF Clean, Current, cacheVars
      <3>2. s \in silent \cup overlap
        BY <2>2, <3>1 DEF Inductive, Fresh, StaleExplained, Unmarked
      <3>3. QED
        BY <1>1, <1>3, <3>2
    <2>3. QED
      BY <2>1, <2>2
  <1>10. RequestsNoted'
    <2> SUFFICES ASSUME NEW c \in Conn, calc[c].at \in {"mem", "store"},
                        calc[c].sh \notin overlap' \cup silent'
                 PROVE  /\ calc[c].val.db = db'[calc[c].sh]
                        /\ calc[c].at = "store" => calc[c].val.mem = mem[calc[c].sh]
                        /\ main'.at # "commit"
      BY <1>1 DEF RequestsNoted
    <2>1. calc[c].sh \in Scripthash
      BY DEF Inductive, Types, CalcTypes
    <2>2. calc[c].sh \notin overlap \cup silent
      BY <1>1, <1>3
    <2>3. QED
      BY <1>1, <1>3, <1>4, <2>1, <2>2 DEF Inductive, Fresh, RequestsNoted
  <1>11. MainExact'
    BY <1>1, <1>2 DEF MainExact
  <1>12. QED
    BY <1>5, <1>6, <1>7, <1>8, <1>9, <1>10, <1>11 DEF Inductive, Types, Fresh

\* AnnounceKeeps: a step of the announcement that computes nothing: no history
\* and no status changes.
LEMMA AnnounceKeeps ==
  ASSUME Inductive, MainOnly, UNCHANGED <<db, tip, cacheVars, calc, silent>>,
         main.at # "commit", main'.at # "commit",
         \A s \in Scripthash : Unmarked(s) => Unmarked(s)'
  PROVE  /\ Fresh' /\ SubTypes' /\ SubscriptionsAgree' /\ CalcTypes' /\ IndexTypes' /\ CacheTypes'
         /\ UNCHANGED ch => QueueTypes'
         /\ UNCHANGED <<up, missed>> => RestTypes'
  <1>1. UNCHANGED <<mem, overlap>>
    BY DEF MainOnly
  <1>2. StaleExplained'
    BY <1>1, StaleFrame DEF Inductive, Fresh
  <1>3. RequestsNoted'
    BY <1>1 DEF Inductive, Fresh, RequestsNoted
  <1>4. MainExact'
    BY <1>1 DEF Inductive, Fresh, MainExact
  <1>5. QED
    BY <1>2, <1>3, <1>4, MainFrames DEF Fresh

\* AnnounceStep: the steps of the announcement that compute nothing and mark
\* nothing.
LEMMA AnnounceStep ==
  ASSUME Inductive,
         \/ NotifyNewBlock \/ NotifyScripthash \/ LoopAgain
         \/ \E c \in Conn : TrySendCheck(c)
  PROVE  Inductive'
  <1>1. UNCHANGED <<db, tip, cacheVars, calc, ch, up, silent, missed>> /\ MainOnly
    BY DEF NotifyNewBlock, NotifyScripthash, LoopAgain, TrySendCheck
  <1>2. main \in MainState /\ None # Headers /\ Headers \in Topic /\ Scripthash \subseteq Topic
    BY SessionAssumption DEF Inductive, Types, MainTypes, Topic
  <1>3. Subscribers(Headers) \subseteq Conn /\ Subscribers(main.topic) \subseteq Conn
    BY DEF Subscribers, Entry, Inductive, Types, SubTypes
  <1>4. /\ MainTypes' /\ main.at # "commit" /\ main'.at # "commit"
        /\ \A s \in Scripthash : Unmarked(s) => Unmarked(s)'
    <2>1. CASE NotifyNewBlock
      <3>1. main.at = "headers"
            /\ main' = [main EXCEPT !.at = "push", !.topic = Headers,
                                    !.conns = Subscribers(Headers)]
        BY <2>1 DEF NotifyNewBlock
      <3>2. main' \in MainState /\ main'.at = "push" /\ main'.topic = Headers
            /\ main'.todo = main.todo
        BY <1>2, <1>3, <3>1 DEF MainState
      <3>3. QED
        BY <1>1, <1>2, <3>1, <3>2 DEF Inductive, Types, MainTypes, Unmarked
    <2>2. CASE NotifyScripthash
      <3>1. main.at = "compute" /\ calc[Main].at = "done"
            /\ main' = [main EXCEPT !.at = "push", !.conns = Subscribers(main.topic)]
        BY <2>2 DEF NotifyScripthash
      <3>2. main' \in MainState /\ main'.at = "push" /\ main'.topic = main.topic
            /\ main'.todo = main.todo
        BY <1>2, <1>3, <3>1 DEF MainState
      <3>3. QED
        BY <1>1, <1>2, <3>1, <3>2 DEF Inductive, Types, MainTypes, Unmarked
    <2>3. CASE LoopAgain
      <3>1. main.at = "next" /\ main.todo = {} /\ main' = Idle
        BY <2>3 DEF LoopAgain
      <3>2. main' \in MainState /\ main'.at = "idle" /\ main'.topic = None
        BY <3>1 DEF MainState, Idle
      <3>3. QED
        BY <1>1, <3>1, <3>2 DEF Inductive, Types, MainTypes, Unmarked
    <2>4. ASSUME NEW c \in Conn, TrySendCheck(c)
          PROVE  /\ MainTypes' /\ main.at # "commit" /\ main'.at # "commit"
                 /\ \A s \in Scripthash : Unmarked(s) => Unmarked(s)'
      <3>1. main.at = "push"
            /\ main' = IF c \in closed
                       THEN [main EXCEPT !.conns = @ \ {c}]
                       ELSE [main EXCEPT !.at = "send", !.to = c, !.conns = @ \ {c}]
        BY <2>4 DEF TrySendCheck
      <3>2. /\ main' \in MainState /\ main'.topic = main.topic /\ main'.todo = main.todo
            /\ main'.at = "push" \/ (main'.at = "send" /\ main'.to = c)
        <4>1. CASE c \in closed
          BY <1>2, <3>1, <4>1 DEF MainState
        <4>2. CASE c \notin closed
          BY <1>2, <3>1, <4>2 DEF MainState
        <4>3. QED
          BY <4>1, <4>2
      <3>3. QED
        BY <1>1, <3>1, <3>2 DEF Inductive, Types, MainTypes, Unmarked
    <2>5. QED
      BY <2>1, <2>2, <2>3, <2>4
  <1>5. QED
    BY <1>1, <1>4, AnnounceKeeps DEF Inductive, Types

\* TrySendStep: a notification is queued, dropped, or the process panics.
LEMMA TrySendStep == ASSUME Inductive, TrySend PROVE Inductive'
  <1> USE GoroutineFacts
  <1>1. /\ main.at = "send" /\ main' = [main EXCEPT !.at = "push", !.to = None]
        /\ UNCHANGED <<db, tip, cacheVars, calc, silent>> /\ MainOnly
        /\ UNCHANGED <<mem, subVars, pc, resp, closed, loop, view, bounds, overlap>>
    BY DEF TrySend, MainOnly
  <1>2. main \in MainState /\ main.topic \in Topic /\ main.to \in Conn
    BY <1>1 DEF Inductive, Types, MainTypes
  <1>3. main' \in MainState /\ main'.at = "push" /\ main'.topic = main.topic
        /\ main'.todo = main.todo
    BY <1>1, <1>2 DEF MainState
  <1>4. MainTypes'
    BY <1>1, <1>2, <1>3 DEF Inductive, Types, MainTypes
  <1>5. \A s \in Scripthash : Unmarked(s) => Unmarked(s)'
    BY <1>1, <1>3 DEF Unmarked
  <1>6. Fresh' /\ SubTypes' /\ SubscriptionsAgree' /\ CalcTypes' /\ IndexTypes' /\ CacheTypes'
    BY <1>1, <1>3, <1>5, AnnounceKeeps
  <1>7. Notification \in Msg
    <2>1. tip \in Value /\ calc[Main].val \in Value
      BY DEF Inductive, Types, IndexTypes, CalcTypes, CalcState, Value
    <2>2. Notification \in [{main.topic} -> Value]
      BY <2>1 DEF Notification
    <2>3. QED
      BY <1>2, <2>2 DEF Msg
  <1>8. QueueTypes' /\ RestTypes'
    <2>1. CASE main.to \in closed
      <3>1. up' = "panicked" /\ UNCHANGED <<ch, missed>>
        BY <2>1 DEF TrySend
      <3>2. QED
        BY <1>1, <3>1 DEF Inductive, Types, QueueTypes, RestTypes, bounds
    <2>2. CASE main.to \notin closed /\ Len(ch[main.to]) < BufSize
      <3>1. /\ up' = up /\ ch' = [ch EXCEPT ![main.to] = Append(@, Notification)]
            /\ missed' = missed \ {<<main.to, main.topic>>}
        BY <2>2 DEF TrySend
      <3>2. ch' \in [Conn -> Seq(Msg)] /\ \A d \in Conn : Len(ch'[d]) <= BufSize
        BY <1>2, <1>7, <2>2, <3>1, QueuePut DEF Inductive, Types
      <3>3. QueueTypes'
        BY <1>1, <3>2 DEF Inductive, Types, QueueTypes
      <3>4. RestTypes'
        BY <1>1, <3>1 DEF Inductive, Types, RestTypes, bounds
      <3>5. QED
        BY <3>3, <3>4
    <2>3. CASE main.to \notin closed /\ ~(Len(ch[main.to]) < BufSize)
      <3>1. up' = up /\ ch' = ch /\ missed' = missed \cup {<<main.to, main.topic>>}
        BY <2>3 DEF TrySend
      <3>2. QueueTypes'
        BY <1>1, <3>1 DEF Inductive, Types, QueueTypes
      <3>3. RestTypes'
        BY <1>1, <1>2, <3>1 DEF Inductive, Types, RestTypes, bounds
      <3>4. QED
        BY <3>2, <3>3
    <2>4. QED
      BY <2>1, <2>2, <2>3
  <1>9. QED
    BY <1>4, <1>6, <1>8 DEF Inductive, Types

\* MarkStep: every status whose history has changed is marked.
LEMMA MarkStep == ASSUME Inductive, MarkDirtyMany PROVE Inductive'
  <1>1. /\ main.at = "mark" /\ dirty' = dirty \cup main.todo /\ main' = [main EXCEPT !.at = "next"]
        /\ UNCHANGED <<db, tip, status, calc, ch, up, silent, missed>> /\ MainOnly
        /\ UNCHANGED <<mem, subVars, pc, resp, closed, loop, view, bounds, overlap>>
    BY DEF MarkDirtyMany, MainOnly
  <1>2. main \in MainState /\ main.topic = None /\ None # Headers
    BY <1>1, SessionAssumption DEF Inductive, Types, MainTypes
  <1>3. main' \in MainState /\ main'.at = "next" /\ main'.topic = None /\ main'.todo = main.todo
    BY <1>1, <1>2 DEF MainState
  <1>4. MainTypes'
    BY <1>1, <1>2, <1>3 DEF Inductive, Types, MainTypes
  <1>5. SubTypes' /\ SubscriptionsAgree' /\ CalcTypes' /\ IndexTypes' /\ QueueTypes' /\ RestTypes'
    BY <1>1, MainFrames
  <1>6. CacheTypes'
    <2>1. main.todo \subseteq Scripthash
      <3>1. Headers \notin main.todo
        BY <1>1 DEF Inductive, Types, MainTypes
      <3>2. QED
        BY <1>2, <3>1 DEF MainState, Topic
    <2>2. QED
      BY <1>1, <2>1 DEF Inductive, Types, CacheTypes
  <1>7. StaleExplained'
    <2> SUFFICES ASSUME NEW s \in Scripthash, Clean(s)', status'[s] # Current(s)'
                 PROVE  s \in silent' \cup overlap'
      BY DEF StaleExplained
    <2>1. Clean(s) /\ status[s] # Current(s) /\ s \notin main.todo
      BY <1>1 DEF Clean, Current
    <2>2. QED
      BY <1>1, <2>1 DEF Inductive, Fresh, StaleExplained, Unmarked
  <1>8. RequestsNoted'
    BY <1>1, <1>3 DEF Inductive, Fresh, RequestsNoted
  <1>9. MainExact'
    BY <1>1 DEF Inductive, Fresh, MainExact
  <1>10. QED
    BY <1>4, <1>5, <1>6, <1>7, <1>8, <1>9 DEF Inductive, Types, Fresh

\* CallStep: the main loop begins or ends a call of ComputeScripthashStatusHex.
LEMMA CallStep ==
  ASSUME Inductive, Announced \/ \E s \in Scripthash : NotifyScripthashStatus(s)
  PROVE  Inductive'
  <1> USE GoroutineFacts
  <1>1. /\ UNCHANGED <<db, tip, cacheVars, ch, up, silent, missed>> /\ MainOnly
        /\ UNCHANGED <<mem, subVars, pc, resp, closed, loop, view, bounds, overlap>>
    BY DEF Announced, NotifyScripthashStatus, MainOnly
  <1>2. main \in MainState /\ None # Headers /\ Headers \notin Scripthash /\ Scripthash \subseteq Topic
    BY SessionAssumption DEF Inductive, Types, MainTypes, Topic
  <1>3. /\ MainTypes' /\ main.at # "commit" /\ main'.at # "commit"
        /\ \A s \in Scripthash : Unmarked(s) => Unmarked(s)'
        /\ calc' \in [Goroutine -> CalcState] /\ calc'[Main].at \in {"no", "lookup"}
        /\ calc'[Main].at # "no" => calc'[Main].sh \in Scripthash
        /\ \A h \in Goroutine : h # Main => calc'[h] = calc[h]
    <2>1. CASE Announced
      <3>1. /\ main.at = "push"
            /\ main' = [main EXCEPT !.at = IF main.topic = Headers THEN "mark" ELSE "next",
                                    !.topic = None, !.todo = @ \ {main.topic}]
            /\ calc' = [calc EXCEPT ![Main] = NotComputing]
        BY <2>1 DEF Announced
      <3>2. NotComputing \in CalcState /\ NotComputing.at = "no"
        BY DEF NotComputing, CalcState, Status
      <3>3. /\ main' \in MainState /\ main'.topic = None /\ main'.todo = main.todo \ {main.topic}
            /\ main'.at = IF main.topic = Headers THEN "mark" ELSE "next"
        <4>1. CASE main.topic = Headers
          BY <1>2, <3>1, <4>1 DEF MainState
        <4>2. CASE main.topic # Headers
          BY <1>2, <3>1, <4>2 DEF MainState
        <4>3. QED
          BY <4>1, <4>2
      <3>4. /\ calc' \in [Goroutine -> CalcState] /\ calc'[Main].at = "no"
            /\ \A h \in Goroutine : h # Main => calc'[h] = calc[h]
        BY <3>1, <3>2 DEF Inductive, Types, CalcTypes
      <3>5. MainTypes'
        BY <1>2, <3>1, <3>3, <3>4 DEF Inductive, Types, MainTypes
      <3>6. \A s \in Scripthash : Unmarked(s) => Unmarked(s)'
        BY <1>2, <3>1, <3>3 DEF Unmarked
      <3>7. QED
        BY <3>1, <3>3, <3>4, <3>5, <3>6
    <2>2. CASE \E s \in Scripthash : NotifyScripthashStatus(s)
      <3>1. PICK s \in Scripthash :
              /\ main.at = "next" /\ main' = [main EXCEPT !.at = "compute", !.topic = s]
              /\ calc' = [calc EXCEPT ![Main] = [NotComputing EXCEPT !.at = "lookup", !.sh = s]]
        BY <2>2 DEF NotifyScripthashStatus
      <3> DEFINE call == [NotComputing EXCEPT !.at = "lookup", !.sh = s]
      <3>2. call \in CalcState /\ call.at = "lookup" /\ call.sh = s
        BY DEF NotComputing, CalcState, Status
      <3>3. calc' = [calc EXCEPT ![Main] = call]
        BY <3>1
      <3> HIDE DEF call
      <3>4. /\ calc' \in [Goroutine -> CalcState] /\ calc'[Main].at = "lookup"
            /\ calc'[Main].sh = s /\ \A h \in Goroutine : h # Main => calc'[h] = calc[h]
        BY <3>2, <3>3 DEF Inductive, Types, CalcTypes
      <3>5. main' \in MainState /\ main'.at = "compute" /\ main'.topic = s /\ main'.todo = main.todo
        BY <1>2, <3>1 DEF MainState
      <3>6. MainTypes'
        BY <3>4, <3>5 DEF MainTypes
      <3>7. \A x \in Scripthash : ~Unmarked(x)
        BY <1>2, <3>1 DEF Unmarked, Inductive, Types, MainTypes
      <3>8. QED
        BY <3>1, <3>4, <3>5, <3>6, <3>7
    <2>3. QED
      BY <2>1, <2>2
  <1>4. CalcTypes'
    BY <1>1, <1>3 DEF Inductive, Types, CalcTypes
  <1>5. SubTypes' /\ SubscriptionsAgree' /\ IndexTypes' /\ CacheTypes' /\ QueueTypes' /\ RestTypes'
    BY <1>1, MainFrames
  <1>6. StaleExplained'
    BY <1>1, <1>3, StaleFrame DEF Inductive, Fresh
  <1>7. RequestsNoted'
    BY <1>1, <1>3 DEF Inductive, Fresh, RequestsNoted
  <1>8. MainExact'
    BY <1>3 DEF MainExact
  <1>9. QED
    BY <1>3, <1>4, <1>5, <1>6, <1>7, <1>8 DEF Inductive, Types, Fresh

\* StopStep: Server.Stop.
LEMMA StopStep == ASSUME Inductive, Stop PROVE Inductive'
  <1>1. up' = "stopping"
        /\ UNCHANGED <<indexVars, cacheVars, subVars, calc, pc, resp, connVars, main, view,
                       bounds, overlap, silent, missed>>
    BY DEF Stop
  <1>2. IndexTypes' /\ CacheTypes' /\ SubTypes' /\ CalcTypes' /\ QueueTypes' /\ MainTypes'
    BY <1>1, IndexFrame, CacheFrame, SubFrame, CalcFrame, QueueFrame, MainFrame
    DEF Inductive, Types, connVars
  <1>3. RestTypes'
    BY <1>1 DEF Inductive, Types, RestTypes, connVars, bounds
  <1>4. SubscriptionsAgree' /\ Fresh'
    BY <1>1, AgreeFrame, FreshFrame DEF Inductive, indexVars
  <1>5. QED
    BY <1>2, <1>3, <1>4 DEF Inductive, Types

\* StutterStep: nothing happens.
LEMMA StutterStep == Inductive /\ UNCHANGED vars => Inductive'
  <1> SUFFICES ASSUME Inductive, UNCHANGED vars PROVE Inductive'
    OBVIOUS
  <1>1. UNCHANGED <<indexVars, cacheVars, subVars, calc, pc, resp, connVars, main, view,
                    up, bounds, overlap, silent, missed>>
    BY DEF vars
  <1>2. IndexTypes' /\ CacheTypes' /\ SubTypes' /\ CalcTypes' /\ QueueTypes' /\ MainTypes' /\ RestTypes'
    BY <1>1, IndexFrame, CacheFrame, SubFrame, CalcFrame, QueueFrame, MainFrame, RestFrame
    DEF Inductive, Types, connVars
  <1>3. SubscriptionsAgree' /\ Fresh'
    BY <1>1, AgreeFrame, FreshFrame DEF Inductive, indexVars
  <1>4. QED
    BY <1>2, <1>3 DEF Inductive, Types

-----------------------------------------------------------------------------
(***************************************************************************)
(* The theorems.                                                           *)
(***************************************************************************)
\* NextInductive: every step keeps the inductive invariant.
LEMMA NextInductive == Inductive /\ [Next]_vars => Inductive'
  <1> SUFFICES ASSUME Inductive, [Next]_vars PROVE Inductive'
    OBVIOUS
  <1>1. ASSUME NEW c \in Conn, Client(c) \/ Handler(c) \/ WriteLoop(c) \/ WriteFails(c)
        PROVE  Inductive'
    BY <1>1, AcceptStep, CleanupStep, RequestStep, SubscribeStep, LoadTipStep, SendStep,
       WriteLoopStep
    DEF Client, Handler
  <1>2. ASSUME NEW g \in Goroutine, Compute(g) PROVE Inductive'
    BY <1>2, GetIfCleanStep, ReadStep, SetCleanStep DEF Compute
  <1>3. CASE MainStep
    <2>1. CASE Compute(Main)
      BY <1>2, <2>1, GoroutineFacts
    <2>2. CASE Announced \/ \E s \in Scripthash : NotifyScripthashStatus(s)
      BY <2>2, CallStep
    <2>3. CASE NotifyNewBlock \/ NotifyScripthash \/ LoopAgain \/ \E c \in Conn : TrySendCheck(c)
      BY <2>3, AnnounceStep
    <2>4. QED
      BY <1>3, <2>1, <2>2, <2>3, CommitStep, MarkStep, TrySendStep DEF MainStep
  <1>4. QED
    BY <1>1, <1>2, <1>3, ChangeStep, StopStep, StutterStep, GoroutineFacts DEF Next

\* InductiveHolds: the inductive invariant holds in every behaviour: the types,
\* the agreement of the subscription maps, and that the cache, and whatever is
\* on its way to it, is right but for the cases that are noted.
THEOREM InductiveHolds == Spec => []Inductive
  BY InitInductive, NextInductive, PTL DEF Spec

\* TypeCorrect: every variable stays of its kind; a queue never exceeds BufSize.
THEOREM TypeCorrect == Spec => []TypeOK
  <1>1. Inductive => TypeOK
    BY TypesImplyTypeOK DEF Inductive
  <1>2. QED
    BY <1>1, InductiveHolds, PTL

\* SubscriptionsAgreeHolds: the maps of the SubscriptionManager are inverses of
\* one another, and a connection that is closed has nothing in them.
THEOREM SubscriptionsAgreeHolds == Spec => []SubscriptionsAgree
  <1>1. Inductive => SubscriptionsAgree
    BY DEF Inductive
  <1>2. QED
    BY <1>1, InductiveHolds, PTL

\* StaleExplainedHolds: the status cache hands out a stale status only before
\* the mark, after a silent change, or after a request that read during one.
THEOREM StaleExplainedHolds == Spec => []StaleExplained
  <1>1. Inductive => StaleExplained
    BY DEF Inductive, Fresh
  <1>2. QED
    BY <1>1, InductiveHolds, PTL


-----------------------------------------------------------------------------
(***************************************************************************)
(* Sessions implements Registry.                                           *)
(***************************************************************************)
\* RegistryQuiet: a step that leaves the maps alone and drops nobody is a
\* stuttering step of Registry.
LEMMA RegistryQuiet ==
  ASSUME UNCHANGED subVars,
         \A c \in Conn : pc'[c] \in {"close", "wait", "gone"} <=> pc[c] \in {"close", "wait", "gone"}
  PROVE  UNCHANGED Registry!vars
  <1>1. \A t \in Topic : Subscribers(t)' = Subscribers(t)
    BY DEF Subscribers, Entry, subVars
  <1>2. Subscribed' = Subscribed
    BY <1>1 DEF Subscribed
  <1>3. Dropped' = Dropped
    BY DEF Dropped
  <1>4. QED
    BY <1>2, <1>3 DEF Registry!vars

\* RegistrySubscribe: a subscription of either kind is one of Registry.
LEMMA RegistrySubscribe ==
  ASSUME Inductive, NEW c \in Conn, pc[c] \in {"serve", "batch"},
         NEW p \in {"compute", "header"}, pc' = [pc EXCEPT ![c] = p],
         NEW t \in Topic,
         IF t = Headers THEN SubscribeHeaders(c) ELSE SubscribeScripthash(c, t)
  PROVE  Registry!Subscribe(c, t)
  <1>1. \A d \in Conn : pc'[d] = IF d = c THEN p ELSE pc[d]
    BY DEF Inductive, Types, CalcTypes
  <1>2. Dropped' = Dropped /\ c \notin Dropped
    BY <1>1 DEF Dropped
  <1>3. \A u \in Topic : Subscribers(u)' = IF u = t THEN Subscribers(u) \cup {c} ELSE Subscribers(u)
    <2>1. CASE t = Headers
      BY <2>1 DEF SubscribeHeaders, Subscribers, Entry
    <2>2. CASE t # Headers
      <3>1. scripthashSubs' = Add(scripthashSubs, t, c) /\ headerSubs' = headerSubs
        BY <2>2 DEF SubscribeScripthash
      <3>2. NoEmptyEntry(scripthashSubs)
        BY DEF Inductive, SubscriptionsAgree, NoEmptyEntry
      <3> DEFINE f == scripthashSubs
      <3> HIDE DEF f
      <3>3. NoEmptyEntry(f)
        BY <3>2 DEF f
      <3>4. /\ \A j : Entry(Add(f, t, c), j) =
                     IF j = t THEN Entry(f, t) \cup {c} ELSE Entry(f, j)
            /\ DOMAIN Add(f, t, c) = DOMAIN f \cup {t}
            /\ NoEmptyEntry(Add(f, t, c))
        BY ONLY <3>3, AddEntry
      <3>5. \A j : Entry(scripthashSubs', j) = IF j = t THEN Entry(scripthashSubs, t) \cup {c}
                                               ELSE Entry(scripthashSubs, j)
        BY ONLY <3>1, <3>4 DEF f
      <3>6. \A j : Subscribers(j)' = IF j = Headers THEN headerSubs ELSE Entry(scripthashSubs', j)
        BY <3>1 DEF Subscribers, Entry
      <3>7. QED
        BY <2>2, <3>5, <3>6 DEF Subscribers
    <2>3. QED
      BY <2>1, <2>2
  <1>4. Subscribed' = Subscribed \cup {<<c, t>>}
    BY <1>3 DEF Subscribed
  <1>5. QED
    BY <1>2, <1>4 DEF Registry!Subscribe

\* RegistryUnsubscribe: and so is the unsubscribe request.
LEMMA RegistryUnsubscribe ==
  ASSUME Inductive, NEW c \in Conn, NEW s \in Scripthash, HandleScripthashUnsubscribe(c, s)
  PROVE  Registry!Unsubscribe(c, s)
  <1>1. /\ pc[c] \in {"serve", "batch"} /\ pc' = [pc EXCEPT ![c] = "batch"]
        /\ scripthashSubs' = Delete(scripthashSubs, s, c) /\ headerSubs' = headerSubs
    BY DEF HandleScripthashUnsubscribe, NextRequest, UnsubscribeScripthash
  <1>2. \A d \in Conn : pc'[d] = IF d = c THEN "batch" ELSE pc[d]
    BY <1>1 DEF Inductive, Types, CalcTypes
  <1>3. Dropped' = Dropped /\ c \notin Dropped
    BY <1>1, <1>2 DEF Dropped
  <1>4. s # Headers
    BY SessionAssumption
  <1>5. \A u \in Topic : Subscribers(u)' = IF u = s THEN Subscribers(u) \ {c} ELSE Subscribers(u)
    <2> DEFINE f == scripthashSubs
    <2> HIDE DEF f
    <2>1. NoEmptyEntry(f)
      BY DEF Inductive, SubscriptionsAgree, NoEmptyEntry, f
    <2>2. \A j : Entry(Delete(f, s, c), j) = IF j = s THEN Entry(f, s) \ {c} ELSE Entry(f, j)
      BY ONLY <2>1, DeleteEntry
    <2>3. \A j : Entry(scripthashSubs', j) = IF j = s THEN Entry(scripthashSubs, s) \ {c}
                                             ELSE Entry(scripthashSubs, j)
      BY ONLY <1>1, <2>2 DEF f
    <2>4. \A j : Subscribers(j)' = IF j = Headers THEN headerSubs ELSE Entry(scripthashSubs', j)
      BY <1>1 DEF Subscribers, Entry
    <2>5. QED
      BY <1>4, <2>3, <2>4 DEF Subscribers
  <1>6. Subscribed' = Subscribed \ {<<c, s>>}
    BY <1>5 DEF Subscribed
  <1>7. QED
    BY <1>3, <1>6 DEF Registry!Unsubscribe

\* RegistryDrop: Release drops a connection with all its subscriptions.
LEMMA RegistryDrop ==
  ASSUME Inductive, NEW c \in Conn, Release(c)
  PROVE  Registry!Drop(c)
  <1>1. Unsubscribe(c) /\ pc' = [pc EXCEPT ![c] = "close"] /\ pc[c] = "leave"
    BY DEF Release, Cleanup
  <1>2. \A s \in Scripthash : Entry(scripthashSubs', s) = Entry(scripthashSubs, s) \ {c}
    BY <1>1, DropAgrees DEF Inductive, Types, CalcTypes
  <1>3. headerSubs' = headerSubs \ {c}
    BY <1>1 DEF Unsubscribe
  <1>4. \A u \in Topic : Subscribers(u)' = Subscribers(u) \ {c}
    <2>1. \A j : Subscribers(j)' = IF j = Headers THEN headerSubs' ELSE Entry(scripthashSubs', j)
      BY DEF Subscribers, Entry
    <2>2. QED
      BY <1>2, <1>3, <2>1 DEF Subscribers, Topic
  <1>5. Subscribed' = Subscribed \ ({c} \X Topic)
    BY <1>4 DEF Subscribed
  <1>6. Dropped' = Dropped \cup {c}
    BY <1>1 DEF Dropped, Inductive, Types, CalcTypes
  <1>7. QED
    BY <1>5, <1>6 DEF Registry!Drop

\* RegistryStep: every step of Sessions is one of Registry or leaves it alone.
LEMMA RegistryStep ==
  Inductive /\ [Next]_vars => [Registry!Next]_(Registry!vars)
  <1> SUFFICES ASSUME Inductive, [Next]_vars PROVE [Registry!Next]_(Registry!vars)
    OBVIOUS
  <1> USE GoroutineFacts
  <1>1. ASSUME NEW c \in Conn, NEW s \in Scripthash, HandleScripthashSubscribe(c, s)
        PROVE  Registry!Next
    <2>1. /\ pc[c] \in {"serve", "batch"} /\ pc' = [pc EXCEPT ![c] = "compute"]
          /\ SubscribeScripthash(c, s) /\ s # Headers /\ s \in Topic
      BY <1>1, SessionAssumption DEF HandleScripthashSubscribe, NextRequest, Topic
    <2>2. Registry!Subscribe(c, s)
      BY <2>1, RegistrySubscribe
    <2>3. QED
      BY <2>1, <2>2 DEF Registry!Next
  <1>2. ASSUME NEW c \in Conn, HandleHeadersSubscribe(c) PROVE Registry!Next
    <2>1. /\ pc[c] \in {"serve", "batch"} /\ pc' = [pc EXCEPT ![c] = "header"]
          /\ SubscribeHeaders(c) /\ Headers \in Topic
      BY <1>2 DEF HandleHeadersSubscribe, NextRequest, Topic
    <2>2. Registry!Subscribe(c, Headers)
      BY <2>1, RegistrySubscribe
    <2>3. QED
      BY <2>1, <2>2 DEF Registry!Next
  <1>3. ASSUME NEW c \in Conn, NEW s \in Scripthash, HandleScripthashUnsubscribe(c, s)
        PROVE  Registry!Next
    BY <1>3, RegistryUnsubscribe DEF Registry!Next, Topic
  <1>4. ASSUME NEW c \in Conn, Release(c) PROVE Registry!Next
    BY <1>4, RegistryDrop DEF Registry!Next
  <1>5. ASSUME NEW c \in Conn,
               Accept(c) \/ Leave(c) \/ LoadTip(c) \/ SendResponses(c) \/ CloseWriter(c)
                 \/ CloseConn(c)
        PROVE  UNCHANGED Registry!vars
    <2>1. UNCHANGED subVars
      BY <1>5 DEF Accept, Leave, LoadTip, SendResponses, CloseWriter, CloseConn, Elsewhere
    <2>2. \E p : /\ pc' = [pc EXCEPT ![c] = p]
                 /\ \/ pc[c] \in {"close", "wait"} /\ p \in {"wait", "gone"}
                    \/ pc[c] \notin {"close", "wait", "gone"} /\ p \notin {"close", "wait", "gone"}
      <3>1. CASE SendResponses(c)
        <4> DEFINE p == IF up = "stopping" THEN "leave" ELSE "serve"
        <4>1. pc' = [pc EXCEPT ![c] = p] /\ pc[c] = "batch" /\ p \in {"leave", "serve"}
          BY <3>1 DEF SendResponses
        <4> HIDE DEF p
        <4>2. QED
          BY <4>1
      <3>2. CASE ~SendResponses(c)
        BY <1>5, <3>2 DEF Accept, Leave, LoadTip, CloseWriter, CloseConn, Cleanup
      <3>3. QED
        BY <3>1, <3>2
    <2>3. QED
      BY <2>1, <2>2, RegistryQuiet DEF Inductive, Types, CalcTypes
  <1>6. ASSUME NEW g \in Goroutine, Compute(g) PROVE UNCHANGED Registry!vars
    <2>1. UNCHANGED subVars
      BY <1>6 DEF Compute, GetIfClean, ReadConfirmed, ReadMempool, SetClean, Elsewhere
    <2>2. calc[g].at # "no"
      BY <1>6 DEF Compute, GetIfClean, ReadConfirmed, ReadMempool, SetClean
    <2>3. UNCHANGED pc \/ (g \in Conn /\ pc' = [pc EXCEPT ![g] = "batch"])
      BY <1>6 DEF Compute, GetIfClean, ReadConfirmed, ReadMempool, SetClean, Return
    <2>4. g \in Conn => pc[g] = "compute"
      BY <2>2 DEF Inductive, Types, CalcTypes
    <2>5. QED
      BY <2>1, <2>3, <2>4, RegistryQuiet DEF Inductive, Types, CalcTypes
  <1>7. ASSUME NEW c \in Conn, WriteLoop(c) \/ WriteFails(c) PROVE UNCHANGED Registry!vars
    <2>1. UNCHANGED <<subVars, pc>>
      BY <1>7 DEF WriteLoop, Write, WriteFails, LoopEnds, TakeMessage
    <2>2. QED
      BY <2>1, RegistryQuiet
  <1>8. ASSUME Change \/ Stop \/ UNCHANGED vars PROVE UNCHANGED Registry!vars
    <2>1. UNCHANGED <<subVars, pc>>
      BY <1>8 DEF Change, IndexTx, IndexBlock, GapReconcile, StartChange, Stop, vars
    <2>2. QED
      BY <2>1, RegistryQuiet
  <1>9. ASSUME MainStep PROVE UNCHANGED Registry!vars
    <2>1. CASE MainOnly
      BY <2>1, RegistryQuiet DEF MainOnly
    <2>2. CASE Compute(Main)
      BY <1>6, <2>2
    <2>3. QED
      BY <1>9, <2>1, <2>2
      DEF MainStep, Commit, NotifyNewBlock, MarkDirtyMany, NotifyScripthashStatus,
          NotifyScripthash, TrySendCheck, TrySend, Announced, LoopAgain
  <1>10. QED
    BY <1>1, <1>2, <1>3, <1>4, <1>5, <1>6, <1>7, <1>8, <1>9 DEF Next, Client, Handler

\* RegistryHolds: Sessions implements Registry: the three maps are one relation,
\* which a connection leaves for good when its goroutine unsubscribes it.
THEOREM RegistryHolds == Spec => RegistrySpec
  <1>1. Init => Registry!Init
    BY DEF Init, Registry!Init, Subscribed, Dropped, Subscribers, Entry, EmptyMap
  <1>2. QED
    BY <1>1, RegistryStep, InductiveHolds, PTL DEF Spec, RegistrySpec, Registry!Spec
=============================================================================
