--------------------------- MODULE PipelineProofs ---------------------------
(***************************************************************************)
(* Proofs about Pipeline, for every capacity of the channels, every width  *)
(* of the sequence numbers and any number of messages and faults.          *)
(***************************************************************************)
EXTENDS Pipeline, SequenceTheorems, TLAPS

\* A message on its way through a socket.
Packet == [msg : 1 .. MaxSent, seq : 0 .. Width - 1]

\* The state of a subscriber's goroutine; one that sends has a message.
SubState == [at : {"recv", "push", "backoff", "done"}, msg : 0 .. MaxSent]

CoreTypes ==
  /\ sent \in [Stream -> 0 .. MaxSent]
  /\ coreSeq \in [Stream -> 0 .. Width - 1]
  /\ socket \in [Stream -> Seq(Packet)]

SubTypes ==
  /\ sub \in [Stream -> SubState]
  /\ \A s \in Stream : sub[s].at = "push" => sub[s].msg # 0
  /\ lastSeq \in [Stream -> 0 .. Width - 1]

ChannelTypes ==
  /\ channel \in [Stream -> Seq(1 .. MaxSent)]
  /\ \A s \in Stream : Len(channel[s]) <= ChanSize
  /\ gapChan \in Seq(Stream) /\ Len(gapChan) <= GapSize

MainTypes ==
  /\ main \in [at : MainPositions, job : Job, halt : BOOLEAN]
  /\ chansClosed \in BOOLEAN
  /\ cancelled \subseteq {"main", "zmq", "writer"}
  /\ owed \subseteq Stream

WriterTypes ==
  /\ jobs \in Seq(Job) /\ Len(jobs) <= JobSize
  /\ worker \in [at : {"select", "process", "done"}, job : Job]
  /\ result \in BOOLEAN

\* The types of all variables that others are computed from.
Types == CoreTypes /\ SubTypes /\ ChannelTypes /\ MainTypes /\ WriterTypes

\* Positions of the main goroutine at which the channels are closed.
Ending == main.at \in {"closeWriter", "exited"}

\* What the main goroutine's position says of the others.
Order ==
  /\ main.at \in {"submit", "await", "recover"} => main.job.kind \in Stream
  /\ Ending => chansClosed
  /\ "writer" \in cancelled => Ending
  /\ NoSendOnClosed
  /\ main.at = "exited" => worker.at = "done"

\* Two positions of the same message: main's call and the writer's queue.
Inductive == Types /\ Order /\ CallAnswered

-----------------------------------------------------------------------------
\* Sizes: the constants are natural numbers.
LEMMA Sizes ==
  /\ Width \in Nat /\ Width > 0 /\ FirstSeq \in 0 .. Width - 1 /\ MaxSent \in Nat
  /\ ChanSize \in Nat /\ ChanSize > 0 /\ GapSize \in Nat /\ GapSize > 0
  /\ JobSize \in Nat /\ JobSize > 0
  BY PipelineAssumption

\* JobTypes: the jobs that the code makes are jobs.
LEMMA JobTypes ==
  /\ NoJob \in Job
  /\ [kind |-> "prune", msg |-> 0] \in Job
  /\ \A s \in Stream, m \in 0 .. MaxSent : [kind |-> s, msg |-> m] \in Job
  BY Sizes DEF NoJob, Job

\* TypesImplyTypeOK: the types proved are at least those TLC checks.
LEMMA TypesImplyTypeOK == Types => TypeOK
  <1> SUFFICES ASSUME Types PROVE TypeOK
    OBVIOUS
  <1> USE Sizes
  <1>1. \A s \in Stream : \A i \in DOMAIN socket[s] : socket[s][i] \in Packet
    BY DEF Types, CoreTypes
  <1>2. \A s \in Stream : Len(channel[s]) \in 0 .. ChanSize
    BY DEF Types, ChannelTypes
  <1>3. Len(gapChan) \in 0 .. GapSize /\ Range(gapChan) \subseteq Stream
    BY DEF Types, ChannelTypes, Range
  <1>4. Len(jobs) \in 0 .. JobSize /\ Range(jobs) \subseteq Job
    BY DEF Types, WriterTypes, Range
  <1>5. QED
    BY <1>1, <1>2, <1>3, <1>4
    DEF Types, CoreTypes, SubTypes, ChannelTypes, MainTypes, WriterTypes, TypeOK, Packet,
        SubState

\* InitInductive: the pipeline starts empty and idle.
LEMMA InitInductive == Init => Inductive
  <1> SUFFICES ASSUME Init PROVE Inductive
    OBVIOUS
  <1> USE Sizes
  <1>1. CoreTypes
    BY DEF Init, CoreTypes
  <1>2. SubTypes
    BY DEF Init, SubTypes, SubState
  <1>3. ChannelTypes
    BY DEF Init, ChannelTypes
  <1>4. MainTypes
    BY JobTypes DEF Init, MainTypes, MainPositions
  <1>5. WriterTypes
    <2>1. jobs \in Seq(Job) /\ Len(jobs) <= JobSize
      BY DEF Init
    <2>2. worker \in [at : {"select", "process", "done"}, job : Job]
      BY JobTypes DEF Init
    <2>3. QED
      BY <2>1, <2>2 DEF Init, WriterTypes
  <1>6. Order
    BY DEF Init, Order, Ending, NoSendOnClosed
  <1>7. CallAnswered
    BY DEF Init, CallAnswered, InWork, Queued
  <1>8. QED
    BY <1>1, <1>2, <1>3, <1>4, <1>5, <1>6, <1>7 DEF Inductive, Types

-----------------------------------------------------------------------------
(***************************************************************************)
(* What an action leaves alone.                                            *)
(***************************************************************************)
\* CoreFrame: the publisher and its sockets.
LEMMA CoreFrame == CoreTypes /\ UNCHANGED coreVars => CoreTypes'
  BY DEF CoreTypes, coreVars

\* SubFrame: the goroutines of the subscriber.
LEMMA SubFrame == SubTypes /\ UNCHANGED <<sub, lastSeq>> => SubTypes'
  BY DEF SubTypes

\* ChannelFrame: the channels between subscriber and main loop.
LEMMA ChannelFrame == ChannelTypes /\ UNCHANGED <<channel, gapChan>> => ChannelTypes'
  BY DEF ChannelTypes

\* MainFrame: the main goroutine and what it cancels.
LEMMA MainFrame ==
  MainTypes /\ UNCHANGED <<main, chansClosed, cancelled, owed>> => MainTypes'
  BY DEF MainTypes

\* WriterFrame: the writer, its queue and its answer.
LEMMA WriterFrame == WriterTypes /\ UNCHANGED <<jobs, worker, result>> => WriterTypes'
  BY DEF WriterTypes

\* OrderFrame: the order of shutdown.
LEMMA OrderFrame ==
  Order /\ UNCHANGED <<main, chansClosed, cancelled, sub, worker>> => Order'
  BY DEF Order, Ending, NoSendOnClosed

\* CallFrame: the place of the one call that waits.
LEMMA CallFrame == CallAnswered /\ UNCHANGED <<main, jobs, worker, result>> => CallAnswered'
  BY DEF CallAnswered, Queued, InWork, Waiting

-----------------------------------------------------------------------------
(***************************************************************************)
(* Bitcoin Core and the network.                                           *)
(***************************************************************************)
LEMMA CoreStep ==
  ASSUME Inductive,
         CoreRestarts \/ \E s \in Stream : Publish(s) \/ LoseMessage(s)
  PROVE  Inductive'
  <1> USE Sizes
  <1>1. CoreTypes'
    <2>1. ASSUME NEW s \in Stream, Publish(s) PROVE CoreTypes'
      <3> CoreTypes
        BY DEF Inductive, Types
      <3>1. sent[s] \in 0 .. MaxSent - 1
        <4>1. /\ sent["block"] \in 0 .. MaxSent /\ sent["tx"] \in 0 .. MaxSent
              /\ sent["block"] + sent["tx"] < MaxSent
          BY <2>1 DEF Publish, Stream, CoreTypes
        <4>2. s = "block" \/ s = "tx"
          BY DEF Stream
        <4>3. QED
          BY <4>1, <4>2
      <3>2. sent' \in [Stream -> 0 .. MaxSent]
        <4>1. sent[s] + 1 \in 0 .. MaxSent
          BY <3>1
        <4>2. sent' = [sent EXCEPT ![s] = sent[s] + 1] /\ sent \in [Stream -> 0 .. MaxSent]
          BY <2>1 DEF Publish, CoreTypes
        <4>3. QED
          BY <4>1, <4>2
      <3>3. coreSeq' \in [Stream -> 0 .. Width - 1]
        <4>1. (coreSeq[s] + 1) % Width \in 0 .. Width - 1
          BY DEF CoreTypes
        <4>2. QED
          BY <2>1, <4>1 DEF Publish, CoreTypes
      <3>4. [msg |-> sent[s] + 1, seq |-> coreSeq[s]] \in Packet
        BY <3>1 DEF Packet, Inductive, Types, CoreTypes
      <3>5. socket' \in [Stream -> Seq(Packet)]
        BY <2>1, <3>4 DEF Publish, Inductive, Types, CoreTypes
      <3>6. QED
        BY <3>2, <3>3, <3>5 DEF CoreTypes
    <2>2. ASSUME NEW s \in Stream, LoseMessage(s) PROVE CoreTypes'
      <3>1. SubSeq(socket[s], 1, Len(socket[s]) - 1) \in Seq(Packet)
        BY <2>2 DEF LoseMessage, Inductive, Types, CoreTypes
      <3>2. QED
        BY <2>2, <3>1 DEF LoseMessage, Inductive, Types, CoreTypes
    <2>3. ASSUME CoreRestarts PROVE CoreTypes'
      BY <2>3 DEF CoreRestarts, Inductive, Types, CoreTypes
    <2>4. QED
      BY <2>1, <2>2, <2>3
  <1>2. UNCHANGED <<subVars, main, jobs, worker, result, cancelled, chansClosed, owed>>
    BY DEF CoreRestarts, Publish, LoseMessage, Outside, writerVars
  <1>3. QED
    BY <1>1, <1>2, SubFrame, ChannelFrame, MainFrame, WriterFrame, OrderFrame, CallFrame
    DEF Inductive, Types, subVars

(***************************************************************************)
(* The subscriber's goroutines.                                            *)
(***************************************************************************)
\* LoopTopTyped: after a send the subscriber receives or has ended, and holds
\* no message.
LEMMA LoopTopTyped == LoopTop \in SubState /\ LoopTop.at # "push"
  <1>1. PICK x \in {"done", "recv"} : LoopTop = [at |-> x, msg |-> 0]
    BY DEF LoopTop
  <1>2. [at |-> x, msg |-> 0] \in SubState
    BY <1>1, Sizes DEF SubState
  <1>3. QED
    BY <1>1, <1>2

\* SubscriberStep: a step of a subscriber keeps the invariant.
LEMMA SubscriberStep ==
  ASSUME Inductive, NEW s \in Stream,
         SocketFails(s) \/ Reconnect(s) \/ Recv(s) \/ Push(s) \/ SubscriberEnds(s)
  PROVE  Inductive'
  <1> USE Sizes
  <1>1. UNCHANGED <<sent, coreSeq, main, jobs, worker, result, cancelled, chansClosed>>
    BY DEF SocketFails, Reconnect, Recv, Push, SubscriberEnds, SubOnly, writerVars
  <1>2. CoreTypes'
    <2>1. CoreTypes
      BY DEF Inductive, Types
    <2>2. CASE SocketFails(s)
      BY <1>1, <2>1, <2>2 DEF SocketFails, CoreTypes
    <2>3. CASE Recv(s)
      <3>1. Tail(socket[s]) \in Seq(Packet)
        BY <2>1, <2>3 DEF Recv, CoreTypes
      <3>2. QED
        BY <1>1, <2>1, <2>3, <3>1 DEF Recv, CoreTypes
    <2>4. CASE Reconnect(s) \/ Push(s) \/ SubscriberEnds(s)
      BY <1>1, <2>1, <2>4 DEF Reconnect, Push, SubscriberEnds, CoreTypes
    <2>5. QED
      BY <2>2, <2>3, <2>4
  <1>3. SubTypes'
    <2>1. CASE Recv(s)
      <3>1. Head(socket[s]) \in Packet
        BY <2>1 DEF Recv, Inductive, Types, CoreTypes
      <3>2. /\ lastSeq' = [lastSeq EXCEPT ![s] = Head(socket[s]).seq]
            /\ sub' = [sub EXCEPT ![s] = [at |-> "push", msg |-> Head(socket[s]).msg]]
        BY <2>1 DEF Recv, HandleSequence
      <3>3. [at |-> "push", msg |-> Head(socket[s]).msg] \in SubState
        BY <3>1 DEF SubState, Packet
      <3>4. QED
        BY <3>1, <3>2, <3>3 DEF Inductive, Types, SubTypes, Packet
    <2>2. CASE SocketFails(s) \/ Reconnect(s) \/ Push(s) \/ SubscriberEnds(s)
      <3>1. PICK x \in SubState : sub' = [sub EXCEPT ![s] = x] /\ x.at # "push"
        <4>1. CASE SocketFails(s)
          <5>1. sub' = [sub EXCEPT ![s] = [sub[s] EXCEPT !.at = "backoff"]]
            BY <4>1 DEF SocketFails, Goto
          <5>2. [sub[s] EXCEPT !.at = "backoff"] \in SubState
            BY DEF Inductive, Types, SubTypes, SubState
          <5>3. [sub[s] EXCEPT !.at = "backoff"].at = "backoff"
            BY DEF Inductive, Types, SubTypes, SubState
          <5>4. QED
            BY <5>1, <5>2, <5>3
        <4>2. CASE Reconnect(s)
          <5>1. sub' = [sub EXCEPT ![s] = [sub[s] EXCEPT !.at = "recv"]]
            BY <4>2 DEF Reconnect, Goto
          <5>2. [sub[s] EXCEPT !.at = "recv"] \in SubState
            BY DEF Inductive, Types, SubTypes, SubState
          <5>3. [sub[s] EXCEPT !.at = "recv"].at = "recv"
            BY DEF Inductive, Types, SubTypes, SubState
          <5>4. QED
            BY <5>1, <5>2, <5>3
        <4>3. CASE Push(s)
          <5>1. LoopTop \in SubState /\ LoopTop.at # "push"
            BY LoopTopTyped
          <5>2. QED
            BY <4>3, <5>1 DEF Push
        <4>4. CASE SubscriberEnds(s)
          <5>1. [at |-> "done", msg |-> 0] \in SubState
            BY DEF SubState
          <5>2. QED
            BY <4>4, <5>1 DEF SubscriberEnds
        <4>5. QED
          BY <2>2, <4>1, <4>2, <4>3, <4>4
      <3>2. UNCHANGED lastSeq
        BY <2>2 DEF SocketFails, Reconnect, Push, SubscriberEnds
      <3>3. QED
        BY <3>1, <3>2 DEF Inductive, Types, SubTypes
    <2>3. QED
      BY <2>1, <2>2
  <1>4. ChannelTypes'
    <2>1. CASE Recv(s)
      BY <2>1 DEF Recv, HandleSequence, Inductive, Types, ChannelTypes
    <2>2. CASE Push(s)
      <3>1. sub[s].msg \in 1 .. MaxSent
        BY <2>2 DEF Push, Inductive, Types, SubTypes, SubState
      <3>2. /\ Append(channel[s], sub[s].msg) \in Seq(1 .. MaxSent)
            /\ Len(Append(channel[s], sub[s].msg)) <= ChanSize
        BY <2>2, <3>1 DEF Push, Inductive, Types, ChannelTypes
      <3>3. QED
        BY <2>2, <3>2 DEF Push, Inductive, Types, ChannelTypes
    <2>3. CASE SocketFails(s) \/ Reconnect(s) \/ SubscriberEnds(s)
      BY <2>3, ChannelFrame DEF SocketFails, Reconnect, SubscriberEnds, Inductive, Types
    <2>4. QED
      BY <2>1, <2>2, <2>3
  <1>5. owed' \subseteq Stream
    BY DEF SocketFails, Reconnect, Recv, HandleSequence, OwedAfter, Push, SubscriberEnds,
           Inductive, Types, MainTypes
  <1>6. MainTypes'
    BY <1>1, <1>5 DEF Inductive, Types, MainTypes
  <1>7. Order'
    <2>1. \A r \in Stream : sub[r].at = "done" => sub'[r].at = "done"
      BY DEF SocketFails, Reconnect, Recv, Push, SubscriberEnds, Goto, Inductive, Types,
             SubTypes
    <2>2. QED
      BY <1>1, <2>1 DEF Inductive, Order, Ending, NoSendOnClosed
  <1>8. QED
    BY <1>1, <1>2, <1>3, <1>4, <1>6, <1>7, WriterFrame, CallFrame DEF Inductive, Types

(***************************************************************************)
(* The main goroutine.                                                     *)
(***************************************************************************)
\* What none of its actions changes.
LEMMA MainOnlyTypes ==
  ASSUME Inductive, MainOnly
  PROVE  CoreTypes' /\ SubTypes'
  BY CoreFrame, SubFrame DEF MainOnly, Inductive, Types, coreVars

\* NotWaiting: while main is not at await, the writer has nothing of main's.
LEMMA NotWaiting ==
  ASSUME Inductive, main.at # "await"
  PROVE  ~InWork /\ result = FALSE /\ Queued = {}
  BY DEF Inductive, CallAnswered, Types, WriterTypes

\* StillNotWaiting: and so it stays, if main does not wait and the writer has
\* what it had.
LEMMA StillNotWaiting ==
  ASSUME Inductive, main.at # "await", main'.at # "await",
         UNCHANGED <<jobs, worker, result>>
  PROVE  CallAnswered'
  BY NotWaiting DEF CallAnswered, Queued, InWork, Waiting

\* TakeMessageStep: the main loop takes a block or a transaction off its channel.
LEMMA TakeMessageStep == ASSUME Inductive, NEW s \in Stream, TakeMessage(s) PROVE Inductive'
  <1> USE Sizes
  <1>1. /\ UNCHANGED <<gapChan, jobs, worker, result, cancelled, chansClosed, owed, sub>>
        /\ MainOnly
    BY DEF TakeMessage, MainOnly
  <1>2. /\ Head(channel[s]) \in 1 .. MaxSent /\ Tail(channel[s]) \in Seq(1 .. MaxSent)
        /\ Len(Tail(channel[s])) <= ChanSize
    BY DEF TakeMessage, Inductive, Types, ChannelTypes
  <1>3. ChannelTypes'
    BY <1>1, <1>2 DEF TakeMessage, Inductive, Types, ChannelTypes
  <1>4. [kind |-> s, msg |-> Head(channel[s])] \in Job
    BY <1>2, JobTypes
  <1>5. /\ main' \in [at : MainPositions, job : Job, halt : BOOLEAN]
        /\ main'.at = "submit" /\ main'.job.kind = s
    BY <1>4 DEF TakeMessage, Inductive, Types, MainTypes, MainPositions
  <1>6. MainTypes'
    BY <1>1, <1>5 DEF Inductive, Types, MainTypes
  <1>7. Order'
    BY <1>1, <1>5 DEF TakeMessage, Inductive, Order, Ending, NoSendOnClosed
  <1>8. CallAnswered'
    BY <1>1, <1>5, StillNotWaiting DEF TakeMessage
  <1>9. QED
    BY <1>1, <1>3, <1>6, <1>7, <1>8, MainOnlyTypes, WriterFrame DEF Inductive, Types

\* AppendedJob: what an append does to the queue.
LEMMA AppendedJob ==
  ASSUME Inductive, Len(jobs) < JobSize, NEW j \in Job, jobs' = Append(jobs, j)
  PROVE  /\ jobs' \in Seq(Job) /\ Len(jobs') <= JobSize
         /\ Queued' = Queued \cup IF Waiting(j) THEN {Len(jobs) + 1} ELSE {}
         /\ jobs'[Len(jobs) + 1] = j
  <1> USE Sizes
  <1>1. jobs \in Seq(Job) /\ Len(jobs) \in Nat
    BY DEF Inductive, Types, WriterTypes
  <1>2. /\ jobs' \in Seq(Job) /\ Len(jobs') = Len(jobs) + 1
        /\ jobs'[Len(jobs) + 1] = j
        /\ \A i \in 1 .. Len(jobs) : jobs'[i] = jobs[i]
    BY <1>1
  <1>3. DOMAIN jobs = 1 .. Len(jobs) /\ DOMAIN jobs' = 1 .. Len(jobs) + 1
    BY <1>1, <1>2
  <1>4. Queued' = Queued \cup IF Waiting(j) THEN {Len(jobs) + 1} ELSE {}
    BY <1>1, <1>2, <1>3 DEF Queued, Waiting
  <1>5. QED
    BY <1>1, <1>2, <1>4

\* SubmitStep: the call joins the queue of the writer.
LEMMA SubmitStep == ASSUME Inductive, Submit PROVE Inductive'
  <1>1. /\ UNCHANGED <<channel, gapChan, worker, cancelled, chansClosed, owed, sub>>
        /\ MainOnly /\ main.at = "submit" /\ result' = FALSE
    BY DEF Submit, MainOnly
  <1>2. /\ main' \in [at : MainPositions, job : Job, halt : BOOLEAN]
        /\ main'.at = "await" /\ main'.job = main.job /\ main.job \in Job
    BY DEF Submit, Inductive, Types, MainTypes, MainPositions
  <1>3. main.job.kind \in Stream /\ Waiting(main.job)
    BY <1>1 DEF Inductive, Order, Stream, Waiting
  <1>4. /\ jobs' \in Seq(Job) /\ Len(jobs') <= JobSize
        /\ Queued' = Queued \cup {Len(jobs) + 1}
        /\ jobs'[Len(jobs) + 1] = main.job
    BY <1>2, <1>3, AppendedJob DEF Submit
  <1>5. MainTypes' /\ ChannelTypes'
    BY <1>1, <1>2, ChannelFrame DEF Inductive, Types, MainTypes
  <1>6. WriterTypes'
    BY <1>1, <1>4 DEF Inductive, Types, WriterTypes
  <1>7. Order'
    BY <1>1, <1>2, <1>3 DEF Inductive, Order, Ending, NoSendOnClosed
  <1>8. CallAnswered'
    <2>1. Queued' = {Len(jobs) + 1}
      BY <1>1, <1>4, NotWaiting
    <2>2. Len(jobs) + 1 \in DOMAIN jobs'
      BY <2>1 DEF Queued
    <2>3. ~InWork'
      BY <1>1, NotWaiting DEF InWork, Waiting
    <2>4. QED
      BY <1>1, <1>2, <1>4, <2>1, <2>2, <2>3 DEF CallAnswered
  <1>9. QED
    BY <1>1, <1>5, <1>6, <1>7, <1>8, MainOnlyTypes DEF Inductive, Types

\* PruneQueued: a prune job in the queue is nobody's.
LEMMA PruneQueued ==
  ASSUME Inductive, jobs' = WithPrune
  PROVE  jobs' \in Seq(Job) /\ Len(jobs') <= JobSize /\ Queued' = Queued
  <1>1. CASE Len(jobs) < JobSize
    <2>1. jobs' = Append(jobs, [kind |-> "prune", msg |-> 0])
      BY <1>1 DEF WithPrune
    <2>2. QED
      BY <1>1, <2>1, AppendedJob, JobTypes DEF Waiting
  <1>2. CASE ~(Len(jobs) < JobSize)
    BY <1>2 DEF WithPrune, Inductive, Types, WriterTypes, Queued, Waiting
  <1>3. QED
    BY <1>1, <1>2

\* AnsweredStep: the call returns with its answer.
LEMMA AnsweredStep == ASSUME Inductive, Answered PROVE Inductive'
  <1>1. /\ UNCHANGED <<channel, gapChan, worker, cancelled, chansClosed, sub>>
        /\ MainOnly /\ main.at = "await" /\ result = TRUE /\ result' = FALSE
    BY DEF Answered, MainOnly, Inductive, Types, WriterTypes
  <1>2. /\ main' \in [at : MainPositions, job : Job, halt : BOOLEAN]
        /\ main'.at \in {"select", "recover"}
        /\ main'.at = "recover" => main'.job.kind \in Stream
    BY JobTypes DEF Answered, Inductive, Types, MainTypes, MainPositions, Stream
  <1>3. owed' \subseteq Stream
    BY DEF Answered, Inductive, Types, MainTypes
  <1>4. jobs' \in Seq(Job) /\ Len(jobs') <= JobSize /\ Queued' = Queued
    <2>1. jobs' = jobs \/ jobs' = WithPrune
      BY DEF Answered
    <2>2. CASE jobs' = jobs
      BY <2>2 DEF Inductive, Types, WriterTypes, Queued, Waiting
    <2>3. QED
      BY <2>1, <2>2, PruneQueued
  <1>5. MainTypes' /\ ChannelTypes'
    BY <1>1, <1>2, <1>3, ChannelFrame DEF Inductive, Types, MainTypes
  <1>6. WriterTypes'
    BY <1>1, <1>4 DEF Inductive, Types, WriterTypes
  <1>7. Order'
    BY <1>1, <1>2 DEF Inductive, Order, Ending, NoSendOnClosed
  <1>8. CallAnswered'
    <2>1. ~InWork /\ Queued = {}
      BY <1>1 DEF Inductive, CallAnswered
    <2>2. ~InWork'
      BY <1>1, <2>1 DEF InWork, Waiting
    <2>3. QED
      BY <1>1, <1>2, <1>4, <2>1, <2>2 DEF CallAnswered
  <1>9. QED
    BY <1>1, <1>5, <1>6, <1>7, <1>8, MainOnlyTypes DEF Inductive, Types

\* MovesOnly: main goes from a position where it does not wait to another.
LEMMA MovesOnly ==
  ASSUME Inductive, MainOnly, UNCHANGED <<jobs, result>>,
         main.at # "await", main'.at # "await",
         ChannelTypes', MainTypes', Order'
  PROVE  Inductive'
  <1>1. UNCHANGED <<jobs, worker, result>>
    BY DEF MainOnly
  <1>2. QED
    BY <1>1, MainOnlyTypes, StillNotWaiting, WriterFrame DEF Inductive, Types

\* RecoverStep: a gap event or a ticker starts a catch-up or a reconcile.
LEMMA RecoverStep ==
  ASSUME Inductive, TakeGap \/ \E s \in Stream : Tick(s)
  PROVE  Inductive'
  <1>1. PICK s \in Stream : Recovering(s) /\ main.at = "select"
    BY DEF TakeGap, Tick, Inductive, Types, ChannelTypes
  <1>2. MainOnly /\ UNCHANGED <<channel, jobs, worker, result, cancelled, chansClosed, sub>>
    BY DEF TakeGap, Tick, MainOnly
  <1>3. /\ main' \in [at : MainPositions, job : Job, halt : BOOLEAN]
        /\ main'.at = "recover" /\ main'.job.kind = s /\ owed' \subseteq Stream
    <2>1. [kind |-> s, msg |-> 0] \in Job
      BY JobTypes, Sizes
    <2>2. QED
      BY <1>1, <2>1 DEF Recovering, Inductive, Types, MainTypes, MainPositions
  <1>4. ChannelTypes'
    <2>1. CASE gapChan # <<>> /\ gapChan' = Tail(gapChan)
      <3>1. Tail(gapChan) \in Seq(Stream) /\ Len(Tail(gapChan)) <= GapSize
        BY <2>1, Sizes DEF Inductive, Types, ChannelTypes
      <3>2. QED
        BY <1>2, <2>1, <3>1 DEF Inductive, Types, ChannelTypes
    <2>2. CASE UNCHANGED gapChan
      BY <1>2, <2>2, ChannelFrame DEF Inductive, Types
    <2>3. QED
      BY <2>1, <2>2 DEF TakeGap, Tick
  <1>5. MainTypes'
    BY <1>2, <1>3 DEF Inductive, Types, MainTypes
  <1>6. Order'
    BY <1>1, <1>2, <1>3 DEF Inductive, Order, Ending, NoSendOnClosed
  <1>7. QED
    BY <1>1, <1>2, <1>3, <1>4, <1>5, <1>6, MovesOnly

\* TriggerPruneStep: a prune job that nobody waits for.
LEMMA TriggerPruneStep == ASSUME Inductive, TriggerPrune PROVE Inductive'
  <1>1. /\ UNCHANGED <<main, channel, gapChan, worker, result, cancelled, chansClosed,
                       owed, sub>>
        /\ MainOnly /\ main.at = "select" /\ jobs' = WithPrune
    BY DEF TriggerPrune, MainOnly
  <1>2. WriterTypes' /\ Queued' = Queued
    BY <1>1, PruneQueued DEF Inductive, Types, WriterTypes
  <1>3. CallAnswered'
    BY <1>1, <1>2, NotWaiting DEF CallAnswered, InWork, Waiting
  <1>4. QED
    BY <1>1, <1>2, <1>3, MainOnlyTypes, MainFrame, ChannelFrame, OrderFrame
    DEF Inductive, Types

\* BackfillStep: the backfill hands a transaction to the writer, or the recovery ends.
LEMMA BackfillStep == ASSUME Inductive, Backfill \/ Recovered PROVE Inductive'
  <1>1. /\ MainOnly /\ main.at = "recover"
        /\ UNCHANGED <<channel, gapChan, jobs, worker, result, cancelled, chansClosed,
                       owed, sub>>
    BY DEF Backfill, Recovered, MainOnly
  <1>2. /\ main' \in [at : MainPositions, job : Job, halt : BOOLEAN]
        /\ main'.at \in {"submit", "select", "stop"}
        /\ main'.at = "submit" => main'.job.kind \in Stream
    BY JobTypes DEF Backfill, Recovered, Inductive, Types, MainTypes, MainPositions, Stream
  <1>3. MainTypes'
    BY <1>1, <1>2 DEF Inductive, Types, MainTypes
  <1>4. Order'
    BY <1>1, <1>2 DEF Inductive, Order, Ending, NoSendOnClosed
  <1>5. QED
    BY <1>1, <1>2, <1>3, <1>4, ChannelFrame, MovesOnly DEF Inductive, Types

(***************************************************************************)
(* The writer's goroutine.                                                 *)
(***************************************************************************)
\* The other variables, while the writer is at work.
LEMMA WriterOnlyRest ==
  ASSUME Inductive, WriterOnly
  PROVE  CoreTypes' /\ SubTypes' /\ ChannelTypes' /\ MainTypes'
  BY CoreFrame, SubFrame, ChannelFrame, MainFrame
  DEF WriterOnly, Inductive, Types, coreVars, subVars, historyVars

\* TakeJobStep: the writer takes the job at the head of its queue.
LEMMA TakeJobStep == ASSUME Inductive, TakeJob PROVE Inductive'
  <1>1. /\ UNCHANGED <<result, main, chansClosed, cancelled, sub>> /\ WriterOnly
        /\ worker.at = "select" /\ jobs # <<>> /\ jobs' = Tail(jobs)
        /\ worker' = [at |-> "process", job |-> Head(jobs)]
    BY DEF TakeJob, WriterOnly, subVars
  <1>2. jobs \in Seq(Job) /\ Len(jobs) \in Nat /\ Len(jobs) <= JobSize /\ Len(jobs) > 0
    BY <1>1 DEF Inductive, Types, WriterTypes
  <1>3. /\ jobs' \in Seq(Job) /\ Len(jobs') = Len(jobs) - 1
        /\ \A i \in 1 .. Len(jobs) - 1 : jobs'[i] = jobs[i + 1]
        /\ Head(jobs) = jobs[1] /\ Head(jobs) \in Job
    BY <1>1, <1>2
  <1>4. WriterTypes'
    <2>1. worker' \in [at : {"select", "process", "done"}, job : Job]
      BY <1>1, <1>3
    <2>2. Len(jobs') <= JobSize
      BY <1>2, <1>3, Sizes
    <2>3. QED
      BY <1>1, <1>3, <2>1, <2>2 DEF Inductive, Types, WriterTypes
  <1>5. Order'
    BY <1>1 DEF Inductive, Order, Ending, NoSendOnClosed
  <1>6. CallAnswered'
    <2>1. ~InWork /\ (InWork' <=> Waiting(jobs[1]))
      BY <1>1, <1>3 DEF InWork, Waiting
    <2>2. /\ DOMAIN jobs = 1 .. Len(jobs) /\ DOMAIN jobs' = 1 .. Len(jobs) - 1
      BY <1>2, <1>3
    <2>3. Queued' = {i \in 1 .. Len(jobs) - 1 : i + 1 \in Queued}
      BY <1>2, <1>3, <2>2 DEF Queued, Waiting
    <2>4. 1 \in Queued <=> Waiting(jobs[1])
      BY <1>2, <2>2 DEF Queued
    <2>5. CASE Queued = {}
      BY <1>1, <2>1, <2>3, <2>4, <2>5 DEF Inductive, CallAnswered
    <2>6. ASSUME NEW i \in DOMAIN jobs, Queued = {i}, jobs[i] = main.job,
                 main.at = "await", result = FALSE
          PROVE  CallAnswered'
      <3>1. CASE i = 1
        <4>1. Queued' = {} /\ InWork' /\ worker'.job = main.job
          BY <1>1, <1>3, <2>1, <2>3, <2>4, <2>6, <3>1
        <4>2. QED
          BY <1>1, <2>6, <4>1 DEF CallAnswered
      <3>2. CASE i # 1
        <4>1. i - 1 \in 1 .. Len(jobs) - 1 /\ Queued' = {i - 1} /\ ~InWork'
          BY <1>2, <2>1, <2>2, <2>3, <2>4, <2>6, <3>2
        <4>2. i - 1 \in DOMAIN jobs' /\ jobs'[i - 1] = main.job
          BY <1>2, <1>3, <2>2, <2>6, <4>1
        <4>3. QED
          BY <1>1, <2>6, <4>1, <4>2 DEF CallAnswered
      <3>3. QED
        BY <3>1, <3>2
    <2>7. QED
      BY <2>1, <2>5, <2>6 DEF Inductive, CallAnswered, Types, WriterTypes
  <1>7. QED
    BY <1>1, <1>4, <1>5, <1>6, WriterOnlyRest DEF Inductive, Types

\* ProcessJobStep: the writer answers the call, if one waits for the job.
LEMMA ProcessJobStep == ASSUME Inductive, ProcessJob PROVE Inductive'
  <1>1. /\ UNCHANGED <<jobs, main, chansClosed, cancelled, sub>> /\ WriterOnly
        /\ worker.at = "process"
        /\ worker' = [at |-> "select", job |-> NoJob]
        /\ result' = (result \/ worker.job.kind # "prune")
    BY DEF ProcessJob, WriterOnly, subVars
  <1>2. WriterTypes'
    <2>1. worker' \in [at : {"select", "process", "done"}, job : Job]
      BY <1>1, JobTypes
    <2>2. QED
      BY <1>1, <2>1 DEF Inductive, Types, WriterTypes
  <1>3. Order'
    BY <1>1 DEF Inductive, Order, Ending, NoSendOnClosed
  <1>4. CallAnswered'
    <2>1. Queued' = Queued /\ ~InWork' /\ (InWork <=> worker.job.kind # "prune")
      BY <1>1 DEF Queued, InWork, Waiting
    <2>2. CASE InWork
      <3>1. main.at = "await" /\ Queued = {} /\ result'
        BY <1>1, <2>1, <2>2 DEF Inductive, CallAnswered
      <3>2. QED
        BY <1>1, <2>1, <3>1 DEF CallAnswered
    <2>3. CASE ~InWork
      <3>1. result' <=> result
        BY <1>1, <2>1, <2>3
      <3>2. QED
        BY <1>1, <2>1, <2>3, <3>1 DEF Inductive, CallAnswered
    <2>4. QED
      BY <2>2, <2>3
  <1>5. QED
    BY <1>1, <1>2, <1>3, <1>4, WriterOnlyRest DEF Inductive, Types

\* When the writer ends, main has long stopped waiting: Close comes last.
LEMMA WorkerEndsStep == ASSUME Inductive, WorkerEnds PROVE Inductive'
  <1>1. /\ UNCHANGED <<main, chansClosed, cancelled, sub>> /\ WriterOnly
        /\ worker.at = "select" /\ "writer" \in cancelled
        /\ worker' = [worker EXCEPT !.at = "done"] /\ jobs' = <<>>
        /\ result' = (result \/ \E i \in DOMAIN jobs : jobs[i].kind # "prune")
    BY DEF WorkerEnds, WriterOnly, subVars
  <1>2. main.at \in {"closeWriter", "exited"}
    BY <1>1 DEF Inductive, Order, Ending
  <1>3. Queued = {} /\ result = FALSE
    BY <1>2, NotWaiting
  <1>4. result' = FALSE
    BY <1>1, <1>3 DEF Queued, Waiting
  <1>5. WriterTypes'
    BY <1>1, <1>4, Sizes DEF Inductive, Types, WriterTypes
  <1>6. worker'.at = "done"
    BY <1>1 DEF Inductive, Types, WriterTypes
  <1>7. Order'
    BY <1>1, <1>6 DEF Inductive, Order, Ending, NoSendOnClosed
  <1>8. CallAnswered'
    BY <1>1, <1>2, <1>4, <1>6 DEF CallAnswered, InWork, Queued
  <1>9. QED
    BY <1>1, <1>5, <1>7, <1>8, WriterOnlyRest DEF Inductive, Types

(***************************************************************************)
(* Shutdown.                                                               *)
(***************************************************************************)
LEMMA SignalStep == ASSUME Inductive, Signal PROVE Inductive'
  <1>1. /\ UNCHANGED <<coreVars, subVars, main, jobs, worker, result, chansClosed, owed>>
        /\ cancelled' = cancelled \cup {"main"}
    BY DEF Signal, writerVars, historyVars
  <1>2. MainTypes'
    BY <1>1 DEF Inductive, Types, MainTypes
  <1>3. Order'
    BY <1>1 DEF Inductive, Order, Ending, NoSendOnClosed, subVars
  <1>4. QED
    BY <1>1, <1>2, <1>3, CoreFrame, SubFrame, ChannelFrame, WriterFrame, CallFrame
    DEF Inductive, Types, subVars

\* ShutdownStep: the steps by which the main goroutine stops the others.
LEMMA ShutdownStep ==
  ASSUME Inductive, LoopReturns \/ StopZmq \/ CloseChans \/ Exit
  PROVE  Inductive'
  <1>1. /\ UNCHANGED <<channel, gapChan, jobs, worker, result, owed, sub>> /\ MainOnly
        /\ main.at \in {"select", "stop", "stopZmq", "closeWriter"}
    BY DEF LoopReturns, StopZmq, CloseChans, Exit, MainOnly
  <1>2. /\ main' \in [at : MainPositions, job : Job, halt : BOOLEAN]
        /\ main'.at \in {"stop", "stopZmq", "closeWriter", "exited"}
    BY DEF LoopReturns, StopZmq, CloseChans, Exit, Inductive, Types, MainTypes, MainPositions
  <1>3. MainTypes'
    BY <1>1, <1>2 DEF LoopReturns, StopZmq, CloseChans, Exit, Inductive, Types, MainTypes
  <1>4. Order'
    <2>1. CASE LoopReturns \/ StopZmq
      <3>1. main'.at \in {"stop", "stopZmq"} /\ UNCHANGED chansClosed
        BY <2>1 DEF LoopReturns, StopZmq, Inductive, Types, MainTypes
      <3>2. "writer" \notin cancelled'
        BY <2>1 DEF LoopReturns, StopZmq, Inductive, Order, Ending
      <3>3. QED
        BY <1>1, <3>1, <3>2 DEF Inductive, Order, Ending, NoSendOnClosed
    <2>2. CASE CloseChans
      <3>1. main'.at = "closeWriter" /\ chansClosed' /\ \A s \in Stream : sub[s].at = "done"
        BY <2>2 DEF CloseChans, Inductive, Types, MainTypes
      <3>2. QED
        BY <1>1, <3>1 DEF Order, Ending, NoSendOnClosed
    <2>3. CASE Exit
      <3>1. main'.at = "exited" /\ worker.at = "done" /\ UNCHANGED <<cancelled, chansClosed>>
        BY <2>3 DEF Exit, Inductive, Types, MainTypes
      <3>2. chansClosed
        BY <2>3 DEF Exit, Inductive, Order, Ending
      <3>3. QED
        BY <1>1, <3>1, <3>2 DEF Inductive, Order, Ending, NoSendOnClosed
    <2>4. QED
      BY <2>1, <2>2, <2>3
  <1>5. QED
    BY <1>1, <1>2, <1>3, <1>4, ChannelFrame, MovesOnly DEF Inductive, Types

-----------------------------------------------------------------------------
\* InductiveHolds: types, the order of shutdown and the state of the writer's
\* calls are preserved by every step.
THEOREM InductiveHolds == Spec => []Inductive
  <1>1. Inductive /\ [Next]_vars => Inductive'
    <2> SUFFICES ASSUME Inductive, [Next]_vars PROVE Inductive'
      OBVIOUS
    <2>1. CASE UNCHANGED vars
      BY <2>1, CoreFrame, SubFrame, ChannelFrame, MainFrame, WriterFrame, OrderFrame,
         CallFrame
      DEF vars, coreVars, subVars, writerVars, historyVars, Inductive, Types
    <2>2. CASE Next
      BY <2>2, CoreStep, SubscriberStep, TakeMessageStep, SubmitStep, AnsweredStep,
         RecoverStep, TriggerPruneStep, BackfillStep, TakeJobStep, ProcessJobStep,
         WorkerEndsStep, SignalStep, ShutdownStep
      DEF Next, Subscriber, Worker, Shutdown
    <2>3. QED
      BY <2>1, <2>2
  <1>2. QED
    BY <1>1, InitInductive, PTL DEF Spec

\* TypeCorrect: every variable of the pipeline keeps its type, and no channel
\* or queue holds more than its capacity.
THEOREM TypeCorrect == Spec => []TypeOK
  <1>1. Inductive => TypeOK
    BY TypesImplyTypeOK DEF Inductive
  <1>2. QED
    BY <1>1, InductiveHolds, PTL

\* NoSendOnClosedHolds: ZMQSubscriber.Stop closes its channels only when no
\* goroutine can send on them any more.
THEOREM NoSendOnClosedHolds == Spec => []NoSendOnClosed
  <1>1. Inductive => NoSendOnClosed
    BY DEF Inductive, Order
  <1>2. QED
    BY <1>1, InductiveHolds, PTL

\* CallAnsweredHolds: the job of a call that waits for the writer is queued, in
\* work or answered, in exactly one of these, through shutdown too.
THEOREM CallAnsweredHolds == Spec => []CallAnswered
  <1>1. Inductive => CallAnswered
    BY DEF Inductive
  <1>2. QED
    BY <1>1, InductiveHolds, PTL

\* OneIndexerHolds: catch-up and reconcile in the main goroutine never run
\* beside a block or transaction job, and main returns after all others.
THEOREM OneIndexerHolds == Spec => []OneIndexer
  <1>1. Inductive => OneIndexer
    <2> SUFFICES ASSUME Inductive PROVE OneIndexer
      OBVIOUS
    <2>1. main.at = "recover" => ~InWork
      BY NotWaiting
    <2>2. main.at = "exited" => worker.at = "done" /\ \A s \in Stream : sub[s].at = "done"
      BY DEF Inductive, Order, Ending, NoSendOnClosed
    <2>3. QED
      BY <2>1, <2>2 DEF OneIndexer
  <1>2. QED
    BY <1>1, InductiveHolds, PTL

-----------------------------------------------------------------------------
(***************************************************************************)
(* The refinement of Feed.  What a stream has in flight is four sequences  *)
(* one after the other: the message main has taken, the channel, the one   *)
(* the subscriber holds and the socket.  An action moves a message from    *)
(* one to the next, which changes nothing of the whole, or is a step of    *)
(* Feed.                                                                   *)
(***************************************************************************)
\* Jobs without a message stay without one: a prune job, and what main has when
\* it reconciles the mempool.
Empty ==
  /\ main.at = "recover" /\ main.job.kind = "tx" => main.job.msg = 0
  /\ \A i \in DOMAIN jobs : jobs[i].kind = "prune" => jobs[i].msg = 0
  /\ worker.job.kind = "prune" => worker.job.msg = 0

\* EmptyQueue: an append of a job that is empty, or not a prune job.
LEMMA EmptyQueue ==
  ASSUME Inductive, Empty, NEW j \in Job, j.kind = "prune" => j.msg = 0,
         jobs' = Append(jobs, j)
  PROVE  \A i \in DOMAIN jobs' : jobs'[i].kind = "prune" => jobs'[i].msg = 0
  <1>1. jobs \in Seq(Job)
    BY DEF Inductive, Types, WriterTypes
  <1>2. \A i \in DOMAIN jobs' : (i \in DOMAIN jobs /\ jobs'[i] = jobs[i]) \/ jobs'[i] = j
    BY <1>1
  <1>3. QED
    BY <1>2 DEF Empty

\* EmptyPrune: the same of the prune job of the ticker, or of a block.
LEMMA EmptyPrune ==
  ASSUME Inductive, Empty, jobs' = jobs \/ jobs' = WithPrune
  PROVE  \A i \in DOMAIN jobs' : jobs'[i].kind = "prune" => jobs'[i].msg = 0
  <1>1. CASE jobs' = jobs
    BY <1>1 DEF Empty
  <1>2. CASE jobs' = Append(jobs, [kind |-> "prune", msg |-> 0])
    BY <1>2, EmptyQueue, JobTypes
  <1>3. QED
    BY <1>1, <1>2 DEF WithPrune

\* EmptyKeeps: no step gives a job a message it had not.
LEMMA EmptyKeeps == ASSUME Inductive, Empty, [Next]_vars PROVE Empty'
  <1>1. CASE UNCHANGED <<main, jobs, worker>>
    BY <1>1 DEF Empty
  <1>2. ASSUME UNCHANGED worker, main'.at # "recover",
               \A i \in DOMAIN jobs' : jobs'[i].kind = "prune" => jobs'[i].msg = 0
        PROVE  Empty'
    BY <1>2 DEF Empty
  <1>m. main \in [at : MainPositions, job : Job, halt : BOOLEAN]
    BY DEF Inductive, Types, MainTypes
  <1>3. CASE Submit
    <2>1. /\ main.at = "submit" /\ main.job.kind # "prune" /\ main.job \in Job
          /\ main'.at = "await" /\ UNCHANGED worker /\ jobs' = Append(jobs, main.job)
      BY <1>3, <1>m DEF Submit, MainOnly, Inductive, Order, Stream
    <2>2. QED
      BY <1>2, <2>1, EmptyQueue
  <1>4. CASE Answered
    <2>1. UNCHANGED worker /\ (jobs' = jobs \/ jobs' = WithPrune)
      BY <1>4 DEF Answered, MainOnly
    <2>2. main'.at # "recover" \/ main'.job.kind = "block"
      BY <1>4, <1>m DEF Answered
    <2>3. QED
      BY <2>1, <2>2, EmptyPrune DEF Empty
  <1>5. CASE TriggerPrune
    <2>1. UNCHANGED <<worker, main>> /\ jobs' = WithPrune
      BY <1>5 DEF TriggerPrune, MainOnly
    <2>2. QED
      BY <2>1, EmptyPrune DEF Empty
  <1>6. CASE TakeGap \/ \E s \in Stream : Tick(s)
    <2>1. PICK s : main' = [main EXCEPT !.at = "recover", !.job = [kind |-> s, msg |-> 0]]
      BY <1>6 DEF TakeGap, Tick, Recovering
    <2>2. main'.job.msg = 0
      BY <1>m, <2>1
    <2>3. UNCHANGED <<worker, jobs>>
      BY <1>6 DEF TakeGap, Tick, MainOnly
    <2>4. QED
      BY <2>2, <2>3 DEF Empty
  <1>7. CASE \/ Backfill \/ Recovered \/ LoopReturns \/ StopZmq \/ CloseChans \/ Exit
             \/ \E s \in Stream : TakeMessage(s)
    <2>1. UNCHANGED <<worker, jobs>> /\ main'.at # "recover"
      BY <1>7, <1>m DEF Backfill, Recovered, LoopReturns, StopZmq, CloseChans, Exit,
                        TakeMessage, MainOnly
    <2>2. QED
      BY <2>1 DEF Empty
  <1>8. CASE TakeJob
    <2>1. /\ UNCHANGED main /\ worker'.job = Head(jobs) /\ jobs' = Tail(jobs)
          /\ jobs # <<>> /\ jobs \in Seq(Job)
      BY <1>8 DEF TakeJob, WriterOnly, Inductive, Types, WriterTypes
    <2>2. /\ 1 \in DOMAIN jobs /\ Head(jobs) = jobs[1]
          /\ \A i \in DOMAIN jobs' : i + 1 \in DOMAIN jobs /\ jobs'[i] = jobs[i + 1]
      BY <2>1
    <2>3. QED
      BY <2>1, <2>2 DEF Empty
  <1>9. CASE ProcessJob
    BY <1>9 DEF ProcessJob, WriterOnly, Empty, NoJob
  <1>10. CASE WorkerEnds
    <2>1. UNCHANGED main /\ worker'.job = worker.job /\ jobs' = <<>>
      BY <1>10 DEF WorkerEnds, WriterOnly, Inductive, Types, WriterTypes
    <2>2. QED
      BY <2>1 DEF Empty
  <1>11. CASE \/ CoreRestarts \/ Signal \/ UNCHANGED vars
              \/ \E s \in Stream : \/ Publish(s) \/ LoseMessage(s) \/ SocketFails(s)
                                   \/ Reconnect(s) \/ Recv(s) \/ Push(s) \/ SubscriberEnds(s)
    <2>1. UNCHANGED <<main, jobs, worker>>
      BY <1>11 DEF CoreRestarts, Signal, vars, Publish, LoseMessage, SocketFails, Reconnect,
                   Recv, Push, SubscriberEnds, Outside, SubOnly, writerVars
    <2>2. QED
      BY <1>1, <2>1
  <1>12. QED
    BY <1>3, <1>4, <1>5, <1>6, <1>7, <1>8, <1>9, <1>10, <1>11
    DEF Next, Subscriber, Worker, Shutdown

\* Numbers of messages.
Number == 1 .. MaxSent

\* PacketMsg: a packet has a message.
LEMMA PacketMsg == \A p \in Packet : p.msg \in Number
  BY DEF Packet, Number

\* MsgsTyped: the messages of a socket, in its order.
LEMMA MsgsTyped ==
  ASSUME NEW q \in Seq(Packet)
  PROVE  /\ Msgs(q) \in Seq(Number) /\ Len(Msgs(q)) = Len(q)
         /\ \A i \in 1 .. Len(q) : Msgs(q)[i] = q[i].msg
  <1>1. DOMAIN q = 1 .. Len(q) /\ Len(q) \in Nat
    OBVIOUS
  <1>2. Msgs(q) = [i \in 1 .. Len(q) |-> q[i].msg]
    BY <1>1 DEF Msgs
  <1>3. \A i \in 1 .. Len(q) : q[i].msg \in Number
    BY ElementOfSeq, PacketMsg
  <1>4. Msgs(q) \in [1 .. Len(q) -> Number]
    BY <1>2, <1>3
  <1>5. Msgs(q) \in Seq(Number)
    BY <1>1, <1>4, SeqDef
  <1>6. 1 .. Len(Msgs(q)) = 1 .. Len(q) /\ Len(Msgs(q)) \in Nat
    BY <1>4, <1>5, LenProperties
  <1>7. Len(Msgs(q)) = Len(q)
    BY <1>1, <1>6
  <1>8. QED
    BY <1>2, <1>5, <1>7

\* MsgsAppend: one more packet is one more message.
LEMMA MsgsAppend ==
  ASSUME NEW q \in Seq(Packet), NEW p \in Packet
  PROVE  Msgs(Append(q, p)) = Append(Msgs(q), p.msg)
  <1> DEFINE r == Append(q, p)
             m == Append(Msgs(q), p.msg)
  <1>1. /\ r \in Seq(Packet) /\ Len(r) = Len(q) + 1 /\ Len(q) \in Nat
        /\ \A i \in 1 .. Len(q) : r[i] = q[i]
        /\ r[Len(q) + 1] = p
    OBVIOUS
  <1>2. /\ Msgs(q) \in Seq(Number) /\ Len(Msgs(q)) = Len(q) /\ p.msg \in Number
        /\ \A i \in 1 .. Len(q) : Msgs(q)[i] = q[i].msg
    BY MsgsTyped, PacketMsg
  <1>3. /\ m \in Seq(Number) /\ Len(m) = Len(q) + 1
        /\ \A i \in 1 .. Len(q) : m[i] = q[i].msg
        /\ m[Len(q) + 1] = p.msg
    BY <1>2, AppendProperties
  <1> HIDE DEF r, m
  <1>4. /\ Msgs(r) \in Seq(Number) /\ Len(Msgs(r)) = Len(q) + 1
        /\ \A i \in 1 .. Len(q) + 1 : Msgs(r)[i] = r[i].msg
    BY <1>1, MsgsTyped
  <1>5. \A i \in 1 .. Len(q) + 1 : Msgs(r)[i] = m[i]
    <2> TAKE i \in 1 .. Len(q) + 1
    <2>1. i = Len(q) + 1 \/ i \in 1 .. Len(q)
      BY <1>1
    <2>2. QED
      BY <1>1, <1>3, <1>4, <2>1
  <1>6. Msgs(r) = m
    BY <1>3, <1>4, <1>5, SeqEqual
  <1>7. QED
    BY <1>6 DEF r, m

\* MsgsHead: the first packet, and the rest.
LEMMA MsgsHead ==
  ASSUME NEW q \in Seq(Packet), q # <<>>
  PROVE  Msgs(q) = <<Head(q).msg>> \o Msgs(Tail(q))
  <1>1. /\ Head(q) \in Packet /\ Head(q) = q[1] /\ Len(q) \in Nat /\ Len(q) > 0
        /\ Tail(q) \in Seq(Packet) /\ Len(Tail(q)) = Len(q) - 1
        /\ \A i \in 1 .. Len(q) - 1 : Tail(q)[i] = q[i + 1]
    OBVIOUS
  <1>2. <<Head(q).msg>> \in Seq(Number)
    BY <1>1, PacketMsg
  <1>3. /\ Msgs(q) \in Seq(Number) /\ Len(Msgs(q)) = Len(q)
        /\ \A i \in 1 .. Len(q) : Msgs(q)[i] = q[i].msg
    BY MsgsTyped
  <1> DEFINE h == Head(q).msg
             t == Tail(q)
             m == <<h>> \o Msgs(t)
  <1>4. /\ Msgs(t) \in Seq(Number) /\ Len(Msgs(t)) = Len(q) - 1
        /\ \A i \in 1 .. Len(q) - 1 : Msgs(t)[i] = q[i + 1].msg
    <2> HIDE DEF t
    <2>1. /\ t \in Seq(Packet) /\ Len(t) = Len(q) - 1
          /\ \A i \in 1 .. Len(q) - 1 : t[i] = q[i + 1]
      BY <1>1 DEF t
    <2>2. QED
      BY <2>1, MsgsTyped
  <1> HIDE DEF h, t
  <1>5. <<h>> \in Seq(Number) /\ Len(<<h>>) = 1 /\ <<h>>[1] = q[1].msg
    BY <1>1, <1>2 DEF h
  <1>6. /\ m \in Seq(Number) /\ Len(m) = Len(q)
        /\ m[1] = q[1].msg /\ \A i \in 2 .. Len(q) : m[i] = Msgs(t)[i - 1]
    <2>1. \A u \in Seq(Number), v \in Seq(Number) :
            /\ u \o v \in Seq(Number) /\ Len(u \o v) = Len(u) + Len(v)
            /\ \A i \in 1 .. Len(u) + Len(v) :
                  (u \o v)[i] = IF i <= Len(u) THEN u[i] ELSE v[i - Len(u)]
      BY ConcatProperties
    <2>2. /\ m \in Seq(Number) /\ Len(m) = 1 + (Len(q) - 1)
          /\ \A i \in 1 .. 1 + (Len(q) - 1) :
                m[i] = IF i <= 1 THEN <<h>>[i] ELSE Msgs(t)[i - 1]
      BY <1>4, <1>5, <2>1
    <2> HIDE DEF m
    <2>3. QED
      BY <1>1, <1>5, <2>2
  <1> HIDE DEF m
  <1>7. \A i \in 2 .. Len(q) : Msgs(t)[i - 1] = q[i].msg
    <2> TAKE i \in 2 .. Len(q)
    <2>1. i - 1 \in 1 .. Len(q) - 1 /\ (i - 1) + 1 = i
      BY <1>1
    <2>2. QED
      BY <1>4, <2>1
  <1>8. \A i \in 1 .. Len(q) : Msgs(q)[i] = m[i]
    <2> TAKE i \in 1 .. Len(q)
    <2>1. i = 1 \/ i \in 2 .. Len(q)
      BY <1>1
    <2>2. QED
      BY <1>3, <1>6, <1>7, <2>1
  <1>9. Msgs(q) = m
    BY <1>3, <1>6, <1>8, SeqEqual
  <1>10. QED
    BY <1>9 DEF h, t, m

\* MsgsLast: all but the last packet, and the last.
LEMMA MsgsLast ==
  ASSUME NEW q \in Seq(Packet), q # <<>>
  PROVE  /\ SubSeq(q, 1, Len(q) - 1) \in Seq(Packet) /\ q[Len(q)] \in Packet
         /\ Msgs(q) = Append(Msgs(SubSeq(q, 1, Len(q) - 1)), q[Len(q)].msg)
  <1>1. Len(q) \in Nat /\ Len(q) > 0 /\ q[Len(q)] \in Packet
    OBVIOUS
  <1>2. SubSeq(q, 1, Len(q) - 1) \in Seq(Packet)
    BY <1>1
  <1>3. q = Append(SubSeq(q, 1, Len(q) - 1), q[Len(q)])
    <2>1. SubSeq(q, 1, Len(q)) = SubSeq(q, 1, Len(q) - 1) \o <<q[Len(q)]>>
      BY <1>1, SubSeqRecursiveSecond
    <2>2. QED
      BY <1>1, <1>2, <2>1, SubSeqFull, AppendIsConcat
  <1>4. QED
    BY <1>1, <1>2, <1>3, MsgsAppend

\* CutFrom: the front of two sequences.
LEMMA CutFrom ==
  ASSUME NEW a \in Seq(Number), NEW b \in Seq(Number)
  PROVE  SubSeq(a \o b, 1, Len(a)) = a
  <1> DEFINE w == a \o b
             c == SubSeq(w, 1, Len(a))
  <1>1. /\ w \in Seq(Number) /\ Len(w) = Len(a) + Len(b)
        /\ Len(a) \in Nat /\ Len(b) \in Nat
        /\ \A i \in 1 .. Len(a) : w[i] = a[i]
    <2>1. \A i \in 1 .. Len(a) + Len(b) : w[i] = IF i <= Len(a) THEN a[i] ELSE b[i - Len(a)]
      BY ConcatProperties
    <2>2. w \in Seq(Number) /\ Len(w) = Len(a) + Len(b) /\ Len(a) \in Nat /\ Len(b) \in Nat
      BY ConcatProperties
    <2> HIDE DEF w
    <2>3. QED
      BY <2>1, <2>2
  <1> HIDE DEF w
  <1>2. /\ c \in Seq(Number) /\ Len(c) = Len(a) /\ \A i \in 1 .. Len(a) : c[i] = a[i]
    BY <1>1
  <1> HIDE DEF c
  <1>3. c = a
    BY <1>2, SeqEqual
  <1>4. QED
    BY <1>3 DEF c, w

\* CutOut: the two ends of a sequence without one element.
LEMMA CutOut ==
  ASSUME NEW a \in Seq(Number), NEW x \in Number, NEW b \in Seq(Number),
         NEW w, w = a \o <<x>> \o b
  PROVE  /\ w \in Seq(Number) /\ Len(a) + 1 \in 1 .. Len(w)
         /\ SubSeq(w, 1, Len(a)) = a
         /\ SubSeq(w, Len(a) + 2, Len(w)) = b
  <1> DEFINE t == <<x>> \o b
             d == SubSeq(w, Len(a) + 2, Len(w))
  <1>1. <<x>> \in Seq(Number) /\ Len(<<x>>) = 1 /\ Len(a) \in Nat /\ Len(b) \in Nat
    OBVIOUS
  <1>2. /\ t \in Seq(Number) /\ Len(t) = Len(b) + 1
        /\ \A i \in 1 .. Len(b) : t[i + 1] = b[i]
    <2>1. \A i \in 1 .. 1 + Len(b) : t[i] = IF i <= 1 THEN <<x>>[i] ELSE b[i - 1]
      BY <1>1, ConcatProperties
    <2>2. t \in Seq(Number) /\ Len(t) = 1 + Len(b)
      BY <1>1, ConcatProperties
    <2> HIDE DEF t
    <2>3. ASSUME NEW i \in 1 .. Len(b) PROVE t[i + 1] = b[i]
      <3>1. i + 1 \in 1 .. 1 + Len(b) /\ ~(i + 1 <= 1) /\ (i + 1) - 1 = i
        BY <1>1
      <3>2. QED
        BY <2>1, <3>1
    <2>4. QED
      BY <1>1, <2>2, <2>3
  <1>3. w = a \o t
    BY <1>1, ConcatAssociative
  <1> HIDE DEF t
  <1>4. /\ w \in Seq(Number) /\ Len(w) = Len(a) + Len(b) + 1
        /\ \A i \in 1 .. Len(b) : w[Len(a) + 1 + i] = b[i]
    <2>1. /\ w \in Seq(Number) /\ Len(w) = Len(a) + Len(t)
          /\ \A i \in 1 .. Len(a) + Len(t) :
                w[i] = IF i <= Len(a) THEN a[i] ELSE t[i - Len(a)]
      BY <1>2, <1>3, ConcatProperties
    <2>2. ASSUME NEW i \in 1 .. Len(b) PROVE w[Len(a) + 1 + i] = b[i]
      <3>1. /\ Len(a) + 1 + i \in 1 .. Len(a) + Len(t)
            /\ ~(Len(a) + 1 + i <= Len(a)) /\ (Len(a) + 1 + i) - Len(a) = i + 1
        BY <1>1, <1>2
      <3>2. QED
        BY <1>2, <2>1, <3>1
    <2>3. QED
      BY <1>1, <1>2, <2>1, <2>2
  <1>5. SubSeq(w, 1, Len(a)) = a
    BY <1>2, <1>3, CutFrom
  <1>6. /\ d \in Seq(Number) /\ Len(d) = Len(b)
        /\ \A i \in 1 .. Len(b) : d[i] = w[Len(a) + 1 + i]
    <2>1. \A i \in Len(a) + 2 .. Len(w) : w[i] \in Number
      BY <1>1, <1>4
    <2>2. Len(a) + 2 \in Int /\ Len(w) \in Int
      BY <1>1, <1>4
    <2>3. /\ d \in Seq(Number)
          /\ Len(d) = IF Len(a) + 2 <= Len(w) THEN Len(w) - (Len(a) + 2) + 1 ELSE 0
          /\ \A i \in 1 .. Len(w) - (Len(a) + 2) + 1 : d[i] = w[Len(a) + 2 + i - 1]
      BY <2>1, <2>2, SubSeqProperties
    <2> HIDE DEF d
    <2>4. ASSUME NEW i \in 1 .. Len(b) PROVE d[i] = w[Len(a) + 1 + i]
      <3>1. /\ i \in 1 .. Len(w) - (Len(a) + 2) + 1
            /\ Len(a) + 2 + i - 1 = Len(a) + 1 + i
        BY <1>1, <1>4
      <3>2. QED
        BY <2>3, <3>1
    <2>5. QED
      BY <1>1, <1>4, <2>3, <2>4
  <1> HIDE DEF d
  <1>7. d = b
    BY <1>4, <1>6, SeqEqual
  <1>8. QED
    BY <1>1, <1>4, <1>5, <1>7 DEF d

\* All that is in flight, and a step that changes none but stream s of it.
Flow == [s \in Stream |-> InFlight(s)]

OthersStay(s) == \A r \in Stream \ {s} : InFlight(r)' = InFlight(r)

\* FlowChange: such a step updates Flow at s.
LEMMA FlowChange ==
  ASSUME NEW s \in Stream, NEW z, InFlight(s)' = z, OthersStay(s)
  PROVE  Flow' = [Flow EXCEPT ![s] = z]
  <1> DEFINE g == [Flow EXCEPT ![s] = z]
  <1>1. Flow' = [r \in Stream |-> InFlight(r)']
    BY DEF Flow
  <1>2. g = [r \in Stream |-> IF r = s THEN z ELSE InFlight(r)]
    BY DEF Flow
  <1>3. \A r \in Stream : InFlight(r)' = IF r = s THEN z ELSE InFlight(r)
    BY DEF OthersStay
  <1> HIDE DEF g
  <1>4. Flow' = g
    BY <1>1, <1>2, <1>3
  <1>5. QED
    BY <1>4 DEF g

\* FeedPublish: one more message at the end.
LEMMA FeedPublish ==
  ASSUME NEW s \in Stream, sent' = [sent EXCEPT ![s] = @ + 1], UNCHANGED delivered,
         InFlight(s)' = Append(InFlight(s), sent[s] + 1), OthersStay(s)
  PROVE  Delivery!Next
  <1>1. Flow' = [Flow EXCEPT ![s] = Append(InFlight(s), sent[s] + 1)]
    BY FlowChange
  <1>2. Flow' = [Flow EXCEPT ![s] = Append(@, sent[s] + 1)]
    BY <1>1 DEF Flow
  <1>3. Delivery!Publish(s)
    BY <1>2 DEF Delivery!Publish, Flow
  <1>4. QED
    BY <1>3 DEF Delivery!Next

\* FeedLose: a message is taken out.
LEMMA FeedLose ==
  ASSUME NEW s \in Stream, NEW a \in Seq(Number), NEW x \in Number, NEW b \in Seq(Number),
         InFlight(s) = a \o <<x>> \o b, InFlight(s)' = a \o b,
         OthersStay(s), UNCHANGED <<sent, delivered>>
  PROVE  Delivery!Next
  <1> DEFINE i == Len(a) + 1
  <1>1. /\ i \in 1 .. Len(InFlight(s)) /\ i - 1 = Len(a) /\ i + 1 = Len(a) + 2
        /\ SubSeq(InFlight(s), 1, Len(a)) = a
        /\ SubSeq(InFlight(s), Len(a) + 2, Len(InFlight(s))) = b
    BY CutOut
  <1> HIDE DEF i
  <1>2. InFlight(s)' = SubSeq(InFlight(s), 1, i - 1) \o SubSeq(InFlight(s), i + 1, Len(InFlight(s)))
    BY <1>1
  <1>3. Flow[s] = InFlight(s)
    BY DEF Flow
  <1>4. Flow' = [Flow EXCEPT ![s] = SubSeq(@, 1, i - 1) \o SubSeq(@, i + 1, Len(@))]
    BY <1>2, <1>3, FlowChange
  <1>5. Delivery!Lose(s, i) /\ i \in 1 .. Len(Flow[s])
    BY <1>1, <1>3, <1>4 DEF Delivery!Lose, Flow
  <1>6. QED
    BY <1>5 DEF Delivery!Next, Flow

\* FeedLoseFrom: the end is cut off.
LEMMA FeedLoseFrom ==
  ASSUME NEW s \in Stream, NEW a \in Seq(Number), NEW b \in Seq(Number), b # <<>>,
         InFlight(s) = a \o b, InFlight(s)' = a,
         OthersStay(s), UNCHANGED <<sent, delivered>>
  PROVE  Delivery!Next
  <1> DEFINE i == Len(a) + 1
  <1>1. /\ i \in 1 .. Len(InFlight(s)) /\ i - 1 = Len(a)
        /\ SubSeq(InFlight(s), 1, Len(a)) = a
    <2>1. Len(a) \in Nat /\ Len(b) \in Nat \ {0} /\ Len(InFlight(s)) = Len(a) + Len(b)
      BY ConcatProperties, EmptySeq
    <2>2. QED
      BY <2>1, CutFrom
  <1> HIDE DEF i
  <1>2. InFlight(s)' = SubSeq(InFlight(s), 1, i - 1)
    BY <1>1
  <1>3. Flow[s] = InFlight(s)
    BY DEF Flow
  <1>4. Flow' = [Flow EXCEPT ![s] = SubSeq(@, 1, i - 1)]
    BY <1>2, <1>3, FlowChange
  <1>5. Delivery!LoseFrom(s, i) /\ i \in 1 .. Len(Flow[s])
    BY <1>1, <1>3, <1>4 DEF Delivery!LoseFrom, Flow
  <1>6. QED
    BY <1>5 DEF Delivery!Next, Flow

\* FeedDeliver: the first message is handed over.
LEMMA FeedDeliver ==
  ASSUME NEW s \in Stream, NEW x \in Number, NEW b \in Seq(Number),
         InFlight(s) = <<x>> \o b, InFlight(s)' = b,
         OthersStay(s), delivered' = [delivered EXCEPT ![s] = Append(@, x)], UNCHANGED sent
  PROVE  Delivery!Next
  <1>1. Flow[s] = InFlight(s)
    BY DEF Flow
  <1>2. InFlight(s) # <<>> /\ Head(InFlight(s)) = x /\ Tail(InFlight(s)) = b
    <2>1. <<x>> \in Seq(Number) /\ Len(<<x>>) = 1 /\ <<x>>[1] = x
      OBVIOUS
    <2> DEFINE w == <<x>> \o b
    <2>2. /\ w \in Seq(Number) /\ Len(w) = 1 + Len(b) /\ Len(b) \in Nat
          /\ \A i \in 1 .. 1 + Len(b) : w[i] = IF i <= 1 THEN <<x>>[i] ELSE b[i - 1]
      BY <2>1, ConcatProperties
    <2> HIDE DEF w
    <2>3. w # <<>> /\ Head(w) = w[1]
      BY <2>2
    <2>4. Tail(w) \in Seq(Number) /\ Len(Tail(w)) = Len(b)
      BY <2>2, <2>3, HeadTailProperties
    <2>5. \A i \in 1 .. Len(Tail(w)) : Tail(w)[i] = w[i + 1]
      BY <2>2, <2>3, HeadTailProperties
    <2>6. ASSUME NEW i \in 1 .. Len(b) PROVE Tail(w)[i] = b[i]
      <3>1. i + 1 \in 1 .. 1 + Len(b) /\ ~(i + 1 <= 1) /\ (i + 1) - 1 = i
        BY <2>2
      <3>2. QED
        BY <2>2, <2>4, <2>5, <3>1
    <2>7. Tail(w) = b
      BY <2>4, <2>6, SeqEqual
    <2>8. w[1] = x
      BY <2>1, <2>2
    <2>9. QED
      BY <2>3, <2>7, <2>8 DEF w
  <1>3. Flow' = [Flow EXCEPT ![s] = Tail(@)]
    BY <1>1, <1>2, FlowChange
  <1>4. Delivery!Deliver(s)
    BY <1>1, <1>2, <1>3 DEF Delivery!Deliver, Flow
  <1>5. QED
    BY <1>4 DEF Delivery!Next

\* FeedStays: messages move along, or nothing happens.
LEMMA FeedStays ==
  ASSUME UNCHANGED <<sent, delivered>>, \A r \in Stream : InFlight(r)' = InFlight(r)
  PROVE  UNCHANGED Delivery!vars
  <1>1. Flow' = Flow
    BY DEF Flow
  <1>2. QED
    BY <1>1 DEF Delivery!vars, Flow

\* PartsTyped: the four parts are sequences of messages.
LEMMA PartsTyped ==
  ASSUME Inductive, NEW s \in Stream
  PROVE  /\ AtWork(s) \in Seq(Number) /\ channel[s] \in Seq(Number)
         /\ Held(s) \in Seq(Number) /\ Msgs(socket[s]) \in Seq(Number)
         /\ AtWork(s) \o channel[s] \in Seq(Number)
         /\ AtWork(s) \o channel[s] \o Held(s) \in Seq(Number)
         /\ InFlight(s) \in Seq(Number)
  <1>1. AtWork(s) \in Seq(Number)
    <2>1. main.job.msg \in 0 .. MaxSent
      BY DEF Inductive, Types, MainTypes, Job
    <2>2. main.job.msg # 0 => main.job.msg \in Number
      BY <2>1, Sizes DEF Number
    <2>3. QED
      BY <2>2 DEF AtWork, InJob
  <1>2. channel[s] \in Seq(Number)
    BY DEF Inductive, Types, ChannelTypes, Number
  <1>3. Held(s) \in Seq(Number)
    <2>1. sub[s].at = "push" => sub[s].msg \in Number
      BY Sizes DEF Inductive, Types, SubTypes, SubState, Number
    <2>2. QED
      BY <2>1 DEF Held
  <1>4. Msgs(socket[s]) \in Seq(Number)
    BY MsgsTyped DEF Inductive, Types, CoreTypes
  <1>5. QED
    BY <1>1, <1>2, <1>3, <1>4, ConcatProperties DEF InFlight

\* SameParts: what no part of changes is the same.
LEMMA SameParts ==
  ASSUME NEW s \in Stream, AtWork(s)' = AtWork(s), channel'[s] = channel[s],
         sub'[s] = sub[s], socket'[s] = socket[s]
  PROVE  InFlight(s)' = InFlight(s)
  <1>1. Held(s)' = Held(s) /\ Msgs(socket[s])' = Msgs(socket[s])
    BY DEF Held, Msgs
  <1>2. QED
    BY <1>1 DEF InFlight

\* WorkStays: main has the message it had.
LEMMA WorkStays ==
  ASSUME UNCHANGED <<main, result>>, NEW s \in Stream
  PROVE  AtWork(s)' = AtWork(s)
  BY DEF AtWork, InJob

\* PublishFeeds, LoseFeeds, FailFeeds: Core and the network work at the end.
LEMMA PublishFeeds ==
  ASSUME Inductive, NEW s \in Stream, Publish(s)
  PROVE  Delivery!Next
  <1> DEFINE p == [msg |-> sent[s] + 1, seq |-> coreSeq[s]]
  <1>1. /\ UNCHANGED <<main, result, channel, sub, delivered>>
        /\ sent' = [sent EXCEPT ![s] = @ + 1]
        /\ socket' = [socket EXCEPT ![s] = Append(@, p)]
    BY DEF Publish, Outside, subVars, writerVars
  <1>2. p \in Packet /\ p.msg = sent[s] + 1
    <2>1. /\ sent["block"] \in 0 .. MaxSent /\ sent["tx"] \in 0 .. MaxSent
          /\ sent["block"] + sent["tx"] < MaxSent
          /\ sent[s] \in 0 .. MaxSent /\ coreSeq[s] \in 0 .. Width - 1
      BY DEF Publish, Stream, Inductive, Types, CoreTypes
    <2>2. sent[s] + 1 \in 1 .. MaxSent
      BY <2>1, Sizes DEF Stream
    <2>3. QED
      BY <2>1, <2>2 DEF Packet
  <1>3. socket \in [Stream -> Seq(Packet)]
    BY DEF Inductive, Types, CoreTypes
  <1> HIDE DEF p
  <1>4. /\ \A r \in Stream : AtWork(r)' = AtWork(r)
        /\ \A r \in Stream \ {s} : socket'[r] = socket[r]
        /\ socket'[s] = Append(socket[s], p)
    BY <1>1, <1>3, WorkStays
  <1>5. OthersStay(s)
    BY <1>1, <1>4, SameParts DEF OthersStay
  <1> DEFINE a == AtWork(s) \o channel[s] \o Held(s)
             m == Msgs(socket[s])
  <1>6. Msgs(socket[s])' = Append(m, sent[s] + 1)
    <2>1. Msgs(socket[s])' = Msgs(socket'[s])
      BY DEF Msgs
    <2>2. QED
      BY <1>2, <1>3, <1>4, <2>1, MsgsAppend
  <1>7. InFlight(s)' = a \o Append(m, sent[s] + 1)
    BY <1>1, <1>4, <1>6 DEF InFlight, Held
  <1>8. a \in Seq(Number) /\ m \in Seq(Number) /\ InFlight(s) = a \o m
    BY PartsTyped DEF InFlight
  <1>9. sent[s] + 1 \in Number /\ <<sent[s] + 1>> \in Seq(Number)
    BY <1>2, PacketMsg
  <1> DEFINE x == sent[s] + 1
  <1> HIDE DEF a, m, x
  <1>10. a \o Append(m, x) = Append(a \o m, x)
    <2>1. /\ Append(m, x) = m \o <<x>> /\ a \o m \in Seq(Number)
          /\ Append(a \o m, x) = (a \o m) \o <<x>>
      BY <1>8, <1>9, AppendIsConcat, ConcatProperties DEF x
    <2>2. QED
      BY <1>8, <1>9, <2>1, ConcatAssociative DEF x
  <1>11. InFlight(s)' = Append(InFlight(s), sent[s] + 1)
    BY <1>7, <1>8, <1>10 DEF x
  <1>12. QED
    BY <1>1, <1>5, <1>11, FeedPublish

\* LoseFeeds: what the network or a failing socket loses is lost in Feed as well.
LEMMA LoseFeeds ==
  ASSUME Inductive, NEW s \in Stream, LoseMessage(s) \/ SocketFails(s)
  PROVE  [Delivery!Next]_(Delivery!vars)
  <1>1. UNCHANGED <<main, result, channel, sent, delivered>>
    BY DEF LoseMessage, SocketFails, Outside, SubOnly, subVars, writerVars
  <1>2. socket \in [Stream -> Seq(Packet)] /\ sub \in [Stream -> SubState]
    BY DEF Inductive, Types, CoreTypes, SubTypes
  <1>3. PICK q : socket' = [socket EXCEPT ![s] = q]
    BY DEF LoseMessage, SocketFails
  <1>4. /\ \A r \in Stream : AtWork(r)' = AtWork(r)
        /\ \A r \in Stream \ {s} : socket'[r] = socket[r] /\ sub'[r] = sub[r]
        /\ Held(s)' = Held(s)
    <2>1. \A r \in Stream : AtWork(r)' = AtWork(r)
      BY <1>1, WorkStays
    <2>2. \A r \in Stream \ {s} : socket'[r] = socket[r]
      BY <1>2, <1>3
    <2>3. CASE LoseMessage(s)
      <3>1. UNCHANGED sub
        BY <2>3 DEF LoseMessage, Outside, subVars
      <3>2. QED
        BY <2>1, <2>2, <3>1 DEF Held
    <2>4. CASE SocketFails(s)
      <3>1. /\ sub[s].at = "recv" /\ sub' = [sub EXCEPT ![s] = [sub[s] EXCEPT !.at = "backoff"]]
        BY <2>4 DEF SocketFails, Goto
      <3>2. sub'[s].at = "backoff" /\ \A r \in Stream \ {s} : sub'[r] = sub[r]
        BY <1>2, <3>1 DEF SubState
      <3>3. QED
        BY <2>1, <2>2, <3>1, <3>2 DEF Held
    <2>5. QED
      BY <2>3, <2>4
  <1>5. OthersStay(s)
    BY <1>1, <1>4, SameParts DEF OthersStay
  <1> DEFINE a == AtWork(s) \o channel[s] \o Held(s)
             m == Msgs(socket[s])
  <1>6. a \in Seq(Number) /\ m \in Seq(Number) /\ InFlight(s) = a \o m
    BY PartsTyped DEF InFlight
  <1>7. InFlight(s)' = a \o Msgs(socket'[s])
    BY <1>1, <1>4 DEF InFlight, Msgs
  <1>8. CASE LoseMessage(s)
    <2>1. socket'[s] = SubSeq(socket[s], 1, Len(socket[s]) - 1) /\ socket[s] # <<>>
      BY <1>2, <1>8 DEF LoseMessage
    <2> DEFINE c == Msgs(socket'[s])
               x == socket[s][Len(socket[s])].msg
    <2>2. m = Append(c, x) /\ c \in Seq(Number) /\ x \in Number
      BY <1>2, <2>1, MsgsLast, MsgsTyped, PacketMsg
    <2>3. InFlight(s)' = a \o c
      BY <1>7
    <2> HIDE DEF a, m, c, x
    <2>4. <<x>> \in Seq(Number) /\ a \o c \in Seq(Number)
      BY <1>6, <2>2, ConcatProperties
    <2>5. InFlight(s) = (a \o c) \o <<x>>
      BY <1>6, <2>2, <2>4, AppendIsConcat, ConcatAssociative
    <2>6. <<x>> # <<>>
      OBVIOUS
    <2>7. QED
      BY <1>1, <1>5, <2>3, <2>4, <2>5, <2>6, FeedLoseFrom
  <1>9. CASE SocketFails(s)
    <2>1. socket'[s] = <<>>
      BY <1>2, <1>9 DEF SocketFails
    <2>2. Msgs(<<>>) = <<>>
      BY <1>2, MsgsTyped, EmptySeq
    <2>3. InFlight(s)' = a
      BY <1>6, <1>7, <2>1, <2>2, ConcatEmptySeq
    <2>4. CASE m # <<>>
      BY <1>1, <1>5, <1>6, <2>3, <2>4, FeedLoseFrom
    <2>5. CASE m = <<>>
      <3>1. InFlight(s)' = InFlight(s)
        BY <1>6, <2>3, <2>5, ConcatEmptySeq
      <3>2. QED
        BY <1>1, <1>5, <3>1, FeedStays DEF OthersStay
    <2>6. QED
      BY <2>4, <2>5
  <1>10. QED
    BY <1>8, <1>9

\* ReceiveFeeds: from the socket to the subscriber, which holds nothing.
LEMMA ReceiveFeeds ==
  ASSUME Inductive, NEW s \in Stream, Recv(s)
  PROVE  UNCHANGED Delivery!vars
  <1> DEFINE x == Head(socket[s]).msg
             t == Tail(socket[s])
  <1>1. /\ UNCHANGED <<main, result, channel, sent, delivered>>
        /\ sub[s].at = "recv" /\ socket[s] # <<>>
        /\ socket' = [socket EXCEPT ![s] = t]
        /\ sub' = [sub EXCEPT ![s] = [at |-> "push", msg |-> x]]
    BY DEF Recv, SubOnly, writerVars
  <1>2. socket \in [Stream -> Seq(Packet)] /\ sub \in [Stream -> SubState]
    BY DEF Inductive, Types, CoreTypes, SubTypes
  <1>3. x \in Number /\ Msgs(t) \in Seq(Number) /\ Msgs(socket[s]) = <<x>> \o Msgs(t)
    <2>1. Head(socket[s]) \in Packet /\ t \in Seq(Packet)
      BY <1>1, <1>2, HeadTailProperties
    <2>2. QED
      BY <1>1, <1>2, <2>1, MsgsHead, MsgsTyped, PacketMsg
  <1> HIDE DEF x, t
  <1>4. /\ \A r \in Stream : AtWork(r)' = AtWork(r)
        /\ \A r \in Stream \ {s} : socket'[r] = socket[r] /\ sub'[r] = sub[r]
        /\ Held(s) = <<>> /\ Held(s)' = <<x>> /\ socket'[s] = t
    BY <1>1, <1>2, WorkStays DEF Held
  <1> DEFINE a == AtWork(s) \o channel[s]
             m == Msgs(t)
  <1>5. a \in Seq(Number)
    BY PartsTyped
  <1>6. InFlight(s) = a \o <<>> \o (<<x>> \o m) /\ InFlight(s)' = a \o <<x>> \o m
    <2>1. Msgs(socket[s])' = m
      BY <1>4 DEF Msgs
    <2>2. QED
      BY <1>1, <1>3, <1>4, <2>1 DEF InFlight
  <1>7. m \in Seq(Number) /\ <<x>> \in Seq(Number)
    BY <1>3
  <1> HIDE DEF a, m
  <1>8. InFlight(s)' = InFlight(s)
    BY <1>5, <1>6, <1>7, ConcatEmptySeq, ConcatAssociative
  <1>9. QED
    BY <1>1, <1>4, <1>8, SameParts, FeedStays

\* PushFeeds: from the subscriber to its channel.
LEMMA PushFeeds ==
  ASSUME Inductive, NEW s \in Stream, Push(s)
  PROVE  UNCHANGED Delivery!vars
  <1> DEFINE x == sub[s].msg
             c == channel[s]
             a == AtWork(s)
             m == Msgs(socket[s])
  <1>1. /\ UNCHANGED <<main, result, socket, sent, delivered>> /\ sub[s].at = "push"
        /\ channel' = [channel EXCEPT ![s] = Append(c, x)]
        /\ sub' = [sub EXCEPT ![s] = LoopTop] /\ LoopTop.at # "push"
    BY LoopTopTyped DEF Push, SubOnly, writerVars
  <1>2. /\ channel \in [Stream -> Seq(Number)] /\ sub \in [Stream -> SubState]
        /\ sub[s].msg # 0
    BY <1>1 DEF Inductive, Types, ChannelTypes, SubTypes, Number
  <1>3. x \in Number /\ <<x>> \in Seq(Number)
    <2>1. x \in Number
      BY <1>2, Sizes DEF SubState, Number
    <2>2. QED
      BY <2>1
  <1>4. /\ \A r \in Stream : AtWork(r)' = AtWork(r)
        /\ \A r \in Stream \ {s} : channel'[r] = channel[r] /\ sub'[r] = sub[r]
        /\ Held(s) = <<x>> /\ Held(s)' = <<>> /\ channel'[s] = Append(c, x)
    BY <1>1, <1>2, WorkStays DEF Held
  <1>5. a \in Seq(Number) /\ c \in Seq(Number) /\ m \in Seq(Number)
    BY PartsTyped
  <1>6. InFlight(s) = a \o c \o <<x>> \o m /\ InFlight(s)' = a \o Append(c, x) \o <<>> \o m
    BY <1>1, <1>4 DEF InFlight, Msgs
  <1> HIDE DEF a, c, m, x
  <1>7. /\ Append(c, x) = c \o <<x>> /\ Append(c, x) \in Seq(Number)
    BY <1>3, <1>5, AppendIsConcat, AppendProperties
  <1>8. a \o Append(c, x) \o <<>> = a \o Append(c, x)
    <2>1. a \o Append(c, x) \in Seq(Number)
      BY <1>5, <1>7, ConcatProperties
    <2>2. QED
      BY <2>1, ConcatEmptySeq
  <1>9. a \o Append(c, x) = a \o c \o <<x>>
    BY <1>3, <1>5, <1>7, ConcatAssociative
  <1>10. InFlight(s)' = InFlight(s)
    BY <1>6, <1>8, <1>9
  <1>11. QED
    BY <1>1, <1>4, <1>10, SameParts, FeedStays

\* EndFeeds: a subscriber that ends drops what it holds; one that waits to
\* reconnect, or has done so, holds nothing.
LEMMA EndFeeds ==
  ASSUME Inductive, NEW s \in Stream, SubscriberEnds(s) \/ Reconnect(s)
  PROVE  [Delivery!Next]_(Delivery!vars)
  <1>1. UNCHANGED <<main, result, socket, channel, sent, delivered>>
    BY DEF SubscriberEnds, Reconnect, SubOnly, writerVars
  <1>2. sub \in [Stream -> SubState]
    BY DEF Inductive, Types, SubTypes
  <1>3. PICK y : sub' = [sub EXCEPT ![s] = y] /\ y.at # "push"
    <2>1. CASE SubscriberEnds(s)
      <3>1. sub' = [sub EXCEPT ![s] = [at |-> "done", msg |-> 0]]
        BY <2>1 DEF SubscriberEnds
      <3>2. [at |-> "done", msg |-> 0].at # "push"
        OBVIOUS
      <3>3. QED
        BY <3>1, <3>2
    <2>2. CASE Reconnect(s)
      <3>1. sub' = [sub EXCEPT ![s] = [sub[s] EXCEPT !.at = "recv"]]
        BY <2>2 DEF Reconnect, Goto
      <3>2. [sub[s] EXCEPT !.at = "recv"].at = "recv"
        BY <1>2 DEF SubState
      <3>3. QED
        BY <3>1, <3>2
    <2>3. QED
      BY <2>1, <2>2
  <1>4. /\ \A r \in Stream : AtWork(r)' = AtWork(r)
        /\ \A r \in Stream \ {s} : sub'[r] = sub[r]
        /\ Held(s)' = <<>>
    BY <1>1, <1>2, <1>3, WorkStays DEF Held
  <1>5. OthersStay(s)
    BY <1>1, <1>4, SameParts DEF OthersStay
  <1> DEFINE a == AtWork(s) \o channel[s]
             m == Msgs(socket[s])
  <1>6. /\ a \in Seq(Number) /\ m \in Seq(Number)
        /\ InFlight(s) = a \o Held(s) \o m /\ InFlight(s)' = a \o <<>> \o m
    BY <1>1, <1>4, PartsTyped DEF InFlight, Msgs
  <1>7. InFlight(s)' = a \o m
    BY <1>6, ConcatEmptySeq
  <1>8. CASE sub[s].at = "push"
    <2>1. Held(s) = <<sub[s].msg>> /\ sub[s].msg \in Number
      BY <1>8, Sizes DEF Held, Inductive, Types, SubTypes, SubState, Number
    <2>2. QED
      BY <1>1, <1>5, <1>6, <1>7, <2>1, FeedLose
  <1>9. CASE sub[s].at # "push"
    <2>1. InFlight(s)' = InFlight(s)
      BY <1>6, <1>9 DEF Held
    <2>2. QED
      BY <1>1, <1>5, <2>1, FeedStays DEF OthersStay
  <1>10. QED
    BY <1>8, <1>9

\* TakeFeeds: from the channel to main, which has nothing.
LEMMA TakeFeeds ==
  ASSUME Inductive, NEW s \in Stream, TakeMessage(s)
  PROVE  UNCHANGED Delivery!vars
  <1> DEFINE x == Head(channel[s])
             t == Tail(channel[s])
  <1>1. /\ UNCHANGED <<sub, socket, sent, delivered>> /\ main.at = "select"
        /\ channel[s] # <<>> /\ channel' = [channel EXCEPT ![s] = t]
        /\ main' = [main EXCEPT !.at = "submit", !.job = [kind |-> s, msg |-> x]]
    BY DEF TakeMessage, MainOnly, coreVars
  <1>2. /\ channel \in [Stream -> Seq(Number)]
        /\ main \in [at : MainPositions, job : Job, halt : BOOLEAN]
    BY DEF Inductive, Types, ChannelTypes, MainTypes, Number
  <1>3. x \in Number /\ x # 0 /\ t \in Seq(Number) /\ channel[s] = <<x>> \o t
    <2>1. x \in Number /\ t \in Seq(Number)
      BY <1>1, <1>2, HeadTailProperties
    <2>2. /\ Len(channel[s]) \in Nat \ {0} /\ x = channel[s][1]
          /\ t = SubSeq(channel[s], 2, Len(channel[s]))
      BY <1>1, <1>2, TailIsSubSeq, EmptySeq
    <2>3. SubSeq(channel[s], 1, Len(channel[s])) = <<channel[s][1]>> \o SubSeq(channel[s], 1 + 1, Len(channel[s]))
      BY <1>2, <2>2, SubSeqRecursiveFirst
    <2>4. QED
      BY <1>2, <2>1, <2>2, <2>3, SubSeqFull, Sizes DEF Number
  <1> HIDE DEF x, t
  <1>4. main'.at = "submit" /\ main'.job.kind = s /\ main'.job.msg = x
    BY <1>1, <1>2
  <1>5. /\ \A r \in Stream : AtWork(r) = <<>>
        /\ \A r \in Stream \ {s} : AtWork(r)' = <<>>
        /\ AtWork(s)' = <<x>>
    BY <1>1, <1>3, <1>4 DEF AtWork, InJob
  <1>6. channel'[s] = t /\ \A r \in Stream \ {s} : channel'[r] = channel[r]
    BY <1>1, <1>2
  <1> DEFINE h == Held(s)
             m == Msgs(socket[s])
  <1>7. InFlight(s) = <<>> \o (<<x>> \o t) \o h \o m /\ InFlight(s)' = <<x>> \o t \o h \o m
    BY <1>1, <1>3, <1>5, <1>6 DEF InFlight, Held, Msgs
  <1> HIDE DEF h, m
  <1>8. <<>> \o (<<x>> \o t) = <<x>> \o t
    <2>1. <<x>> \in Seq(Number)
      BY <1>3
    <2>2. <<x>> \o t \in Seq(Number)
      BY <1>3, <2>1, ConcatProperties
    <2>3. QED
      BY <2>2, ConcatEmptySeq
  <1>9. InFlight(s)' = InFlight(s)
    BY <1>7, <1>8
  <1>10. QED
    BY <1>1, <1>5, <1>6, <1>9, SameParts, FeedStays

\* IdleFeeds: a step of main or of the writer between two of its states in which
\* it has the same message, or none.
LEMMA IdleFeeds ==
  ASSUME UNCHANGED <<sub, socket, channel, sent, delivered>>,
         \A r \in Stream : AtWork(r)' = AtWork(r)
  PROVE  UNCHANGED Delivery!vars
  BY SameParts, FeedStays

\* MainFeeds: main hands over its message and waits, and has none but then.
LEMMA MainFeeds ==
  ASSUME Inductive, Empty,
         \/ Submit \/ Answered \/ TakeGap \/ Backfill \/ Recovered \/ LoopReturns
         \/ StopZmq \/ CloseChans \/ Exit \/ \E s \in Stream : Tick(s)
  PROVE  UNCHANGED Delivery!vars
  <1>1. UNCHANGED <<sub, socket, channel, sent, delivered>>
    BY DEF Submit, Answered, TakeGap, Backfill, Recovered, LoopReturns, StopZmq, CloseChans,
           Exit, Tick, MainOnly, coreVars
  <1>2. main \in [at : MainPositions, job : Job, halt : BOOLEAN]
    BY DEF Inductive, Types, MainTypes
  <1>3. ASSUME NEW r \in Stream PROVE AtWork(r)' = AtWork(r)
    <2>1. CASE Submit
      <3>1. main.at = "submit" /\ main'.at = "await" /\ main'.job = main.job /\ result' = FALSE
        BY <1>2, <2>1 DEF Submit
      <3>2. QED
        BY <3>1 DEF AtWork, InJob
    <2>2. CASE Answered
      <3>1. main.at = "await" /\ result /\ main'.at \in {"select", "recover"}
        BY <1>2, <2>2 DEF Answered
      <3>2. QED
        BY <3>1 DEF AtWork
    <2>3. CASE Backfill
      <3>1. /\ main.at = "recover" /\ main.job.msg = 0
            /\ main'.at = "submit" /\ main'.job = main.job
        BY <1>2, <2>3 DEF Backfill, Empty
      <3>2. QED
        BY <3>1 DEF AtWork, InJob
    <2>4. CASE \/ TakeGap \/ Recovered \/ LoopReturns \/ StopZmq \/ CloseChans \/ Exit
               \/ \E s \in Stream : Tick(s)
      <3>1. main.at \notin {"submit", "await"}
        BY <2>4 DEF TakeGap, Recovered, LoopReturns, StopZmq, CloseChans, Exit, Tick
      <3>2. CASE TakeGap \/ \E s \in Stream : Tick(s)
        <4>1. PICK j : main' = [main EXCEPT !.at = "recover", !.job = j]
          BY <3>2 DEF TakeGap, Tick, Recovering
        <4>2. main'.at = "recover"
          BY <1>2, <4>1
        <4>3. QED
          BY <3>1, <4>2 DEF AtWork
      <3>3. CASE Recovered \/ LoopReturns \/ StopZmq \/ CloseChans \/ Exit
        <4>1. main'.at \notin {"submit", "await"}
          BY <1>2, <3>3 DEF Recovered, LoopReturns, StopZmq, CloseChans, Exit
        <4>2. QED
          BY <3>1, <4>1 DEF AtWork
      <3>4. QED
        BY <2>4, <3>2, <3>3
    <2>5. QED
      BY <2>1, <2>2, <2>3, <2>4
  <1>4. QED
    BY <1>1, <1>3, IdleFeeds

\* ProcessFeeds: a job of main's is its first message, or has none; and no
\* other job has one.
LEMMA ProcessFeeds ==
  ASSUME Inductive, Empty, ProcessJob
  PROVE  [Delivery!Next]_(Delivery!vars)
  <1>1. /\ UNCHANGED <<sub, socket, channel, sent, main>> /\ worker.at = "process"
        /\ result' = (result \/ worker.job.kind # "prune")
        /\ delivered' = IF worker.job.msg = 0 THEN delivered
                        ELSE [delivered EXCEPT ![worker.job.kind] = Append(@, worker.job.msg)]
    BY DEF ProcessJob, WriterOnly, coreVars, subVars
  <1>2. CASE worker.job.kind = "prune"
    <2>1. UNCHANGED delivered
      BY <1>1, <1>2 DEF Empty
    <2>2. result' = result
      BY <1>1, <1>2 DEF Inductive, Types, WriterTypes
    <2>3. QED
      BY <1>1, <2>1, <2>2, WorkStays, IdleFeeds
  <1>3. CASE worker.job.kind # "prune"
    <2>1. main.at = "await" /\ ~result /\ worker.job = main.job /\ result'
      BY <1>1, <1>3 DEF Inductive, CallAnswered, InWork, Waiting
    <2>2. main.job.kind \in Stream
      BY <2>1 DEF Inductive, Order
    <2>3. \A r \in Stream : AtWork(r)' = <<>> /\ AtWork(r) = InJob(r, main.job)
      BY <1>1, <2>1 DEF AtWork
    <2>4. CASE main.job.msg = 0
      <3>1. UNCHANGED delivered
        BY <1>1, <2>1, <2>4
      <3>2. \A r \in Stream : AtWork(r)' = AtWork(r)
        BY <2>3, <2>4 DEF InJob
      <3>3. QED
        BY <1>1, <3>1, <3>2, IdleFeeds
    <2>5. CASE main.job.msg # 0
      <3> DEFINE x == main.job.msg
      <3>s. PICK s \in Stream : s = main.job.kind
        BY <2>2
      <3>1. delivered' = [delivered EXCEPT ![s] = Append(@, x)]
        BY <1>1, <2>1, <2>5, <3>s
      <3>2. x \in Number
        BY <2>5, Sizes DEF Inductive, Types, MainTypes, Job, Number
      <3>3. AtWork(s) = <<x>> /\ \A r \in Stream \ {s} : AtWork(r)' = AtWork(r)
        BY <2>3, <2>5, <3>s DEF InJob
      <3> DEFINE c == channel[s]
                 h == Held(s)
                 m == Msgs(socket[s])
                 b == c \o h \o m
      <3>4. c \in Seq(Number) /\ h \in Seq(Number) /\ m \in Seq(Number)
        BY PartsTyped
      <3>5. InFlight(s) = <<x>> \o c \o h \o m /\ InFlight(s)' = <<>> \o c \o h \o m
        BY <1>1, <2>3, <3>3 DEF InFlight, Held, Msgs
      <3>6. OthersStay(s)
        BY <1>1, <3>3, SameParts DEF OthersStay
      <3> HIDE DEF c, h, m, x
      <3>7. <<x>> \in Seq(Number) /\ c \o h \in Seq(Number) /\ b \in Seq(Number)
        <4>1. c \o h \in Seq(Number)
          BY <3>4, ConcatProperties
        <4>2. QED
          BY <3>2, <3>4, <4>1, ConcatProperties
      <3>8. InFlight(s) = <<x>> \o b
        <4>1. <<x>> \o c \o h = <<x>> \o (c \o h)
          BY <3>4, <3>7, ConcatAssociative
        <4>2. <<x>> \o (c \o h) \o m = <<x>> \o (c \o h \o m)
          BY <3>4, <3>7, ConcatAssociative
        <4>3. QED
          BY <3>5, <4>1, <4>2
      <3>9. InFlight(s)' = b
        BY <3>4, <3>5, ConcatEmptySeq
      <3> HIDE DEF b
      <3>10. QED
        BY <1>1, <3>1, <3>2, <3>6, <3>7, <3>8, <3>9, FeedDeliver
    <2>6. QED
      BY <2>4, <2>5
  <1>4. QED
    BY <1>2, <1>3

\* RestFeeds: the steps that have nothing to do with messages.  When the writer
\* ends there is no call to answer.
LEMMA RestFeeds ==
  ASSUME Inductive,
         CoreRestarts \/ TriggerPrune \/ TakeJob \/ WorkerEnds \/ Signal \/ UNCHANGED vars
  PROVE  UNCHANGED Delivery!vars
  <1>1. UNCHANGED <<sub, socket, channel, sent, delivered, main>>
    BY DEF CoreRestarts, TriggerPrune, TakeJob, WorkerEnds, Signal, vars, Outside, MainOnly,
           WriterOnly, coreVars, subVars, writerVars
  <1>2. CASE WorkerEnds
    <2>1. main.at \in {"closeWriter", "exited"}
      BY <1>2 DEF WorkerEnds, Inductive, Order, Ending
    <2>2. QED
      BY <1>1, <2>1, IdleFeeds DEF AtWork
  <1>3. CASE CoreRestarts \/ TriggerPrune \/ TakeJob \/ Signal \/ UNCHANGED vars
    <2>1. UNCHANGED result
      BY <1>3 DEF CoreRestarts, TriggerPrune, TakeJob, Signal, vars, Outside, writerVars
    <2>2. QED
      BY <1>1, <2>1, WorkStays, IdleFeeds
  <1>4. QED
    BY <1>2, <1>3

\* FeedSpecHolds: from Core's publisher to the index, through socket, channel,
\* main loop and writer, with faults, gaps and shutdown at any time, the
\* messages of a stream are handed over in their order and at most once.
THEOREM FeedSpecHolds == Spec => FeedSpec
  <1>1. Init => Empty
    BY DEF Init, Empty, NoJob
  <1>2. Init => Delivery!Init
    <2> SUFFICES ASSUME Init PROVE Delivery!Init
      OBVIOUS
    <2>1. ASSUME NEW s \in Stream PROVE InFlight(s) = <<>>
      <3>1. /\ AtWork(s) = <<>> /\ channel[s] = <<>> /\ Held(s) = <<>>
            /\ socket[s] = <<>>
        BY DEF Init, AtWork, Held
      <3>2. Msgs(<<>>) = <<>>
        BY MsgsTyped, EmptySeq
      <3>3. <<>> \o <<>> = <<>>
        BY EmptySeq, ConcatEmptySeq
      <3>4. QED
        BY <3>1, <3>2, <3>3 DEF InFlight
    <2>2. [s \in Stream |-> InFlight(s)] = [s \in Stream |-> <<>>]
      BY <2>1
    <2>3. QED
      BY <2>2 DEF Init, Delivery!Init
  <1>3. Inductive /\ Empty /\ [Next]_vars => [Delivery!Next]_(Delivery!vars)
    BY PublishFeeds, LoseFeeds, ReceiveFeeds, PushFeeds, EndFeeds, TakeFeeds, MainFeeds,
       ProcessFeeds, RestFeeds
    DEF Next, Subscriber, Worker, Shutdown
  <1>4. Inductive /\ Empty /\ [Next]_vars => Empty'
    BY EmptyKeeps
  <1>5. Spec => []Empty
    BY <1>1, <1>4, InductiveHolds, PTL DEF Spec
  <1>6. QED
    BY <1>2, <1>3, <1>5, InductiveHolds, PTL DEF Spec, FeedSpec, Delivery!Spec
=============================================================================
