------------------------------ MODULE Pipeline ------------------------------
(***************************************************************************)
(* From Bitcoin Core's ZMQ publisher to the index: the subscriber's two    *)
(* goroutines, their channels, the main loop's select, the writer's queue  *)
(* and its goroutine, and the shutdown of them all.  The two streams share *)
(* one code path and the gap channel.  What a job does to the index is in  *)
(* ChainManager and MempoolOverlay; here it is a delivery.                 *)
(*                                                                         *)
(* Sequence numbers are those of the code, Width for 2^32, and wrap.  A    *)
(* message is the number of its publication, which only the properties see.*)
(***************************************************************************)
EXTENDS Integers, Sequences, Functions

CONSTANTS
  Width, FirstSeq,           \* sequence numbers: their modulus, the first one seen
  ChanSize, GapSize, JobSize,        \* capacities: 10 or 1000, 10, 100
  MaxSent, MaxFaults                 \* bounds of the model

ASSUME PipelineAssumption ==
  /\ Width \in Nat \ {0, 1} /\ FirstSeq \in 0 .. Width - 1
  /\ {ChanSize, GapSize, JobSize} \subseteq Nat \ {0}
  /\ {MaxSent, MaxFaults} \subseteq Nat

Stream == {"block", "tx"}

VARIABLES
  sent, coreSeq,    \* Core: messages published, next sequence number
  socket,           \* what a subscriber's socket holds, or Core's for it
  sub,              \* the subscriber's goroutines: [at, msg]
  lastSeq,          \* lastBlockSeq, lastTxSeq
  channel,          \* blockChan, txChan
  gapChan,          \* streams of the queued ZMQGapEvents
  main,             \* the main goroutine: [at, job, halt]
  jobs, worker,     \* the writer: its queue and its goroutine [at, job]
  result,           \* an answer is in the caller's result channel
  cancelled,        \* the contexts that are cancelled: "main", "zmq", "writer"
  chansClosed,      \* Stop has closed the three channels
  delivered,        \* jobs done, per stream
  faults,           \* losses, socket errors and restarts of Core so far
  restarted, lastRecv, owed   \* history, see OwedAfter

coreVars   == <<sent, coreSeq, socket>>
subVars    == <<sub, lastSeq, channel, gapChan>>
writerVars == <<jobs, worker, result, delivered>>
historyVars == <<restarted, lastRecv, owed>>
vars == <<coreVars, subVars, main, writerVars, cancelled, chansClosed, faults,
          historyVars>>

NoJob == [kind |-> "none", msg |-> 0]

Job == [kind : Stream \cup {"prune", "none"}, msg : 0 .. MaxSent]

MainPositions ==
  {"select", "submit", "await", "recover", "stop", "stopZmq", "closeWriter", "exited"}

TypeOK ==
  /\ sent \in [Stream -> 0 .. MaxSent] /\ coreSeq \in [Stream -> 0 .. Width - 1]
  /\ \A s \in Stream : \A i \in DOMAIN socket[s] :
        socket[s][i] \in [msg : 1 .. MaxSent, seq : 0 .. Width - 1]
  /\ sub \in [Stream -> [at : {"recv", "push", "backoff", "done"},
                         msg : 0 .. MaxSent]]
  /\ lastSeq \in [Stream -> 0 .. Width - 1]
  /\ \A s \in Stream : Len(channel[s]) \in 0 .. ChanSize
  /\ Len(gapChan) \in 0 .. GapSize /\ Range(gapChan) \subseteq Stream
  /\ main \in [at : MainPositions, job : Job, halt : BOOLEAN]
  /\ Len(jobs) \in 0 .. JobSize /\ Range(jobs) \subseteq Job
  /\ worker \in [at : {"select", "process", "done"}, job : Job]
  /\ result \in BOOLEAN /\ chansClosed \in BOOLEAN
  /\ cancelled \subseteq {"main", "zmq", "writer"}
  /\ owed \subseteq Stream

Init ==
  /\ sent = [s \in Stream |-> 0] /\ coreSeq = [s \in Stream |-> FirstSeq]
  /\ socket = [s \in Stream |-> <<>>]
  /\ sub = [s \in Stream |-> [at |-> "recv", msg |-> 0]]
  /\ lastSeq = [s \in Stream |-> 0]
  /\ channel = [s \in Stream |-> <<>>] /\ gapChan = <<>>
  /\ main = [at |-> "select", job |-> NoJob, halt |-> FALSE]
  /\ jobs = <<>> /\ worker = [at |-> "select", job |-> NoJob] /\ result = FALSE
  /\ cancelled = {} /\ chansClosed = FALSE
  /\ delivered = [s \in Stream |-> <<>>]
  /\ faults = 0
  /\ restarted = FALSE /\ lastRecv = [s \in Stream |-> 0] /\ owed = {}

-----------------------------------------------------------------------------
(***************************************************************************)
(* Bitcoin Core and the network.                                           *)
(***************************************************************************)
Outside ==
  /\ main.at # "exited"
  /\ UNCHANGED <<subVars, main, writerVars, cancelled, chansClosed, lastRecv, owed>>

Publish(s) ==
  /\ sent["block"] + sent["tx"] < MaxSent
  /\ sent' = [sent EXCEPT ![s] = @ + 1]
  /\ coreSeq' = [coreSeq EXCEPT ![s] = (@ + 1) % Width]
  /\ socket' = [socket EXCEPT ![s] = Append(@, [msg |-> sent[s] + 1, seq |-> coreSeq[s]])]
  /\ UNCHANGED <<faults, restarted>> /\ Outside

\* A queue at its high-water mark drops the newest message.
LoseMessage(s) ==
  /\ faults < MaxFaults /\ faults' = faults + 1
  /\ socket[s] # <<>> /\ socket' = [socket EXCEPT ![s] = SubSeq(@, 1, Len(@) - 1)]
  /\ UNCHANGED <<sent, coreSeq, restarted>> /\ Outside

\* Numbers start again at 0.
CoreRestarts ==
  /\ faults < MaxFaults /\ faults' = faults + 1
  /\ restarted' = TRUE
  /\ coreSeq' = [s \in Stream |-> 0]
  /\ UNCHANGED <<sent, socket>> /\ Outside

-----------------------------------------------------------------------------
(***************************************************************************)
(* ZMQSubscriber: subscribeBlocks and subscribeTxs.                        *)
(***************************************************************************)
Goto(s, at) == sub' = [sub EXCEPT ![s].at = at]

SubOnly == UNCHANGED <<sent, coreSeq, main, writerVars, cancelled, chansClosed, restarted>>

\* RecvMessageBytes fails and the socket is closed with what it holds.
SocketFails(s) ==
  /\ sub[s].at = "recv"
  /\ faults < MaxFaults /\ faults' = faults + 1
  /\ socket' = [socket EXCEPT ![s] = <<>>]
  /\ Goto(s, "backoff")
  /\ UNCHANGED <<lastSeq, channel, gapChan, lastRecv, owed>> /\ SubOnly

\* waitBackoff and newSubSocket; one that fails is another turn of the same.
Reconnect(s) ==
  /\ sub[s].at = "backoff" /\ "zmq" \notin cancelled
  /\ Goto(s, "recv")
  /\ UNCHANGED <<socket, lastSeq, channel, gapChan, faults, lastRecv, owed>> /\ SubOnly

\* owed: streams of which a loss has been seen, and a gap event of the stream
\* is queued, or should be: unless lastSeq was 0, which stands for none, or
\* the channel was full of the other stream's events, or Core has restarted
\* and reached the number expected by chance.
OwedAfter(s, m) ==
  IF /\ m.msg # lastRecv[s] + 1 /\ lastSeq[s] # 0
     /\ Len(gapChan) < GapSize \/ s \in Range(gapChan)
     /\ ~restarted \/ m.seq # (lastSeq[s] + 1) % Width
  THEN owed \cup {s} ELSE owed

\* A variant that takes only a larger number for a gap.
NotExpectedLarger(s, seq) == lastSeq[s] # 0 /\ seq > lastSeq[s] + 1

NotExpected(s, seq) == lastSeq[s] # 0 /\ seq # (lastSeq[s] + 1) % Width

\* A full gap channel drops the event.
HandleSequence(s, m) ==
  /\ gapChan' = IF NotExpected(s, m.seq) /\ Len(gapChan) < GapSize
                THEN Append(gapChan, s) ELSE gapChan
  /\ lastSeq' = [lastSeq EXCEPT ![s] = m.seq]
  /\ lastRecv' = [lastRecv EXCEPT ![s] = m.msg]
  /\ owed' = OwedAfter(s, m)

\* The context is checked before the receive: one that has begun when the
\* context is cancelled still takes its message.
Recv(s) ==
  /\ sub[s].at = "recv"
  /\ socket[s] # <<>>
  /\ socket' = [socket EXCEPT ![s] = Tail(@)]
  /\ HandleSequence(s, Head(socket[s]))
  /\ sub' = [sub EXCEPT ![s] = [at |-> "push", msg |-> Head(socket[s]).msg]]
  /\ UNCHANGED <<channel, faults>> /\ SubOnly

\* The top of the loop, after a send: the context is checked.
LoopTop == [at |-> IF "zmq" \in cancelled THEN "done" ELSE "recv", msg |-> 0]

\* A variant of unlimited room, ...
PushUnbounded(s) ==
  /\ sub[s].at = "push"
  /\ channel' = [channel EXCEPT ![s] = Append(@, sub[s].msg)]
  /\ sub' = [sub EXCEPT ![s] = LoopTop]
  /\ UNCHANGED <<socket, lastSeq, gapChan, faults, lastRecv, owed>> /\ SubOnly

\* ... and one that sends again.
PushAgain(s) ==
  /\ sub[s].at = "push"
  /\ Len(channel[s]) < ChanSize
  /\ channel' = [channel EXCEPT ![s] = Append(@, sub[s].msg)]
  /\ UNCHANGED <<sub, socket, lastSeq, gapChan, faults, lastRecv, owed>> /\ SubOnly

\* "Never drop blocks": waits for room, or for the context.
Push(s) ==
  /\ sub[s].at = "push"
  /\ Len(channel[s]) < ChanSize
  /\ channel' = [channel EXCEPT ![s] = Append(@, sub[s].msg)]
  /\ sub' = [sub EXCEPT ![s] = LoopTop]
  /\ UNCHANGED <<socket, lastSeq, gapChan, faults, lastRecv, owed>> /\ SubOnly

\* A variant in which a send waits for room only.
EndsUnlessPushing(s) ==
  /\ sub[s].at \in {"recv", "backoff"} /\ "zmq" \in cancelled
  /\ sub' = [sub EXCEPT ![s] = [at |-> "done", msg |-> 0]]
  /\ UNCHANGED <<socket, lastSeq, channel, gapChan, faults, lastRecv, owed>> /\ SubOnly

\* Every wait has the context as an alternative, or ends after a second.
SubscriberEnds(s) ==
  /\ sub[s].at # "done" /\ "zmq" \in cancelled
  /\ sub' = [sub EXCEPT ![s] = [at |-> "done", msg |-> 0]]
  /\ UNCHANGED <<socket, lastSeq, channel, gapChan, faults, lastRecv, owed>> /\ SubOnly

Subscriber(s) == Reconnect(s) \/ Recv(s) \/ Push(s) \/ SubscriberEnds(s)

-----------------------------------------------------------------------------
(***************************************************************************)
(* runMainLoop.  Of the writer's callers there is only this goroutine, so  *)
(* that the writer's context is never cancelled while a call is waiting.   *)
(***************************************************************************)
MainOnly ==
  UNCHANGED <<coreVars, sub, lastSeq, worker, delivered, faults, restarted, lastRecv>>

TakeMessage(s) ==
  /\ main.at = "select" /\ channel[s] # <<>>
  /\ channel' = [channel EXCEPT ![s] = Tail(@)]
  /\ main' = [main EXCEPT !.at = "submit", !.job = [kind |-> s, msg |-> Head(channel[s])]]
  /\ UNCHANGED <<gapChan, jobs, result, cancelled, chansClosed, owed>> /\ MainOnly

\* A variant that does not wait for the answer.
SubmitAndGo ==
  /\ main.at = "submit" /\ Len(jobs) < JobSize
  /\ jobs' = Append(jobs, main.job) /\ result' = FALSE
  /\ main' = [main EXCEPT !.at = "select", !.job = NoJob]
  /\ UNCHANGED <<channel, gapChan, cancelled, chansClosed, owed>> /\ MainOnly

\* IndexBlock and IndexMempoolTx: queue the job ...
Submit ==
  /\ main.at = "submit" /\ Len(jobs) < JobSize
  /\ jobs' = Append(jobs, main.job) /\ result' = FALSE
  /\ main' = [main EXCEPT !.at = "await"]
  /\ UNCHANGED <<channel, gapChan, cancelled, chansClosed, owed>> /\ MainOnly

\* A prune job, which a full queue skips.
WithPrune == IF Len(jobs) < JobSize THEN Append(jobs, [kind |-> "prune", msg |-> 0])
             ELSE jobs

\* ... and wait.  A block that is indexed may be the one to prune after; one
\* that does not connect is followed by CatchUpToTip.
Answered ==
  /\ main.at = "await" /\ result
  /\ result' = FALSE
  /\ \/ /\ main' = [main EXCEPT !.at = "select", !.job = NoJob]
        /\ jobs' \in IF main.job.kind = "block" THEN {jobs, WithPrune} ELSE {jobs}
        /\ UNCHANGED owed
     \/ /\ main.job.kind = "block"
        /\ main' = [main EXCEPT !.at = "recover"]
        /\ owed' = owed \ {"block"}
        /\ UNCHANGED jobs
  /\ UNCHANGED <<channel, gapChan, cancelled, chansClosed>> /\ MainOnly

\* CatchUpToTip or reconcileMempool begins for stream s.
Recovering(s) ==
  /\ main' = [main EXCEPT !.at = "recover", !.job = [kind |-> s, msg |-> 0]]
  /\ owed' = owed \ {s}

TakeGap ==
  /\ main.at = "select" /\ gapChan # <<>>
  /\ Recovering(Head(gapChan))
  /\ gapChan' = Tail(gapChan)
  /\ UNCHANGED <<channel, jobs, result, cancelled, chansClosed>> /\ MainOnly

\* The tip check and the periodic reconcile.
Tick(s) ==
  /\ main.at = "select"
  /\ Recovering(s)
  /\ UNCHANGED <<channel, gapChan, jobs, result, cancelled, chansClosed>>
  /\ MainOnly

\* reconcileMempool hands missing transactions to the writer, one or none here.
Backfill ==
  /\ main.at = "recover" /\ main.job.kind = "tx"
  /\ main' = [main EXCEPT !.at = "submit"]
  /\ UNCHANGED <<channel, gapChan, jobs, result, cancelled, chansClosed, owed>>
  /\ MainOnly

\* CatchUpToTip returns, perhaps with ErrPrunedGap, or reconcileMempool does.
Recovered ==
  /\ main.at = "recover"
  /\ \/ main' = [main EXCEPT !.at = "select", !.job = NoJob]
     \/ /\ main.job.kind = "block"
        /\ main' = [main EXCEPT !.at = "stop", !.job = NoJob, !.halt = TRUE]
  /\ UNCHANGED <<channel, gapChan, jobs, result, cancelled, chansClosed, owed>>
  /\ MainOnly

\* The prune ticker.
TriggerPrune ==
  /\ main.at = "select"
  /\ jobs' = WithPrune
  /\ UNCHANGED <<main, channel, gapChan, result, cancelled, chansClosed, owed>> /\ MainOnly

-----------------------------------------------------------------------------
(***************************************************************************)
(* Writer.processLoop.                                                     *)
(***************************************************************************)
WriterOnly ==
  UNCHANGED <<coreVars, subVars, main, cancelled, chansClosed, faults, historyVars>>

TakeJob ==
  /\ worker.at = "select" /\ jobs # <<>>
  /\ worker' = [at |-> "process", job |-> Head(jobs)]
  /\ jobs' = Tail(jobs)
  /\ UNCHANGED <<result, delivered>> /\ WriterOnly

\* A variant that answers for blocks only.
ProcessJobMute ==
  /\ worker.at = "process"
  /\ worker' = [at |-> "select", job |-> NoJob]
  /\ result' = (worker.job.kind = "block")
  /\ delivered' = IF worker.job.msg = 0 THEN delivered
                  ELSE [delivered EXCEPT ![worker.job.kind] = Append(@, worker.job.msg)]
  /\ UNCHANGED jobs /\ WriterOnly

\* processJob, and the answer if there is a caller.
ProcessJob ==
  /\ worker.at = "process"
  /\ worker' = [at |-> "select", job |-> NoJob]
  /\ result' = (result \/ worker.job.kind # "prune")
  /\ delivered' = IF worker.job.msg = 0 THEN delivered
                  ELSE [delivered EXCEPT ![worker.job.kind] = Append(@, worker.job.msg)]
  /\ UNCHANGED jobs /\ WriterOnly

\* drainJobsOnShutdown answers what is left with an error.
WorkerEnds ==
  /\ worker.at = "select" /\ "writer" \in cancelled
  /\ worker' = [worker EXCEPT !.at = "done"]
  /\ result' = (result \/ \E i \in DOMAIN jobs : jobs[i].kind # "prune")
  /\ jobs' = <<>>
  /\ UNCHANGED delivered /\ WriterOnly

Worker == TakeJob \/ ProcessJob \/ WorkerEnds

-----------------------------------------------------------------------------
(***************************************************************************)
(* Shutdown: a signal cancels main's context; the loop returns; main stops *)
(* the server, waits for the operator after ErrPrunedGap, and its deferred *)
(* calls stop the subscriber, close the writer and close the database.     *)
(***************************************************************************)
Signal ==
  /\ "main" \notin cancelled
  /\ cancelled' = cancelled \cup {"main"}
  /\ UNCHANGED <<coreVars, subVars, main, writerVars, chansClosed, faults, historyVars>>

LoopReturns ==
  /\ main.at = "select" /\ "main" \in cancelled
  /\ main' = [main EXCEPT !.at = "stop"]
  /\ UNCHANGED <<channel, gapChan, jobs, result, cancelled, chansClosed, owed>>
  /\ MainOnly

\* Server.Stop; after ErrPrunedGap haltForOperator waits for the signal; then
\* ZMQSubscriber.Stop: cancel ...
StopZmq ==
  /\ main.at = "stop" /\ (main.halt => "main" \in cancelled)
  /\ cancelled' = cancelled \cup {"zmq"}
  /\ main' = [main EXCEPT !.at = "stopZmq"]
  /\ UNCHANGED <<channel, gapChan, jobs, result, chansClosed, owed>> /\ MainOnly

\* A variant that does not wait.
CloseChansEarly ==
  /\ main.at = "stopZmq"
  /\ chansClosed' = TRUE
  /\ cancelled' = cancelled \cup {"writer"}
  /\ main' = [main EXCEPT !.at = "closeWriter"]
  /\ UNCHANGED <<channel, gapChan, jobs, result, owed>> /\ MainOnly

\* ... wait for both goroutines, close the channels; then Writer.Close: cancel,
CloseChans ==
  /\ main.at = "stopZmq"
  /\ \A s \in Stream : sub[s].at = "done"
  /\ chansClosed' = TRUE
  /\ cancelled' = cancelled \cup {"writer"}
  /\ main' = [main EXCEPT !.at = "closeWriter"]
  /\ UNCHANGED <<channel, gapChan, jobs, result, owed>> /\ MainOnly

\* ... wait, and close the database.
Exit ==
  /\ main.at = "closeWriter" /\ worker.at = "done"
  /\ main' = [main EXCEPT !.at = "exited"]
  /\ UNCHANGED <<channel, gapChan, jobs, result, cancelled, chansClosed, owed>>
  /\ MainOnly

Shutdown == StopZmq \/ CloseChans \/ Exit

-----------------------------------------------------------------------------
Next ==
  \/ \E s \in Stream : \/ Publish(s) \/ LoseMessage(s) \/ SocketFails(s)
                        \/ Subscriber(s) \/ TakeMessage(s) \/ Tick(s)
  \/ CoreRestarts \/ Submit \/ Answered \/ TakeGap \/ Backfill \/ Recovered
  \/ TriggerPrune \/ Worker \/ Signal \/ LoopReturns \/ Shutdown

Spec == Init /\ [][Next]_vars

\* Fairness: goroutines go on; and select, which chooses at random among what
\* is ready, does not pass over gap events and cancellation for ever.  Core, the
\* network, the operator and the timers owe nothing.
Fairness ==
  /\ \A s \in Stream : WF_vars(Subscriber(s))
  /\ WF_vars(Submit \/ Answered \/ Recovered \/ Shutdown)
  /\ WF_vars(Worker)
  /\ SF_vars(TakeGap \/ LoopReturns)

FairSpec == Spec /\ Fairness

-----------------------------------------------------------------------------
\* NoSendOnClosed: no goroutine of the subscriber is about to send, or to
\* receive and queue a gap event, when Stop has closed the channels.
NoSendOnClosed == chansClosed => \A s \in Stream : sub[s].at = "done"

\* Jobs with a caller, in the queue and in work.
Waiting(j) == j.kind # "prune"

Queued == {i \in DOMAIN jobs : Waiting(jobs[i])}

InWork == worker.at = "process" /\ Waiting(worker.job)

\* CallAnswered: a call that waits has its job in the queue, in work, or
\* answered, in exactly one of these; while none waits there is neither.
CallAnswered ==
  IF main.at = "await"
  THEN \/ ~InWork /\ ~result /\ \E i \in DOMAIN jobs : Queued = {i} /\ jobs[i] = main.job
       \/ InWork /\ ~result /\ Queued = {} /\ worker.job = main.job
       \/ ~InWork /\ result /\ Queued = {}
  ELSE ~InWork /\ ~result /\ Queued = {}

\* OneIndexer: the index is not changed by the main goroutine's CatchUpToTip or
\* reconcileMempool while the writer's goroutine is at a block or transaction;
\* and nothing is at work when the database is closed.
OneIndexer ==
  /\ main.at = "recover" => ~InWork
  /\ main.at = "exited" => worker.at = "done" /\ \A s \in Stream : sub[s].at = "done"

\* FeedSpec: each stream is handed to the index in order and at most once.
Held(s) == IF sub[s].at = "push" THEN <<sub[s].msg>> ELSE <<>>

InJob(s, j) == IF j.kind = s /\ j.msg # 0 THEN <<j.msg>> ELSE <<>>

\* The message main has taken from a channel, until the writer has done its job.
AtWork(s) ==
  IF main.at = "submit" \/ (main.at = "await" /\ ~result) THEN InJob(s, main.job) ELSE <<>>

Msgs(q) == [i \in DOMAIN q |-> q[i].msg]

InFlight(s) == AtWork(s) \o channel[s] \o Held(s) \o Msgs(socket[s])

Delivery == INSTANCE Feed WITH pending <- [s \in Stream |-> InFlight(s)]

FeedSpec == Delivery!Spec

\* LossRecovered: a loss that the numbers show is followed by a catch-up, or a
\* reconcile, that starts after it, unless the server is stopping.
LossRecovered ==
  \A s \in Stream : s \in owed ~> (s \notin owed \/ main.halt \/ "main" \in cancelled)

\* ShutdownEnds: after a signal main returns, although subscribers wait for
\* room in channels nobody reads any more.
ShutdownEnds == "main" \in cancelled ~> main.at = "exited"
=============================================================================
