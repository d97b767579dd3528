---------------------------- MODULE ChainManager ----------------------------
(***************************************************************************)
(* The chain logic of electrum-go: ChainManager and ReorgHandler, driven   *)
(* by the startup sequence of main, the main loop and the Writer's prune   *)
(* jobs, against a Bitcoin Core whose best chain changes at any time.      *)
(*                                                                         *)
(* One thread runs the chain logic: the main goroutine, which waits for    *)
(* the Writer while it processes a block.  An action is one RPC answer     *)
(* together with the local work up to the next RPC, or one commit.  Core   *)
(* may move, and the process may die, between any two actions.  Prune      *)
(* jobs run in the Writer whenever it is not processing a block, so also   *)
(* while the main goroutine catches up by itself.                          *)
(***************************************************************************)
EXTENDS IndexStore, FiniteSets

CONSTANTS
  Genesis,        \* Core's first block
  Work,           \* Work[b]: the work of b's branch; Core prefers the most
  HashRank,       \* HashRank[b]: the byte order of hashes in undo keys
  ConfigStart,    \* indexer.start_height: -1 is Core's tip, 0 genesis
  MaxReorgDepth,  \* storage.max_reorg_depth
  PruneHeights,   \* prune heights Core may report (0: not pruned)
  MempoolTx,      \* transactions that may arrive on the rawtx stream
  CoreStart,      \* Core's possible tips when the server is first started
  Orderly,        \* see CoreMayMove
  Lossy,          \* ZMQ block messages may be lost
  CrashAt,        \* control points at which the process may die
  MaxCrashes, MaxFaults, MaxQueue   \* bounds of the model

ASSUME ChainAssumption ==
  /\ Genesis \in Block /\ Prev[Genesis] = ZeroHash
  /\ \A b \in Block \ {Genesis} : Genesis \in Anc[b]
  /\ Work \in [Block -> Nat]
  /\ \A b \in Block \ {Genesis} : Work[Prev[b]] < Work[b]
  /\ HashRank \in [Block -> Nat]
  /\ \A a, b \in Block : HashRank[a] = HashRank[b] => a = b
  /\ ConfigStart \in Nat \cup {-1}
  /\ MaxReorgDepth \in Nat \ {0}
  /\ PruneHeights \subseteq Nat
  /\ CoreStart \subseteq Block
  /\ Orderly \in BOOLEAN /\ Lossy \in BOOLEAN
  /\ MaxCrashes \in Nat /\ MaxFaults \in Nat /\ MaxQueue \in Nat

VARIABLES
  core,       \* Core's tip: the best chain is its branch
  coreKeeps,  \* Core's prune height: the lowest block it can still serve
  zmq,        \* blocks received and not yet taken from BlockChan
  gap,        \* a "block" event is waiting in GapChan
  mem,        \* currentHeight, currentHash, startHeight, pruneHeight
  overlay,    \* txids in the mempool overlay's map of transactions
  pruneJob,   \* a prune job is queued in the Writer
  ctl,        \* where the main goroutine is, see Control
  crashes, faults   \* used up so far

coreVars == <<core, coreKeeps>>
feedVars == <<zmq, gap>>
vars == <<storeVars, coreVars, feedVars, mem, overlay, pruneJob, ctl,
          crashes, faults>>

(***************************************************************************)
(* Control state.  at: the next step.  job: "startup" until main enters    *)
(* the main loop, then "live".  after: who called CheckAndHandle.  caller: *)
(* who called CatchUpTo.  blk: the block ProcessBlock has in hand.         *)
(* target: CatchUpTo's argument, effectiveStart in VerifyAndRepairGaps, or  *)
(* during startup the info.Blocks that main read first.  cur: the height a *)
(* loop is at.  fork: the fork point found.                                *)
(***************************************************************************)
Steps == {"down", "setstart", "idle", "halted", "process", "check", "fork",
          "rollback", "tip", "verify", "match", "gaps", "count", "catchup"}

NoFork == [height |-> -1, hash |-> NoHash]

Control ==
  [at     : Steps,
   job    : {"startup", "live"},
   after  : {"init", "process", "catchup"},
   caller : {"process", "tip"},
   blk    : Block \cup {NoHash},
   target : Int,
   cur    : Int,
   fork   : [height : Int, hash : Block \cup {NoHash}]]

Memory == [height : Int, hash : Block \cup {ZeroHash}, start : Int, prune : Nat]

\* TypeOK: the index, the in-memory chain state and the control state.
TypeOK ==
  /\ StoreTypeOK
  /\ core \in Block /\ coreKeeps \in Nat
  /\ zmq \in Seq(Block) /\ gap \in BOOLEAN
  /\ mem \in Memory
  /\ overlay \subseteq MempoolTx
  /\ pruneJob \in BOOLEAN
  /\ ctl \in Control
  /\ crashes \in 0 .. MaxCrashes /\ faults \in 0 .. MaxFaults

\* A control state with no call in progress.
AtRest(step, job) ==
  [at |-> step, job |-> job, after |-> "init", caller |-> "tip",
   blk |-> NoHash, target |-> 0, cur |-> 0, fork |-> NoFork]

NewMemory == [height |-> 0, hash |-> ZeroHash, start |-> 0, prune |-> 0]

Init ==
  /\ EmptyStore
  /\ core \in CoreStart
  /\ coreKeeps = 0
  /\ zmq = <<>> /\ gap = FALSE
  /\ mem = NewMemory
  /\ overlay = {}
  /\ pruneJob = FALSE
  /\ ctl = AtRest("down", "startup")
  /\ crashes = 0 /\ faults = 0

-----------------------------------------------------------------------------
(***************************************************************************)
(* Bitcoin Core, through its RPC interface.                                *)
(***************************************************************************)
CoreHeight == Height[core]

\* GetBlockHash(h), for 0 <= h <= CoreHeight.
CoreHash(h) == CHOOSE b \in Anc[core] \cup {core} : Height[b] = h

OnCore(h) == 0 <= h /\ h <= CoreHeight

\* GetBlock of the block at height h succeeds.
Served(h) == OnCore(h) /\ coreKeeps <= h

-----------------------------------------------------------------------------
(***************************************************************************)
(* Returns.  An error of CheckAndHandle reaches main as a fatal error at   *)
(* startup; on the block path its text contains "reorg", so isReorgError   *)
(* sends the main loop to CatchUpToTip.                                    *)
(***************************************************************************)
Stop == AtRest("down", "startup")

\* CatchUpToTip is over: startup goes on to the main loop.
TipDone == AtRest("idle", "live")

TipFailed == IF ctl.job = "startup" THEN Stop ELSE AtRest("idle", "live")

GoTip == AtRest("tip", ctl.job)

\* CatchUpTo is over: ProcessBlock tries its block again.
CatchUpDone ==
  IF ctl.caller = "process"
  THEN [AtRest("process", ctl.job) EXCEPT !.blk = ctl.blk]
  ELSE TipDone

\* An RPC of CatchUpTo failed: no word of the error is one of isReorgError's.
CatchUpFailed ==
  IF ctl.caller = "process" THEN AtRest("idle", "live") ELSE TipFailed

CheckFailed ==
  CASE ctl.after = "init"    -> Stop
    [] ctl.after = "process" -> GoTip
    [] ctl.after = "catchup" -> IF ctl.caller = "process" THEN GoTip ELSE TipFailed

\* A step that ends with an error and changes nothing else.  The memory of a
\* process that stops is gone.
Abort(next) ==
  /\ ctl' = next
  /\ IF next.at = "down"
     THEN mem' = NewMemory /\ overlay' = {} /\ pruneJob' = FALSE
     ELSE UNCHANGED <<mem, overlay, pruneJob>>
  /\ UNCHANGED <<storeVars, coreVars, feedVars, crashes>>

Fail(next) == Abort(next) /\ UNCHANGED faults

\* What a step of the main goroutine leaves alone.
Elsewhere == <<coreVars, feedVars, pruneJob, crashes, faults>>

\* A step that only moves on.
Goto(next) ==
  /\ ctl' = next
  /\ UNCHANGED <<storeVars, mem, overlay, Elsewhere>>

(***************************************************************************)
(* CheckAndHandle returns h and b (NoHash: no hash, as for a fresh         *)
(* database) with checkpoint cp on disk.  Initialize then loads the chain  *)
(* state; ProcessBlock adopts the result and reports "reorg handled";      *)
(* CatchUpTo adopts it and starts again for the same target.               *)
(***************************************************************************)

\* A variant of Initialize that keeps the empty string for a hash.
LoadRaw(cp) ==
  mem' = [mem EXCEPT !.height = cp.height, !.hash = cp.hash,
                     !.start = IF cp.start > 0 THEN cp.start ELSE @]

LoadState(cp) ==
  mem' = [mem EXCEPT !.height = cp.height,
                     !.hash = IF cp.hash = NoHash THEN ZeroHash ELSE cp.hash,
                     !.start = IF cp.start > 0 THEN cp.start ELSE @]

AdoptResult(h, b) ==
  mem' = [mem EXCEPT !.height = h, !.hash = IF b = NoHash THEN @ ELSE b]

\* The test for a fresh database, in CheckAndHandle and again in main.
IsFresh(cp) == cp.height = 0 /\ cp.hash = NoHash

CheckReturns(h, b, cp) ==
  IF ctl.after = "init"
  THEN /\ LoadState(cp)
       /\ ctl' = IF IsFresh(cp)
                 THEN [AtRest("setstart", ctl.job) EXCEPT !.target = ctl.target]
                 ELSE GoTip
  ELSE /\ AdoptResult(h, b)
       /\ ctl' = IF ctl.after = "process"
                 THEN GoTip
                 ELSE [ctl EXCEPT !.at = "catchup", !.after = "init",
                                  !.cur = 0, !.fork = NoFork]

-----------------------------------------------------------------------------
(***************************************************************************)
(* ReorgHandler.CheckAndHandle: is the checkpoint on Core's best chain?    *)
(***************************************************************************)
Fresh == IsFresh(checkpoint)

CheckFresh ==
  /\ ctl.at = "check" /\ Fresh
  /\ CheckReturns(0, NoHash, checkpoint)
  /\ UNCHANGED <<storeVars, overlay, Elsewhere>>

\* Core's best chain is shorter than ours: GetBlockHash is an error.
CheckUnknown ==
  /\ ctl.at = "check" /\ ~Fresh
  /\ ~OnCore(checkpoint.height)
  /\ Fail(CheckFailed)

CheckMatch ==
  /\ ctl.at = "check" /\ ~Fresh
  /\ OnCore(checkpoint.height)
  /\ CoreHash(checkpoint.height) = checkpoint.hash
  /\ CheckReturns(checkpoint.height, checkpoint.hash, checkpoint)
  /\ UNCHANGED <<storeVars, overlay, Elsewhere>>

CheckMismatch ==
  /\ ctl.at = "check" /\ ~Fresh
  /\ OnCore(checkpoint.height)
  /\ CoreHash(checkpoint.height) # checkpoint.hash
  /\ Goto([ctl EXCEPT !.at = "fork", !.cur = checkpoint.height - 1])

(***************************************************************************)
(* findForkPoint, one height at a time.                                    *)
(***************************************************************************)

\* getOurBlockHash; NoHash stands for its error.  The undo key iterated
\* first is the one of the smallest hash.
OurBlockHash(h) ==
  LET recs == {k[2] : k \in {j \in DOMAIN undo : j[1] = h}}
  IN  IF checkpoint.height = h /\ checkpoint.hash # NoHash THEN checkpoint.hash
      ELSE IF recs # {}
           THEN CHOOSE b \in recs : \A c \in recs : HashRank[b] <= HashRank[c]
      ELSE IF h \in DOMAIN header THEN header[h]
      ELSE NoHash

Boundary == IF checkpoint.start <= 0 THEN 1 ELSE checkpoint.start

InSearch ==
  /\ ctl.at = "fork"
  /\ ctl.cur >= Boundary
  /\ checkpoint.height - ctl.cur <= MaxReorgDepth

\* A variant whose rollback starts one block too low.
ForkFoundLow(h, b) ==
  IF checkpoint.height - h > MaxReorgDepth /\ h > 0
  THEN Fail(CheckFailed)
  ELSE Goto([ctl EXCEPT !.at = "rollback", !.cur = checkpoint.height - 1,
                        !.fork = [height |-> h, hash |-> b]])

\* CheckAndHandle with the fork point in hand: refuse a reorg that is too
\* deep, unless it goes down to height 0.
ForkFound(h, b) ==
  IF checkpoint.height - h > MaxReorgDepth /\ h > 0
  THEN Fail(CheckFailed)
  ELSE Goto([ctl EXCEPT !.at = "rollback", !.cur = checkpoint.height,
                        !.fork = [height |-> h, hash |-> b]])

ForkStep ==
  /\ InSearch
  /\ LET b == OurBlockHash(ctl.cur)
     IN  IF b = NoHash THEN Goto([ctl EXCEPT !.cur = @ - 1])
         ELSE IF ~OnCore(ctl.cur) THEN Fail(CheckFailed)
         ELSE IF CoreHash(ctl.cur) = b THEN ForkFound(ctl.cur, b)
         ELSE Goto([ctl EXCEPT !.cur = @ - 1])

ForkBoundary ==
  /\ ctl.at = "fork" /\ ~InSearch
  /\ IF OnCore(Boundary - 1)
     THEN ForkFound(Boundary - 1, CoreHash(Boundary - 1))
     ELSE Fail(CheckFailed)

(***************************************************************************)
(* rollbackToHeight: one commit per block, then the checkpoint, without    *)
(* its StartHeight; CheckAndHandle then clears the mempool overlay.        *)
(***************************************************************************)
RollbackStep ==
  /\ ctl.at = "rollback" /\ ctl.cur > ctl.fork.height
  /\ LET b == OurBlockHash(ctl.cur)
     IN  /\ b # NoHash
         /\ RollbackBlock(ctl.cur, b)
  /\ ctl' = [ctl EXCEPT !.cur = @ - 1]
  /\ UNCHANGED <<mem, overlay, Elsewhere>>

RollbackStuck ==
  /\ ctl.at = "rollback" /\ ctl.cur > ctl.fork.height
  /\ <<ctl.cur, OurBlockHash(ctl.cur)>> \notin DOMAIN undo
  /\ Fail(CheckFailed)

RollbackDone ==
  /\ ctl.at = "rollback" /\ ctl.cur <= ctl.fork.height
  /\ LET ours == OurBlockHash(ctl.fork.height)
         cp == [height |-> ctl.fork.height,
                hash   |-> IF ours # NoHash THEN ours ELSE CoreHash(ctl.fork.height),
                start  |-> 0]
     IN  IF ours = NoHash /\ ~OnCore(ctl.fork.height)
         THEN Fail(CheckFailed)
         ELSE /\ SaveCheckpoint(cp)
              /\ CheckReturns(ctl.fork.height, ctl.fork.hash, cp)
              /\ overlay' = {}
              /\ UNCHANGED Elsewhere

-----------------------------------------------------------------------------
(***************************************************************************)
(* BlockIndexer.IndexBlock as the chain logic calls it: the batch, and the *)
(* block's transactions leave the mempool overlay.                         *)
(***************************************************************************)
Index(b, h) ==
  /\ IndexBlock(b, h)
  /\ overlay' = overlay \ Range(BlockTxs[b])

\* A variant that accepts any block on top of the tip.
ConnectsAnyway(b) == b \in Block

Connects(b) == Prev[b] = mem.hash

\* A variant that forgets the new height.
AdvanceHash(h, b) == mem' = [mem EXCEPT !.hash = b]

Advance(h, b) == mem' = [mem EXCEPT !.height = h, !.hash = b]

(***************************************************************************)
(* ProcessBlock, with the block of ctl.blk.                                *)
(***************************************************************************)
ProcessConnects ==
  /\ ctl.at = "process"
  /\ Connects(ctl.blk)
  /\ Index(ctl.blk, mem.height + 1)
  /\ Advance(mem.height + 1, ctl.blk)
  /\ ctl' = AtRest("idle", "live")
  /\ UNCHANGED Elsewhere

\* Cases 2a and 2c: at or below our tip, or next to it on another branch.
ProcessReorg ==
  /\ ctl.at = "process"
  /\ ~Connects(ctl.blk)
  /\ Height[ctl.blk] <= mem.height + 1
  /\ Goto([AtRest("check", ctl.job) EXCEPT !.after = "process"])

\* Case 2b: blocks were missed.
ProcessGap ==
  /\ ctl.at = "process"
  /\ ~Connects(ctl.blk)
  /\ Height[ctl.blk] > mem.height + 1
  /\ Goto([ctl EXCEPT !.at = "catchup", !.caller = "process",
                      !.target = Height[ctl.blk] - 1])

(***************************************************************************)
(* CatchUpTo(ctl.target).                                                  *)
(***************************************************************************)
CatchUpEnd ==
  /\ ctl.at = "catchup" /\ ctl.target <= mem.height
  /\ Goto(CatchUpDone)

CatchUpStep ==
  /\ ctl.at = "catchup" /\ ctl.target > mem.height
  /\ LET h == mem.height + 1
         b == CoreHash(h)
     IN  IF ~Served(h) THEN Fail(CatchUpFailed)
         ELSE IF ~Connects(b)
              THEN Goto([ctl EXCEPT !.at = "check", !.after = "catchup"])
         ELSE /\ Index(b, h)
              /\ Advance(h, b)
              /\ UNCHANGED <<ctl, Elsewhere>>

(***************************************************************************)
(* CatchUpToTip and VerifyAndRepairGaps.  Ranges of more than a thousand   *)
(* blocks, which are sampled first, are beyond the model.                  *)
(***************************************************************************)
FindFirstIndexedHeight ==
  LET holes == {h \in 1 .. mem.height : h \notin DOMAIN header}
  IN  IF 1 \in DOMAIN header \/ holes = {} THEN 1
      ELSE 1 + (CHOOSE h \in holes : \A k \in holes : k <= h)

EffectiveStart == IF mem.start > 0 THEN mem.start ELSE FindFirstIndexedHeight

\* A variant that is off by one.
PrunedAtTip == mem.prune > 0 /\ mem.height <= mem.prune

PrunedGap == mem.prune > 0 /\ mem.height < mem.prune

TipPrunedGap ==
  /\ ctl.at = "tip" /\ PrunedGap
  /\ Goto(AtRest("halted", ctl.job))

TipVerify ==
  /\ ctl.at = "tip" /\ ~PrunedGap
  /\ Goto(IF mem.height <= 0
          THEN [ctl EXCEPT !.at = "count"]
          ELSE [ctl EXCEPT !.at = "verify", !.target = EffectiveStart])

VerifyTip ==
  /\ ctl.at = "verify"
  /\ IF ~OnCore(mem.height) THEN Fail(TipFailed)
     ELSE IF CoreHash(mem.height) = mem.hash THEN Goto([ctl EXCEPT !.at = "gaps"])
     ELSE Goto([ctl EXCEPT !.at = "match", !.cur = mem.height])

\* The in-memory tip and the checkpoint move to block b at height h, and
\* nothing else: the blocks above are not rolled back.
MoveTip(h, b, start) ==
  /\ mem' = [mem EXCEPT !.height = h, !.hash = b]
  /\ SaveCheckpoint([height |-> h, hash |-> b, start |-> start])
  /\ ctl' = AtRest("count", ctl.job)
  /\ UNCHANGED <<overlay, Elsewhere>>

\* findLastMatchingHeight, one height at a time.
MatchStep ==
  /\ ctl.at = "match" /\ ctl.cur >= ctl.target
  /\ IF /\ ctl.cur \in DOMAIN header
        /\ OnCore(ctl.cur)
        /\ CoreHash(ctl.cur) = header[ctl.cur]
     THEN MoveTip(ctl.cur, header[ctl.cur], mem.start)
     ELSE Goto([ctl EXCEPT !.cur = @ - 1])

\* No stored header is on Core's chain: start over below effectiveStart.
MatchNone ==
  /\ ctl.at = "match" /\ ctl.cur < ctl.target
  /\ IF ctl.target <= 1 THEN MoveTip(0, ZeroHash, ctl.target)
     ELSE IF OnCore(ctl.target - 1)
          THEN MoveTip(ctl.target - 1, CoreHash(ctl.target - 1), ctl.target)
          ELSE Fail(TipFailed)

Holes == {h \in ctl.target .. mem.height : h \notin DOMAIN header}

\* repairGap indexes Core's block at every height without a header, lowest
\* first; the in-memory tip stays where it is.
RepairStep ==
  /\ ctl.at = "gaps" /\ Holes # {}
  /\ LET h == CHOOSE h \in Holes : \A k \in Holes : h <= k
     IN  IF ~Served(h) THEN Fail(TipFailed)
         ELSE /\ Index(CoreHash(h), h)
              /\ UNCHANGED <<ctl, mem, Elsewhere>>

RepairDone ==
  /\ ctl.at = "gaps" /\ Holes = {}
  /\ Goto(AtRest("count", ctl.job))

AtTip == CoreHeight <= mem.height

TipCount ==
  /\ ctl.at = "count"
  /\ Goto(IF AtTip
          THEN TipDone
          ELSE [ctl EXCEPT !.at = "catchup", !.caller = "tip",
                           !.target = CoreHeight])

-----------------------------------------------------------------------------
(***************************************************************************)
(* main: startup, and the select of the main loop.                         *)
(***************************************************************************)
\* getBlockchainInfo, whose answer the whole startup goes by.
StartServer ==
  /\ ctl.at = "down"
  /\ ctl' = [AtRest("check", "startup") EXCEPT !.target = CoreHeight]
  /\ mem' = [NewMemory EXCEPT !.prune = coreKeeps]
  /\ UNCHANGED <<storeVars, overlay, Elsewhere>>

\* determineStartHeight and SetStartHeight, on a fresh database.
SetStartHeight ==
  /\ ctl.at = "setstart"
  /\ LET from == IF ConfigStart = -1 THEN ctl.target ELSE ConfigStart
         b == CoreHash(from - 1)
     IN  IF from = 0 THEN Goto(GoTip)
         ELSE IF ~OnCore(from - 1) THEN Fail(Stop)
         ELSE /\ SaveCheckpoint([height |-> from - 1, hash |-> b, start |-> from])
              /\ mem' = [mem EXCEPT !.height = from - 1, !.hash = b, !.start = from]
              /\ ctl' = GoTip
              /\ UNCHANGED <<overlay, Elsewhere>>

TakeBlock ==
  /\ ctl.at = "idle" /\ zmq # <<>>
  /\ ctl' = [AtRest("process", "live") EXCEPT !.blk = Head(zmq)]
  /\ zmq' = Tail(zmq)
  /\ UNCHANGED <<storeVars, coreVars, gap, mem, overlay, pruneJob, crashes, faults>>

TakeGap ==
  /\ ctl.at = "idle" /\ gap
  /\ ctl' = GoTip
  /\ gap' = FALSE
  /\ UNCHANGED <<storeVars, coreVars, zmq, mem, overlay, pruneJob, crashes, faults>>

\* A variant that is off by one.
FarBehindCore == CoreHeight > mem.height + 1

\* The condition of reorgCheckTicker, which looks at heights only.
BehindCore == CoreHeight > mem.height

TakeTick ==
  /\ ctl.at = "idle"
  /\ Orderly => zmq = <<>>
  /\ BehindCore
  /\ Goto(GoTip)

\* AddTransaction, or its refusal of a double spend.
TakeTx(t) ==
  /\ ctl.at = "idle"
  /\ overlay' \in {overlay, overlay \cup {t}}
  /\ UNCHANGED <<storeVars, mem, ctl, Elsewhere>>

\* reconcileMempool drops and backfills transactions by Core's mempool, of
\* which nothing is known here.
ReconcileMempool ==
  /\ ctl \in {AtRest("idle", "live"), AtRest("tip", "startup")}
  /\ overlay' \in SUBSET MempoolTx
  /\ UNCHANGED <<storeVars, mem, ctl, Elsewhere>>

\* TriggerPrune, from pruneTicker or after a block.
PruneTick ==
  /\ ctl.at = "idle"
  /\ pruneJob' = TRUE
  /\ UNCHANGED <<storeVars, coreVars, feedVars, mem, overlay, ctl, crashes, faults>>

\* The Writer is inside ProcessBlock.
WriterBusy ==
  \/ ctl.at = "process"
  \/ ctl.at \in {"check", "fork", "rollback"} /\ ctl.after = "process"
  \/ ctl.at \in {"check", "fork", "rollback", "catchup"} /\ ctl.caller = "process"

\* A variant that keeps the undo record of the tip only.
KeepTipOnly == mem.height

\* pruneBeforeHeight.
KeepUndoFrom == mem.height - MaxReorgDepth

\* PruneOldUndoData, with the height the chain manager has in memory.
RunPrune ==
  /\ pruneJob /\ ~WriterBusy
  /\ pruneJob' = FALSE
  /\ IF mem.height <= MaxReorgDepth
     THEN UNCHANGED storeVars
     ELSE PruneUndoData(KeepUndoFrom)
  /\ UNCHANGED <<coreVars, feedVars, mem, overlay, ctl, crashes, faults>>

-----------------------------------------------------------------------------
(***************************************************************************)
(* The environment: Core's best chain, the ZMQ feed, RPC failures and the  *)
(* death of the process.                                                   *)
(***************************************************************************)

\* An orderly Core moves only when the server is down or has nothing left
\* to do, and an orderly timer leaves the notification the first word.
CoreMayMove ==
  Orderly => \/ ctl.at = "down"
             \/ ctl.at = "idle" /\ zmq = <<>> /\ mem.hash = core

\* Core adopts the branch of b.  It publishes the new tip, which a server
\* that is not yet in its main loop is not subscribed to.
CoreAdopts(b) ==
  /\ CoreMayMove
  /\ Work[b] > Work[core]
  /\ core' = b
  /\ zmq' = IF ctl.job = "live" /\ Len(zmq) < MaxQueue THEN Append(zmq, b) ELSE zmq
  /\ UNCHANGED <<storeVars, coreKeeps, gap, mem, overlay, pruneJob, ctl,
                 crashes, faults>>

\* A published block is lost; the next message may show the gap.
LoseBlock ==
  /\ Lossy /\ zmq # <<>>
  /\ zmq' = Tail(zmq)
  /\ gap' \in {gap, TRUE}
  /\ UNCHANGED <<storeVars, coreVars, mem, overlay, pruneJob, ctl, crashes, faults>>

\* Core discards its blocks below height h; an orderly Core while the server
\* is down, since a running server never asks again.
CorePrunes(h) ==
  /\ Orderly => ctl.at = "down"
  /\ coreKeeps < h /\ h <= CoreHeight
  /\ coreKeeps' = h
  /\ UNCHANGED <<storeVars, core, feedVars, mem, overlay, pruneJob, ctl,
                 crashes, faults>>

\* CheckAndHandle is at a call of GetBlockHash.
CheckAsksCore ==
  \/ ctl.at = "check" /\ ~Fresh
  \/ ctl.at = "fork"
  \/ /\ ctl.at = "rollback" /\ ctl.cur <= ctl.fork.height
     /\ OurBlockHash(ctl.fork.height) = NoHash

\* An RPC call fails.  findLastMatchingHeight alone goes on regardless.
RpcFault ==
  /\ faults < MaxFaults
  /\ faults' = faults + 1
  /\ \/ CheckAsksCore /\ Abort(CheckFailed)
     \/ ctl.at = "setstart" /\ ConfigStart # 0 /\ Abort(Stop)
     \/ ctl.at \in {"verify", "count"} /\ Abort(TipFailed)
     \/ ctl.at = "gaps" /\ Holes # {} /\ Abort(TipFailed)
     \/ ctl.at = "catchup" /\ ctl.target > mem.height /\ Abort(CatchUpFailed)
     \/ /\ ctl.at = "process" /\ ~Connects(ctl.blk)
        /\ Abort(AtRest("idle", "live"))
     \/ /\ ctl.at = "match" /\ (ctl.cur >= ctl.target \/ ctl.target > 1)
        /\ Abort(IF ctl.cur >= ctl.target THEN [ctl EXCEPT !.cur = @ - 1]
                                          ELSE TipFailed)

Crash ==
  /\ ctl.at \in CrashAt /\ crashes < MaxCrashes
  /\ crashes' = crashes + 1
  /\ ctl' = Stop
  /\ mem' = NewMemory /\ overlay' = {} /\ pruneJob' = FALSE
  /\ zmq' = <<>> /\ gap' = FALSE
  /\ UNCHANGED <<storeVars, coreVars, faults>>

-----------------------------------------------------------------------------
\* The steps of a call in progress.
ChainStep ==
  \/ CheckFresh \/ CheckUnknown \/ CheckMatch \/ CheckMismatch
  \/ ForkStep \/ ForkBoundary
  \/ RollbackStep \/ RollbackStuck \/ RollbackDone
  \/ ProcessConnects \/ ProcessReorg \/ ProcessGap
  \/ CatchUpEnd \/ CatchUpStep
  \/ TipPrunedGap \/ TipVerify \/ VerifyTip \/ MatchStep \/ MatchNone
  \/ RepairStep \/ RepairDone \/ TipCount
  \/ SetStartHeight

Environment ==
  \/ \E b \in Block : CoreAdopts(b)
  \/ LoseBlock
  \/ \E h \in PruneHeights : CorePrunes(h)
  \/ RpcFault
  \/ Crash

Next ==
  \/ ChainStep
  \/ StartServer
  \/ TakeBlock \/ TakeGap \/ TakeTick
  \/ \E t \in MempoolTx : TakeTx(t)
  \/ ReconcileMempool
  \/ PruneTick \/ RunPrune
  \/ Environment

(***************************************************************************)
(* Fairness.  A call in progress goes on, the service manager restarts the *)
(* process, and Go's select, which chooses at random among the ready       *)
(* cases, takes each case that keeps being ready.  Nothing is assumed of   *)
(* Core, of the network or of crashes.                                     *)
(***************************************************************************)
Fairness ==
  /\ WF_vars(ChainStep)
  /\ WF_vars(StartServer)
  /\ SF_vars(TakeBlock) /\ SF_vars(TakeGap) /\ SF_vars(TakeTick)

Spec == Init /\ [][Next]_vars

FairSpec == Spec /\ Fairness

-----------------------------------------------------------------------------
(***************************************************************************)
(* The circumstances under which the program keeps to the discipline of    *)
(* IndexLedger: messages and RPCs arrive, no crash falls into a rollback,  *)
(* the branch with more work is the longer one, no two branches differ at  *)
(* or below the first block indexed, nor more than max_reorg_depth below   *)
(* the tip of the shorter one.                                             *)
(***************************************************************************)
Branch(b) == Anc[b] \cup {b}

Discipline ==
  /\ Orderly /\ ~Lossy /\ MaxFaults = 0 /\ MaxQueue # 0
  /\ "rollback" \notin CrashAt
  /\ ConfigStart > 0
  /\ \A a, b \in Block : Work[a] < Work[b] => Height[a] < Height[b]
  /\ \A a, b \in Block : Height[a] = Height[b] /\ Height[a] <= ConfigStart => a = b
  /\ \A a, b \in Block : \A x \in Branch(a) :
       Height[x] + MaxReorgDepth <= Height[a] /\ Height[x] + MaxReorgDepth <= Height[b]
         => x \in Branch(b)

Ledger == INSTANCE IndexLedger

\* LedgerSpec: every change the program makes to the index is a step of
\* IndexLedger: a block is indexed on top of the one on disk, blocks are taken
\* off from the top by their own undo records, and the checkpoint is lowered
\* to what is left.
LedgerSpec == Ledger!Spec

\* IndexExact: the headers are one branch that ends at the checkpoint or, while
\* it is rolled back, below it, and UTXOs, history and transaction lookups are
\* those of that branch, across reorgs, restarts and prune jobs.
IndexExact ==
  /\ Ledger!HeadersLinked
  /\ Ledger!UtxoExact
  /\ Ledger!HistoryExact
  /\ Ledger!LookupExact

\* MemoryAgrees: whenever the main loop waits for an event, currentHeight and
\* currentHash are the checkpoint's, although an RPC that fails leaves memory
\* where it was and on disk the batches before it.  This is for one failure and
\* a start at block 1.  With a later start a rollback that fails half way lets
\* repairGap leave the checkpoint below memory (chain.go:509), and one that goes
\* below the start can end with two hashes (reorg.go:227); the theorem asks for
\* Discipline instead, which has no failures and no forks there.
MemoryAgrees ==
  ctl.at = "idle" => mem.height = checkpoint.height /\ mem.hash = checkpoint.hash

\* HeightsTrue: a height kept together with a block, in memory or in any record
\* of the index, is the height of that block, although Core changes its best
\* chain between the RPCs that produce the two, and heights are counted up
\* and down without asking Core again.
HeightsTrue ==
  /\ mem.hash \in Block => Height[mem.hash] = mem.height
  /\ checkpoint.hash \in Block => Height[checkpoint.hash] = checkpoint.height
  /\ \A h \in DOMAIN header : Height[header[h]] = h
  /\ \A o \in DOMAIN utxo : Height[utxo[o].hash] = utxo[o].height
  /\ \A k \in DOMAIN undo : Height[k[2]] = k[1]

\* UndoAvailable: a rollback that the depth check let through finds the undo
\* record of every block it has to take off, prune jobs notwithstanding.
UndoAvailable ==
  ctl.at = "rollback" /\ ctl.cur > ctl.fork.height =>
    <<ctl.cur, OurBlockHash(ctl.cur)>> \in DOMAIN undo

\* The server waits for events with Core's tip indexed.
Synced == ctl.at = "idle" /\ mem.hash = core /\ checkpoint.hash = core

\* EventuallySynced: once Core rests, the index reaches Core's tip and stays
\* there, whatever notifications were lost, late or out of date.
EventuallySynced == <>[]Synced

\* EventuallySettled: once Core rests the index reaches its tip, or the server
\* has stopped to ask for the operator with its tip below the lowest block of a
\* Core that prunes.
EventuallySettled == <>[](Synced \/ (ctl.at = "halted" /\ mem.height < coreKeeps))

-----------------------------------------------------------------------------
(***************************************************************************)
(* What comments and documents say and the code does not do (see README).  *)
(***************************************************************************)

\* ReorgSafe: the "reorg-safe index" of the README: once Core's tip is indexed
\* the UTXO set and the history are those of the indexed branch.
ReorgSafe == Synced => Ledger!UtxoExact /\ Ledger!HistoryExact

\* HaltNeeded: the "pruned gap" of docs/pruned-reanchor-risks.md: the server
\* refuses to go on only if Core no longer has the block after its tip.
HaltNeeded == ctl.at = "halted" => mem.height + 1 < coreKeeps
=============================================================================
