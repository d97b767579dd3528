------------------------- MODULE ChainManagerProofs -------------------------
(***************************************************************************)
(* Proofs about ChainManager that hold whatever Core, the network, the     *)
(* RPC calls and crashes do: no assumption is made on Orderly, Lossy or    *)
(* the bounds.                                                             *)
(***************************************************************************)
EXTENDS ChainManager, IndexStoreProofs

\* ProcessBlock, and a CatchUpTo it has called, have a block in hand, and it
\* is not the first one.
BlockInHand ==
  ctl.at = "process" \/ ctl.caller = "process" => ctl.blk \in Block \ {Genesis}

\* The fork point a rollback goes down to is a block at its height.
ForkTrue ==
  ctl.at = "rollback" =>
    ctl.fork.hash \in Block /\ Height[ctl.fork.hash] = ctl.fork.height

\* The in-memory tip is a block at its height.
MemoryTrue == mem.hash \in Block => Height[mem.hash] = mem.height

\* As long as no checkpoint has been written there is no tip in memory.
FreshMemory == checkpoint.hash = NoHash => mem.hash = ZeroHash

\* Core never publishes its first block, since that one has the least work.
NeverGenesis == zmq \in Seq(Block \ {Genesis})

\* What the proof of HeightsTrue carries along.
Inductive ==
  /\ TypeOK
  /\ StoreHeights
  /\ MemoryTrue
  /\ BlockInHand
  /\ ForkTrue
  /\ FreshMemory
  /\ NeverGenesis

-----------------------------------------------------------------------------
(***************************************************************************)
(* Bitcoin Core's answers.                                                 *)
(***************************************************************************)

\* GetBlockHash of a height of the best chain gives a block at that height.
LEMMA CoreHashTrue ==
  ASSUME core \in Block, NEW h \in Int, OnCore(h)
  PROVE  CoreHash(h) \in Block /\ Height[CoreHash(h)] = h /\ CoreHash(h) \in Anc[core] \cup {core}
<1>1. h \in Nat /\ h <= Height[core]
  BY DEF OnCore, CoreHeight
<1>2. \E b \in Anc[core] \cup {core} : Height[b] = h
  BY <1>1, BranchComplete
<1>3. CoreHash(h) \in Anc[core] \cup {core} /\ Height[CoreHash(h)] = h
  BY <1>2 DEF CoreHash
<1>4. Anc[core] \subseteq Block
  BY TreeAssumption
<1> QED
  BY <1>3, <1>4

\* The block below any other than the first is a block.
LEMMA PrevOfLater ==
  ASSUME NEW b \in Block, b # Genesis
  PROVE  Prev[b] \in Block /\ Height[b] = Height[Prev[b]] + 1
BY TreeAssumption, ChainAssumption

\* No branch has less work than the first block alone.
LEMMA GenesisLeast ==
  ASSUME NEW b \in Block
  PROVE  Work[Genesis] <= Work[b]
<1> DEFINE bad == {c \in Block : ~(Work[Genesis] <= Work[c])}
<1>1. ASSUME NEW c \in bad PROVE Prev[c] \in bad
  <2>1. Work[Genesis] \in Nat /\ Work[c] \in Nat
    BY ChainAssumption
  <2>2. c # Genesis
    BY <2>1
  <2>3. Prev[c] \in Block /\ Work[Prev[c]] < Work[c] /\ Work[Prev[c]] \in Nat
    BY <2>2, PrevOfLater, ChainAssumption
  <2> QED
    BY <2>1, <2>3
<1>2. bad = {}
  <2>1. bad \in SUBSET Block
    OBVIOUS
  <2> HIDE DEF bad
  <2> QED
    BY <1>1, <2>1, BranchInduction
<1> QED
  BY <1>2

\* getOurBlockHash: whichever record it finds first, a block it returns has
\* the height asked for.
LEMMA OurBlockHashTrue ==
  ASSUME StoreTypeOK, StoreHeights, NEW h \in Int
  PROVE  /\ OurBlockHash(h) \in Block \cup {NoHash, ZeroHash}
         /\ OurBlockHash(h) \in Block => Height[OurBlockHash(h)] = h
<1> DEFINE keys == {j \in DOMAIN undo : j[1] = h}
           recs == {k[2] : k \in keys}
<1>1. checkpoint.hash \in Block \cup {NoHash, ZeroHash}
  BY DEF StoreTypeOK, Checkpoint
<1>2. CASE checkpoint.height = h /\ checkpoint.hash # NoHash
  BY <1>1, <1>2 DEF OurBlockHash, StoreHeights
<1>3. CASE ~(checkpoint.height = h /\ checkpoint.hash # NoHash) /\ recs # {}
  <2>1. \A k \in keys : k[2] \in Block /\ Height[k[2]] = h
    BY DEF StoreTypeOK, StoreHeights
  <2>2. recs \subseteq Block /\ \A b \in recs : Height[b] = h
    BY <2>1
  <2> DEFINE ranks == {HashRank[b] : b \in recs}
  <2>3. ranks \in SUBSET Nat /\ ranks # {}
    BY <1>3, <2>2, ChainAssumption
  <2>4. PICK n \in ranks : \A m \in ranks : n <= m
    <3> HIDE DEF ranks
    <3> QED
      BY <2>3, LeastNat
  <2>5. \E b \in recs : \A c \in recs : HashRank[b] <= HashRank[c]
    BY <2>4
  <2>6. OurBlockHash(h) = CHOOSE b \in recs : \A c \in recs : HashRank[b] <= HashRank[c]
    BY <1>3 DEF OurBlockHash
  <2>7. OurBlockHash(h) \in recs
    BY <2>5, <2>6
  <2> QED
    BY <2>2, <2>7
<1>4. CASE ~(checkpoint.height = h /\ checkpoint.hash # NoHash) /\ recs = {}
  <2>1. OurBlockHash(h) = IF h \in DOMAIN header THEN header[h] ELSE NoHash
    BY <1>4 DEF OurBlockHash
  <2> QED
    BY <2>1, TreeAssumption DEF StoreTypeOK, StoreHeights
<1> QED
  BY <1>2, <1>3, <1>4

\* findFirstIndexedHeight is a height.
LEMMA FirstIndexedType ==
  ASSUME mem.height \in Int
  PROVE  FindFirstIndexedHeight \in Int
<1> DEFINE holes == {h \in 1 .. mem.height : h \notin DOMAIN header}
<1>1. CASE 1 \in DOMAIN header \/ holes = {}
  BY <1>1 DEF FindFirstIndexedHeight
<1>2. CASE ~(1 \in DOMAIN header \/ holes = {})
  <2> DEFINE up == {mem.height - h : h \in holes}
  <2>1. up \in SUBSET Nat /\ up # {}
    <3>1. \A h \in holes : mem.height - h \in Nat
      OBVIOUS
    <3> HIDE DEF holes
    <3> QED
      BY <1>2, <3>1
  <2>2. PICK n \in up : \A m \in up : n <= m
    <3> HIDE DEF up
    <3> QED
      BY <2>1, LeastNat
  <2>3. PICK x \in holes : n = mem.height - x
    BY <2>2
  <2>4. ASSUME NEW k \in holes PROVE k <= x
    <3>1. mem.height - k \in up /\ k \in Int /\ x \in Int
      OBVIOUS
    <3> HIDE DEF up, holes
    <3> QED
      BY <2>2, <2>3, <3>1
  <2>5. FindFirstIndexedHeight = 1 + (CHOOSE h \in holes : \A k \in holes : k <= h)
    BY <1>2 DEF FindFirstIndexedHeight
  <2>6. (CHOOSE h \in holes : \A k \in holes : k <= h) \in holes
    BY <2>3, <2>4
  <2>7. holes \subseteq Int
    OBVIOUS
  <2> HIDE DEF holes
  <2> QED
    BY <2>5, <2>6, <2>7
<1> QED
  BY <1>1, <1>2

\* The gap repairGap starts with is a hole.
LEMMA LowestHole ==
  ASSUME mem.height \in Int, ctl.target \in Int, Holes # {}
  PROVE  (CHOOSE h \in Holes : \A k \in Holes : h <= k) \in Holes
<1> DEFINE up == {h - ctl.target : h \in Holes}
<1>1. Holes \subseteq Int /\ \A h \in Holes : h - ctl.target \in Nat
  BY DEF Holes
<1>2. up \in SUBSET Nat /\ up # {}
  BY <1>1
<1>3. PICK n \in up : \A m \in up : n <= m
  <2> HIDE DEF up
  <2> QED
    BY <1>2, LeastNat
<1>4. PICK x \in Holes : n = x - ctl.target
  BY <1>3
<1>5. \A k \in Holes : x <= k
  <2> SUFFICES ASSUME NEW k \in Holes PROVE x <= k
    OBVIOUS
  <2>1. k - ctl.target \in up
    OBVIOUS
  <2> HIDE DEF up
  <2> QED
    BY <1>1, <1>3, <1>4, <2>1
<1> QED
  BY <1>4, <1>5

-----------------------------------------------------------------------------
(***************************************************************************)
(* Steps by their shape.                                                   *)
(***************************************************************************)

\* A control state the invariant allows.
ControlOK(c) ==
  /\ c \in Control
  /\ c.at = "process" \/ c.caller = "process" => c.blk \in Block \ {Genesis}
  /\ c.at = "rollback" => c.fork.hash \in Block /\ Height[c.fork.hash] = c.fork.height

\* A chain state in memory the invariant allows.
MemoryOK(m) ==
  /\ m \in Memory
  /\ m.hash \in Block => Height[m.hash] = m.height

\* What the invariant says of the control state and of the memory.
LEMMA NowOK ==
  ASSUME Inductive
  PROVE  ControlOK(ctl) /\ MemoryOK(mem) /\ StoreTypeOK /\ StoreHeights /\ core \in Block
BY DEF Inductive, TypeOK, ControlOK, MemoryOK, BlockInHand, ForkTrue, MemoryTrue

\* A step of the main goroutine that leaves Core, the feed and the Writer's
\* queue alone.
LEMMA MainStepKeeps ==
  ASSUME Inductive, UNCHANGED Elsewhere,
         StoreTypeOK', StoreHeights',
         MemoryOK(mem'),
         ControlOK(ctl'),
         FreshMemory', overlay' \subseteq MempoolTx
  PROVE  Inductive'
<1>1. UNCHANGED <<core, coreKeeps, zmq, gap, pruneJob, crashes, faults>>
  BY DEF Elsewhere, coreVars, feedVars
<1>2. TypeOK'
  BY <1>1 DEF Inductive, TypeOK, MemoryOK, ControlOK
<1>3. MemoryTrue' /\ BlockInHand' /\ ForkTrue'
  BY DEF MemoryTrue, BlockInHand, ForkTrue, MemoryOK, ControlOK
<1>4. NeverGenesis'
  BY <1>1 DEF Inductive, NeverGenesis
<1> QED
  BY <1>2, <1>3, <1>4 DEF Inductive

\* A step that only moves on.
LEMMA GotoKeeps ==
  ASSUME Inductive, NEW next, Goto(next), ControlOK(next)
  PROVE  Inductive'
<1>1. ctl' = next /\ UNCHANGED <<storeVars, mem, overlay, Elsewhere>>
  BY DEF Goto
<1>2. StoreTypeOK' /\ StoreHeights'
  BY <1>1, NowOK, SameStoreType, SameStoreHeights
<1>3. MemoryOK(mem')
  BY <1>1, NowOK
<1>4. FreshMemory' /\ overlay' \subseteq MempoolTx
  BY <1>1 DEF Inductive, FreshMemory, TypeOK, storeVars
<1> QED
  BY <1>1, <1>2, <1>3, <1>4, MainStepKeeps

\* ... to a place within the call that is in progress.
LEMMA MoveKeeps ==
  ASSUME Inductive, NEW next, Goto(next), ControlOK(ctl')
  PROVE  Inductive'
<1>1. ctl' = next
  BY DEF Goto
<1> QED
  BY <1>1, GotoKeeps

\* The memory of a process that has just started.
LEMMA NewMemoryOK ==
  ASSUME NEW p \in Nat
  PROVE  /\ NewMemory \in Memory
         /\ [NewMemory EXCEPT !.prune = p] = [height |-> 0, hash |-> ZeroHash, start |-> 0, prune |-> p]
         /\ MemoryOK([NewMemory EXCEPT !.prune = p])
         /\ MemoryOK(NewMemory)
BY TreeAssumption DEF NewMemory, Memory, MemoryOK

\* A step that ends with an error.
LEMMA AbortKeeps ==
  ASSUME Inductive, NEW next, Abort(next), faults' \in 0 .. MaxFaults,
         ControlOK(next)
  PROVE  Inductive'
<1>1. /\ ctl' = next
      /\ UNCHANGED <<storeVars, core, coreKeeps, zmq, gap, crashes>>
      /\ mem' = mem \/ mem' = NewMemory
      /\ overlay' = overlay \/ overlay' = {}
      /\ pruneJob' = pruneJob \/ pruneJob' = FALSE
  BY DEF Abort, coreVars, feedVars
<1>2. StoreTypeOK' /\ StoreHeights' /\ checkpoint' = checkpoint
  BY <1>1, NowOK, SameStoreType, SameStoreHeights DEF storeVars
<1>3. MemoryOK(mem')
  BY <1>1, NowOK, NewMemoryOK
<1>4. TypeOK'
  BY <1>1, <1>2, <1>3 DEF Inductive, TypeOK, MemoryOK, ControlOK
<1>5. MemoryTrue' /\ BlockInHand' /\ ForkTrue'
  BY <1>1, <1>3 DEF MemoryTrue, BlockInHand, ForkTrue, MemoryOK, ControlOK
<1>6. FreshMemory'
  BY <1>1, <1>2 DEF Inductive, FreshMemory, NewMemory, TypeOK
<1>7. NeverGenesis'
  BY <1>1 DEF Inductive, NeverGenesis
<1> QED
  BY <1>2, <1>4, <1>5, <1>6, <1>7 DEF Inductive

\* ... without an RPC fault.
LEMMA FailKeeps ==
  ASSUME Inductive, NEW next, Fail(next), ControlOK(next)
  PROVE  Inductive'
<1>1. Abort(next) /\ faults' \in 0 .. MaxFaults
  BY DEF Fail, Inductive, TypeOK
<1> QED
  BY <1>1, AbortKeeps

\* The places of the main goroutine.
LEMMA StepNames ==
  /\ {"down", "setstart", "idle", "halted", "process", "check", "fork"} \subseteq Steps
  /\ {"rollback", "tip", "verify", "match", "gaps", "count", "catchup"} \subseteq Steps
BY DEF Steps

\* No fork point is a value of the right kind.
LEMMA NoForkType == NoFork \in [height : Int, hash : Block \cup {NoHash}]
BY DEF NoFork

\* Where no call is in progress there is no block in hand and no fork.
LEMMA AtRestOK ==
  ASSUME NEW step \in Steps \ {"process", "rollback"}, NEW job \in {"startup", "live"}
  PROVE  /\ ControlOK(AtRest(step, job))
         /\ AtRest(step, job).at = step
         /\ AtRest(step, job).caller = "tip"
         /\ AtRest(step, job).job = job
BY DEF AtRest, ControlOK, Control, NoFork

\* The control states the returns of CatchUpTo, CatchUpToTip and
\* CheckAndHandle lead to.
LEMMA ReturnsOK ==
  ASSUME Inductive
  PROVE  /\ ControlOK(Stop)
         /\ ControlOK(TipDone)
         /\ ControlOK(TipFailed)
         /\ ControlOK(GoTip)
         /\ ControlOK(CatchUpDone)
         /\ ControlOK(CatchUpFailed)
         /\ ControlOK(CheckFailed)
<1>1. /\ ctl.job \in {"startup", "live"}
      /\ ctl.after \in {"init", "process", "catchup"}
      /\ ctl.caller \in {"process", "tip"}
      /\ ctl.caller = "process" => ctl.blk \in Block \ {Genesis}
  BY DEF Inductive, TypeOK, Control, BlockInHand
<1>2. ControlOK(Stop)
  BY AtRestOK DEF Stop, Steps
<1>3. /\ ControlOK(TipDone)
      /\ ControlOK(AtRest("idle", "live"))
  BY AtRestOK DEF TipDone, Steps
<1>4. ControlOK(GoTip)
  BY <1>1, AtRestOK DEF GoTip, Steps
<1>5. ControlOK(TipFailed)
  BY <1>2, <1>3 DEF TipFailed
<1>6. ControlOK(CatchUpDone)
  <2>1. CASE ctl.caller = "process"
    <3>1. CatchUpDone = [at |-> "process", job |-> ctl.job, after |-> "init", caller |-> "tip",
                         blk |-> ctl.blk, target |-> 0, cur |-> 0, fork |-> NoFork]
      BY <2>1 DEF CatchUpDone, AtRest
    <3> QED
      BY <1>1, <2>1, <3>1 DEF ControlOK, Control, Steps, NoFork
  <2>2. CASE ctl.caller # "process"
    BY <1>3, <2>2 DEF CatchUpDone
  <2> QED
    BY <2>1, <2>2
<1>7. ControlOK(CatchUpFailed)
  BY <1>3, <1>5 DEF CatchUpFailed
<1>8. ControlOK(CheckFailed)
  BY <1>1, <1>2, <1>4, <1>5 DEF CheckFailed
<1> QED
  BY <1>2, <1>3, <1>4, <1>5, <1>6, <1>7, <1>8

\* CheckAndHandle returns a height and its block to whoever called it.
LEMMA CheckReturnsKeeps ==
  ASSUME Inductive, NEW h \in Int, NEW b \in Block \cup {NoHash}, NEW cp \in Checkpoint,
         CheckReturns(h, b, cp), UNCHANGED Elsewhere,
         ctl.at \in {"check", "rollback"},
         StoreTypeOK', StoreHeights', checkpoint' = cp,
         b \in Block => Height[b] = h,
         b = NoHash => mem.hash = ZeroHash,
         cp.hash = NoHash => b = NoHash,
         overlay' \subseteq MempoolTx
  PROVE  Inductive'
<1>1. /\ mem \in Memory
      /\ cp.hash \in Block => Height[cp.hash] = cp.height
      /\ cp.height \in Int /\ cp.start \in Int /\ cp.hash \in Block \cup {NoHash, ZeroHash}
      /\ ctl.job \in {"startup", "live"} /\ ctl.target \in Int
  BY DEF Inductive, TypeOK, StoreHeights, Checkpoint, Control
<1>2. CASE ctl.after = "init"
  <2>1. /\ LoadState(cp)
        /\ ctl' = IF IsFresh(cp)
                  THEN [AtRest("setstart", ctl.job) EXCEPT !.target = ctl.target]
                  ELSE GoTip
    BY <1>2 DEF CheckReturns
  <2>2. MemoryOK(mem') /\ FreshMemory'
    BY <1>1, <2>1, TreeAssumption DEF LoadState, Memory, MemoryOK, FreshMemory
  <2>3. ControlOK([AtRest("setstart", ctl.job) EXCEPT !.target = ctl.target])
    BY <1>1 DEF AtRest, ControlOK, Control, NoFork, Steps
  <2>4. ControlOK(ctl')
    BY <2>1, <2>3, ReturnsOK
  <2> QED
    BY <2>2, <2>4, MainStepKeeps
<1>3. CASE ctl.after # "init"
  <2>1. /\ mem' = [mem EXCEPT !.height = h, !.hash = IF b = NoHash THEN @ ELSE b]
        /\ ctl' = IF ctl.after = "process"
                  THEN GoTip
                  ELSE [ctl EXCEPT !.at = "catchup", !.after = "init",
                                   !.cur = 0, !.fork = NoFork]
    BY <1>3 DEF CheckReturns, AdoptResult
  <2>2. MemoryOK(mem') /\ FreshMemory'
    BY <1>1, <2>1, TreeAssumption DEF Memory, MemoryOK, FreshMemory
  <2>3. CASE ctl.after = "process"
    <3>1. ControlOK(ctl')
      BY <2>1, <2>3, ReturnsOK
    <3> QED
      BY <2>2, <3>1, MainStepKeeps
  <2>4. CASE ctl.after # "process"
    <3>1. /\ ctl' = [ctl EXCEPT !.at = "catchup", !.after = "init", !.cur = 0, !.fork = NoFork]
          /\ ControlOK(ctl)
      BY <2>1, <2>4, NowOK
    <3>2. ctl' \in Control
      <4>1. ctl' = [at |-> "catchup", job |-> ctl.job, after |-> "init",
                    caller |-> ctl.caller, blk |-> ctl.blk, target |-> ctl.target,
                    cur |-> 0, fork |-> NoFork]
        BY <3>1 DEF ControlOK, Control
      <4>2. /\ ctl.job \in {"startup", "live"} /\ ctl.caller \in {"process", "tip"}
            /\ ctl.blk \in Block \cup {NoHash} /\ ctl.target \in Int
        BY <3>1 DEF ControlOK, Control
      <4> QED
        BY <4>1, <4>2, NoForkType, StepNames DEF Control
    <3>3. ctl'.at = "catchup" /\ ctl'.caller = ctl.caller /\ ctl'.blk = ctl.blk
      BY <3>1 DEF ControlOK, Control
    <3>4. ControlOK(ctl')
      BY <3>1, <3>2, <3>3 DEF ControlOK
    <3> QED
      BY <2>2, <3>4, MainStepKeeps
  <2> QED
    BY <2>3, <2>4
<1> QED
  BY <1>2, <1>3

-----------------------------------------------------------------------------
(***************************************************************************)
(* The reorg handler.                                                      *)
(***************************************************************************)

\* CheckAndHandle up to the comparison with Core.
LEMMA CheckKeeps ==
  ASSUME Inductive, CheckFresh \/ CheckUnknown \/ CheckMatch \/ CheckMismatch
  PROVE  Inductive'
<1>1. /\ checkpoint \in Checkpoint /\ checkpoint.height \in Int
      /\ overlay \subseteq MempoolTx
  BY DEF Inductive, TypeOK, StoreTypeOK, Checkpoint
<1>2. ASSUME UNCHANGED storeVars
      PROVE  StoreTypeOK' /\ StoreHeights' /\ checkpoint' = checkpoint
  BY <1>2, NowOK, SameStoreType, SameStoreHeights DEF storeVars
<1>3. CASE CheckFresh
  <2>1. /\ ctl.at = "check" /\ checkpoint.hash = NoHash
        /\ CheckReturns(0, NoHash, checkpoint)
        /\ UNCHANGED <<storeVars, overlay, Elsewhere>>
    BY <1>3 DEF CheckFresh, Fresh, IsFresh
  <2>2. mem.hash = ZeroHash
    BY <2>1 DEF Inductive, FreshMemory
  <2> QED
    BY <1>1, <1>2, <2>1, <2>2, CheckReturnsKeeps, TreeAssumption
<1>4. CASE CheckUnknown
  BY <1>4, FailKeeps, ReturnsOK DEF CheckUnknown
<1>5. CASE CheckMatch
  <2>1. /\ ctl.at = "check" /\ OnCore(checkpoint.height)
        /\ CoreHash(checkpoint.height) = checkpoint.hash
        /\ CheckReturns(checkpoint.height, checkpoint.hash, checkpoint)
        /\ UNCHANGED <<storeVars, overlay, Elsewhere>>
    BY <1>5 DEF CheckMatch
  <2>2. checkpoint.hash \in Block /\ Height[checkpoint.hash] = checkpoint.height
    BY <1>1, <2>1, NowOK, CoreHashTrue
  <2> QED
    BY <1>1, <1>2, <2>1, <2>2, CheckReturnsKeeps, TreeAssumption
<1>6. CASE CheckMismatch
  <2>1. /\ Goto([ctl EXCEPT !.at = "fork", !.cur = checkpoint.height - 1])
        /\ ctl.at = "check" /\ ControlOK(ctl)
    BY <1>6, NowOK DEF CheckMismatch
  <2>2. ctl' \in Control
    <3> DEFINE n == checkpoint.height - 1
    <3>1. n \in Int /\ ctl' = [ctl EXCEPT !.at = "fork", !.cur = n]
      BY <1>1, <2>1 DEF Goto
    <3> HIDE DEF n
    <3> QED
      BY <2>1, <3>1, StepNames DEF ControlOK, Control
  <2>3. ctl'.at = "fork" /\ ctl'.caller = ctl.caller /\ ctl'.blk = ctl.blk
    BY <2>1 DEF Goto, ControlOK, Control
  <2>4. ControlOK(ctl')
    BY <2>1, <2>2, <2>3 DEF ControlOK
  <2> QED
    BY <2>1, <2>4, MoveKeeps
<1> QED
  BY <1>3, <1>4, <1>5, <1>6

\* The end of findForkPoint: either the reorg is refused or the rollback has
\* a block of Core's to go down to.
LEMMA ForkFoundKeeps ==
  ASSUME Inductive, ctl.at = "fork", NEW h \in Int, NEW b \in Block, Height[b] = h,
         ForkFound(h, b)
  PROVE  Inductive'
<1> DEFINE c == [ctl EXCEPT !.at = "rollback", !.cur = checkpoint.height,
                            !.fork = [height |-> h, hash |-> b]]
<1>1. Fail(CheckFailed) \/ Goto(c)
  BY DEF ForkFound
<1>2. ControlOK(c)
  <2>1. ControlOK(ctl) /\ checkpoint.height \in Int
    BY NowOK DEF StoreTypeOK, Checkpoint
  <2> QED
    BY <2>1 DEF ControlOK, Control, Steps
<1> HIDE DEF c
<1> QED
  BY <1>1, <1>2, FailKeeps, ReturnsOK, GotoKeeps

\* findForkPoint.
LEMMA ForkKeeps ==
  ASSUME Inductive, ForkStep \/ ForkBoundary
  PROVE  Inductive'
<1>1. /\ ctl.at = "fork" /\ ctl.cur \in Int /\ ControlOK(ctl) /\ core \in Block
      /\ checkpoint.start \in Int
  BY NowOK DEF ForkStep, ForkBoundary, InSearch, Inductive, TypeOK, StoreTypeOK, Checkpoint, Control
<1>2. CASE ForkStep
  <2> DEFINE b == OurBlockHash(ctl.cur)
             c == [ctl EXCEPT !.cur = @ - 1]
  <2>1. \/ Goto(c)
        \/ Fail(CheckFailed)
        \/ OnCore(ctl.cur) /\ CoreHash(ctl.cur) = b /\ ForkFound(ctl.cur, b)
    BY <1>2 DEF ForkStep
  <2>2. ASSUME Goto(c) PROVE ControlOK(ctl')
    <3>1. ctl' \in Control
      BY <1>1, <2>2 DEF Goto, ControlOK, Control
    <3>2. ctl'.at = ctl.at /\ ctl'.caller = ctl.caller /\ ctl'.blk = ctl.blk
      BY <1>1, <2>2 DEF Goto, ControlOK, Control
    <3> QED
      BY <1>1, <3>1, <3>2 DEF ControlOK
  <2>3. OnCore(ctl.cur) /\ CoreHash(ctl.cur) = b => b \in Block /\ Height[b] = ctl.cur
    BY <1>1, CoreHashTrue
  <2> HIDE DEF b, c
  <2> QED
    BY <1>1, <2>1, <2>2, <2>3, MoveKeeps, FailKeeps, ReturnsOK, ForkFoundKeeps
<1>3. CASE ForkBoundary
  <2> DEFINE h == Boundary - 1
             b == CoreHash(h)
  <2>1. Fail(CheckFailed) \/ (OnCore(h) /\ ForkFound(h, b))
    BY <1>3 DEF ForkBoundary
  <2>2. h \in Int
    BY <1>1 DEF Boundary
  <2>3. OnCore(h) => b \in Block /\ Height[b] = h
    BY <1>1, <2>2, CoreHashTrue
  <2> HIDE DEF h, b
  <2> QED
    BY <1>1, <2>1, <2>2, <2>3, FailKeeps, ReturnsOK, ForkFoundKeeps
<1> QED
  BY <1>2, <1>3

\* rollbackToHeight.
LEMMA RollbackKeeps ==
  ASSUME Inductive, RollbackStep \/ RollbackStuck \/ RollbackDone
  PROVE  Inductive'
<1>1. /\ ctl.at = "rollback" /\ ControlOK(ctl) /\ MemoryOK(mem)
      /\ ctl.cur \in Int /\ ctl.fork.height \in Int /\ core \in Block
      /\ StoreTypeOK /\ StoreHeights
      /\ ctl.fork.hash \in Block /\ Height[ctl.fork.hash] = ctl.fork.height
      /\ overlay \subseteq MempoolTx
  BY NowOK DEF RollbackStep, RollbackStuck, RollbackDone, Inductive, TypeOK, Control, ForkTrue
<1>2. CASE RollbackStep
  <2>1. /\ RollbackBlock(ctl.cur, OurBlockHash(ctl.cur))
        /\ ctl' = [ctl EXCEPT !.cur = @ - 1]
        /\ UNCHANGED <<mem, overlay, Elsewhere>>
    BY <1>2 DEF RollbackStep
  <2>2. StoreTypeOK' /\ StoreHeights'
    BY <1>1, <2>1, RollbackBlockType, RollbackBlockHeights
  <2>3. FreshMemory'
    BY <2>1 DEF Inductive, FreshMemory, RollbackBlock
  <2>4. ControlOK(ctl')
    BY <1>1, <2>1 DEF ControlOK, Control
  <2> QED
    BY <1>1, <2>1, <2>2, <2>3, <2>4, MainStepKeeps
<1>3. CASE RollbackStuck
  BY <1>3, FailKeeps, ReturnsOK DEF RollbackStuck
<1>4. CASE RollbackDone
  <2> DEFINE f    == ctl.fork.height
             ours == OurBlockHash(f)
             cp   == [height |-> f, hash |-> IF ours # NoHash THEN ours ELSE CoreHash(f),
                      start |-> 0]
  <2>1. \/ Fail(CheckFailed)
        \/ /\ ours # NoHash \/ OnCore(f)
           /\ SaveCheckpoint(cp)
           /\ CheckReturns(f, ctl.fork.hash, cp)
           /\ overlay' = {}
           /\ UNCHANGED Elsewhere
    BY <1>4 DEF RollbackDone
  <2>2. CASE Fail(CheckFailed)
    BY <2>2, FailKeeps, ReturnsOK
  <2>3. CASE /\ ours # NoHash \/ OnCore(f)
             /\ SaveCheckpoint(cp)
             /\ CheckReturns(f, ctl.fork.hash, cp)
             /\ overlay' = {}
             /\ UNCHANGED Elsewhere
    <3>1. /\ ours \in Block \cup {NoHash, ZeroHash}
          /\ ours \in Block => Height[ours] = f
      BY <1>1, OurBlockHashTrue
    <3>2. OnCore(f) => CoreHash(f) \in Block /\ Height[CoreHash(f)] = f
      BY <1>1, CoreHashTrue
    <3>3. /\ cp.hash \in Block \cup {ZeroHash}
          /\ cp.hash \in Block => Height[cp.hash] = f
          /\ cp.height = f
          /\ cp \in Checkpoint
      BY <1>1, <2>3, <3>1, <3>2 DEF Checkpoint
    <3> HIDE DEF cp
    <3>4. StoreTypeOK' /\ StoreHeights' /\ checkpoint' = cp
      BY <1>1, <2>3, <3>3, SaveCheckpointType, SaveCheckpointHeights DEF SaveCheckpoint
    <3> QED
      BY <1>1, <2>3, <3>3, <3>4, CheckReturnsKeeps, TreeAssumption
  <2> QED
    BY <2>1, <2>2, <2>3
<1> QED
  BY <1>2, <1>3, <1>4

-----------------------------------------------------------------------------
(***************************************************************************)
(* The block path.                                                         *)
(***************************************************************************)

\* Indexing a block at its own height, with or without making it the tip.
LEMMA IndexKeeps ==
  ASSUME Inductive, NEW b \in Block, NEW h \in Int, Height[b] = h,
         Index(b, h), UNCHANGED Elsewhere,
         ctl' = ctl \/ ControlOK(ctl'),
         mem' = mem \/ Advance(h, b)
  PROVE  Inductive'
<1>1. StoreTypeOK' /\ StoreHeights' /\ checkpoint'.hash = b
  BY NowOK, IndexBlockType, IndexBlockHeights DEF Index, IndexBlock
<1>2. MemoryOK(mem')
  BY NowOK DEF Advance, MemoryOK, Memory
<1>3. overlay' \subseteq MempoolTx
  BY DEF Index, Inductive, TypeOK
<1>4. FreshMemory'
  BY <1>1, TreeAssumption DEF FreshMemory
<1>5. ControlOK(ctl')
  BY NowOK
<1> QED
  BY <1>1, <1>2, <1>3, <1>4, <1>5, MainStepKeeps

\* ProcessBlock.
LEMMA ProcessKeeps ==
  ASSUME Inductive, ProcessConnects \/ ProcessReorg \/ ProcessGap
  PROVE  Inductive'
<1>1. /\ ctl.at = "process" /\ ctl \in Control /\ ctl.blk \in Block \ {Genesis}
      /\ mem.height \in Int /\ ctl.job \in {"startup", "live"}
  BY DEF ProcessConnects, ProcessReorg, ProcessGap, Inductive, TypeOK, BlockInHand, Control, Memory
<1>2. CASE ProcessConnects
  <2>1. /\ Prev[ctl.blk] = mem.hash
        /\ Index(ctl.blk, mem.height + 1)
        /\ Advance(mem.height + 1, ctl.blk)
        /\ ctl' = AtRest("idle", "live")
        /\ UNCHANGED Elsewhere
    BY <1>2 DEF ProcessConnects, Connects
  <2>2. Height[ctl.blk] = mem.height + 1
    <3>1. Prev[ctl.blk] \in Block /\ Height[ctl.blk] = Height[Prev[ctl.blk]] + 1
      BY <1>1, PrevOfLater
    <3> QED
      BY <2>1, <3>1 DEF Inductive, MemoryTrue
  <2>3. ControlOK(ctl')
    BY <2>1, AtRestOK, StepNames
  <2> DEFINE n == mem.height + 1
  <2>4. n \in Int
    BY <1>1
  <2> HIDE DEF n
  <2> QED
    BY <1>1, <2>1, <2>2, <2>3, <2>4, IndexKeeps DEF n
<1>3. CASE ProcessReorg
  <2>1. Goto([AtRest("check", ctl.job) EXCEPT !.after = "process"])
    BY <1>3 DEF ProcessReorg
  <2>2. ctl' = [at |-> "check", job |-> ctl.job, after |-> "process", caller |-> "tip",
                blk |-> NoHash, target |-> 0, cur |-> 0, fork |-> NoFork]
    BY <2>1 DEF Goto, AtRest
  <2>3. ctl' \in Control
    BY <1>1, <2>2, NoForkType, StepNames DEF Control
  <2>4. ControlOK(ctl')
    BY <2>2, <2>3 DEF ControlOK
  <2> QED
    BY <2>1, <2>4, MoveKeeps
<1>4. CASE ProcessGap
  <2> DEFINE t == Height[ctl.blk] - 1
  <2>1. Goto([ctl EXCEPT !.at = "catchup", !.caller = "process", !.target = t])
    BY <1>4 DEF ProcessGap
  <2>2. t \in Int
    BY <1>1, TreeAssumption
  <2> HIDE DEF t
  <2>3. ctl' \in Control
    BY <1>1, <2>1, <2>2, StepNames DEF Goto, Control
  <2>4. ctl'.at = "catchup" /\ ctl'.blk = ctl.blk
    BY <1>1, <2>1 DEF Goto, Control
  <2>5. ControlOK(ctl')
    BY <1>1, <2>3, <2>4 DEF ControlOK
  <2> QED
    BY <2>1, <2>5, MoveKeeps
<1> QED
  BY <1>2, <1>3, <1>4

\* CatchUpTo.
LEMMA CatchUpKeeps ==
  ASSUME Inductive, CatchUpEnd \/ CatchUpStep
  PROVE  Inductive'
<1>1. /\ ctl.at = "catchup" /\ ctl \in Control /\ ControlOK(ctl)
      /\ mem.height \in Int /\ core \in Block
  BY NowOK DEF CatchUpEnd, CatchUpStep, Inductive, TypeOK, Memory
<1>2. CASE CatchUpEnd
  BY <1>2, GotoKeeps, ReturnsOK DEF CatchUpEnd
<1>3. CASE CatchUpStep
  <2> DEFINE h == mem.height + 1
             b == CoreHash(h)
             c == [ctl EXCEPT !.at = "check", !.after = "catchup"]
  <2>1. \/ Fail(CatchUpFailed)
        \/ Goto(c)
        \/ /\ OnCore(h)
           /\ Index(b, h)
           /\ Advance(h, b)
           /\ UNCHANGED <<ctl, Elsewhere>>
    BY <1>3 DEF CatchUpStep, Served
  <2>2. h \in Int
    BY <1>1
  <2>3. OnCore(h) => b \in Block /\ Height[b] = h
    BY <1>1, <2>2, CoreHashTrue
  <2>4. ASSUME Goto(c) PROVE ControlOK(ctl')
    <3>1. ctl' \in Control
      BY <1>1, <2>4, StepNames DEF Goto, Control
    <3>2. ctl'.at = "check" /\ ctl'.caller = ctl.caller /\ ctl'.blk = ctl.blk
      BY <1>1, <2>4 DEF Goto, Control
    <3> QED
      BY <1>1, <3>1, <3>2 DEF ControlOK
  <2> HIDE DEF h, b, c
  <2>5. CASE Fail(CatchUpFailed)
    BY <2>5, FailKeeps, ReturnsOK
  <2>6. CASE Goto(c)
    BY <2>4, <2>6, MoveKeeps
  <2>7. CASE /\ OnCore(h)
             /\ Index(b, h)
             /\ Advance(h, b)
             /\ UNCHANGED <<ctl, Elsewhere>>
    BY <1>1, <2>2, <2>3, <2>7, IndexKeeps
  <2> QED
    BY <2>1, <2>5, <2>6, <2>7
<1> QED
  BY <1>2, <1>3

-----------------------------------------------------------------------------
(***************************************************************************)
(* CatchUpToTip.                                                           *)
(***************************************************************************)

\* A place of CatchUpToTip where only the step, the target and the loop
\* height change.
LEMMA TipMoveOK ==
  ASSUME Inductive, ctl.at \in {"tip", "verify", "match", "gaps", "count"},
         NEW s \in Steps \ {"process", "rollback"}, NEW t \in Int, NEW n \in Int,
         \/ ctl' = [ctl EXCEPT !.at = s]
         \/ ctl' = [ctl EXCEPT !.at = s, !.target = t]
         \/ ctl' = [ctl EXCEPT !.at = s, !.cur = n]
         \/ ctl' = [ctl EXCEPT !.cur = n]
         \/ ctl' = [ctl EXCEPT !.at = s, !.caller = "tip", !.target = t]
  PROVE  ControlOK(ctl')
<1>1. ctl \in Control /\ (ctl.caller = "process" => ctl.blk \in Block \ {Genesis})
  BY DEF Inductive, TypeOK, BlockInHand
<1>2. ctl' \in Control
  BY <1>1 DEF Control
<1>3. /\ ctl'.at = s \/ ctl'.at = ctl.at
      /\ ctl'.caller = ctl.caller \/ ctl'.caller = "tip"
      /\ ctl'.blk = ctl.blk
  BY <1>1 DEF Control
<1> QED
  BY <1>1, <1>2, <1>3 DEF ControlOK

\* The tip and the checkpoint move to a block of Core's, or to none.
LEMMA MoveTipKeeps ==
  ASSUME Inductive, NEW h \in Int, NEW b \in Block \cup {ZeroHash}, NEW s \in Int,
         b \in Block => Height[b] = h, MoveTip(h, b, s)
  PROVE  Inductive'
<1> DEFINE cp == [height |-> h, hash |-> b, start |-> s]
<1>1. /\ mem' = [mem EXCEPT !.height = h, !.hash = b]
      /\ SaveCheckpoint(cp)
      /\ ctl' = AtRest("count", ctl.job)
      /\ UNCHANGED <<overlay, Elsewhere>>
  BY DEF MoveTip
<1>2. cp \in Checkpoint /\ cp.hash = b /\ cp.height = h
  BY DEF Checkpoint
<1> HIDE DEF cp
<1>3. StoreTypeOK' /\ StoreHeights' /\ checkpoint' = cp
  BY <1>1, <1>2, NowOK, SaveCheckpointType, SaveCheckpointHeights DEF SaveCheckpoint
<1>4. MemoryOK(mem')
  BY <1>1, NowOK DEF MemoryOK, Memory
<1>5. FreshMemory' /\ overlay' \subseteq MempoolTx
  BY <1>1, <1>2, <1>3, TreeAssumption DEF FreshMemory, Inductive, TypeOK
<1>6. ControlOK(ctl')
  <2>1. ctl.job \in {"startup", "live"}
    BY DEF Inductive, TypeOK, Control
  <2> QED
    BY <1>1, <2>1, AtRestOK, StepNames
<1> QED
  BY <1>1, <1>3, <1>4, <1>5, <1>6, MainStepKeeps

\* CatchUpToTip up to the verification of the tip.
LEMMA TipKeeps ==
  ASSUME Inductive, TipPrunedGap \/ TipVerify \/ VerifyTip \/ RepairDone \/ TipCount
  PROVE  Inductive'
<1>1. /\ ctl.job \in {"startup", "live"} /\ mem.height \in Int /\ mem.prune \in Nat
      /\ mem.start \in Int /\ core \in Block
  BY DEF Inductive, TypeOK, Control, Memory
<1>2. CASE TipPrunedGap
  <2>1. Goto(AtRest("halted", ctl.job))
    BY <1>2 DEF TipPrunedGap, PrunedGap
  <2>2. ControlOK(AtRest("halted", ctl.job))
    BY <1>1, AtRestOK, StepNames
  <2> QED
    BY <2>1, <2>2, GotoKeeps
<1>3. CASE TipVerify
  <2> DEFINE t == EffectiveStart
  <2>1. /\ ctl.at = "tip"
        /\ \/ Goto([ctl EXCEPT !.at = "count"])
           \/ Goto([ctl EXCEPT !.at = "verify", !.target = t])
    BY <1>3 DEF TipVerify
  <2>2. t \in Int
    BY <1>1, FirstIndexedType DEF EffectiveStart
  <2> HIDE DEF t
  <2>3. CASE Goto([ctl EXCEPT !.at = "count"])
    <3>1. ctl' = [ctl EXCEPT !.at = "count"] /\ "count" \in Steps \ {"process", "rollback"}
      BY <2>3, StepNames DEF Goto
    <3>2. ControlOK(ctl')
      BY ONLY Inductive, <2>1, <2>2, <3>1, TipMoveOK
    <3> QED
      BY <2>3, <3>2, MoveKeeps
  <2>4. CASE Goto([ctl EXCEPT !.at = "verify", !.target = t])
    <3>1. /\ ctl' = [ctl EXCEPT !.at = "verify", !.target = t]
          /\ "verify" \in Steps \ {"process", "rollback"}
      BY <2>4, StepNames DEF Goto
    <3>2. ControlOK(ctl')
      BY ONLY Inductive, <2>1, <2>2, <3>1, TipMoveOK
    <3> QED
      BY <2>4, <3>2, MoveKeeps
  <2> QED
    BY <2>1, <2>3, <2>4
<1>4. CASE VerifyTip
  <2> DEFINE n == mem.height
  <2>1. /\ ctl.at = "verify"
        /\ \/ Fail(TipFailed)
           \/ Goto([ctl EXCEPT !.at = "gaps"])
           \/ Goto([ctl EXCEPT !.at = "match", !.cur = n])
    BY <1>4 DEF VerifyTip
  <2>2. n \in Int
    BY <1>1
  <2> HIDE DEF n
  <2>3. CASE Fail(TipFailed)
    BY <2>3, FailKeeps, ReturnsOK
  <2>4. CASE Goto([ctl EXCEPT !.at = "gaps"])
    <3>1. ctl' = [ctl EXCEPT !.at = "gaps"] /\ "gaps" \in Steps \ {"process", "rollback"}
      BY <2>4, StepNames DEF Goto
    <3>2. ControlOK(ctl')
      BY ONLY Inductive, <2>1, <2>2, <3>1, TipMoveOK
    <3> QED
      BY <2>4, <3>2, MoveKeeps
  <2>5. CASE Goto([ctl EXCEPT !.at = "match", !.cur = n])
    <3>1. /\ ctl' = [ctl EXCEPT !.at = "match", !.cur = n]
          /\ "match" \in Steps \ {"process", "rollback"}
      BY <2>5, StepNames DEF Goto
    <3>2. ControlOK(ctl')
      BY ONLY Inductive, <2>1, <2>2, <3>1, TipMoveOK
    <3> QED
      BY <2>5, <3>2, MoveKeeps
  <2> QED
    BY <2>1, <2>3, <2>4, <2>5
<1>5. CASE RepairDone
  <2>1. Goto(AtRest("count", ctl.job))
    BY <1>5 DEF RepairDone
  <2>2. ControlOK(AtRest("count", ctl.job))
    BY <1>1, AtRestOK, StepNames
  <2> QED
    BY <2>1, <2>2, GotoKeeps
<1>6. CASE TipCount
  <2> DEFINE t == CoreHeight
  <2>1. /\ ctl.at = "count"
        /\ \/ Goto(TipDone)
           \/ Goto([ctl EXCEPT !.at = "catchup", !.caller = "tip", !.target = t])
    BY <1>6 DEF TipCount
  <2>2. t \in Int
    BY <1>1, TreeAssumption DEF CoreHeight
  <2> HIDE DEF t
  <2>3. CASE Goto(TipDone)
    BY <2>3, GotoKeeps, ReturnsOK
  <2>4. CASE Goto([ctl EXCEPT !.at = "catchup", !.caller = "tip", !.target = t])
    <3>1. /\ ctl' = [ctl EXCEPT !.at = "catchup", !.caller = "tip", !.target = t]
          /\ "catchup" \in Steps \ {"process", "rollback"}
      BY <2>4, StepNames DEF Goto
    <3>2. ControlOK(ctl')
      BY ONLY Inductive, <2>1, <2>2, <3>1, TipMoveOK
    <3> QED
      BY <2>4, <3>2, MoveKeeps
  <2> QED
    BY <2>1, <2>3, <2>4
<1> QED
  BY <1>2, <1>3, <1>4, <1>5, <1>6

\* findLastMatchingHeight and what follows it.
LEMMA MatchKeeps ==
  ASSUME Inductive, MatchStep \/ MatchNone
  PROVE  Inductive'
<1>1. /\ ctl.at = "match" /\ ctl.cur \in Int /\ ctl.target \in Int
      /\ mem.start \in Int /\ core \in Block /\ StoreTypeOK /\ StoreHeights
  BY DEF MatchStep, MatchNone, Inductive, TypeOK, Control, Memory
<1>2. CASE MatchStep
  <2> DEFINE n == ctl.cur - 1
  <2>1. \/ ctl.cur \in DOMAIN header /\ MoveTip(ctl.cur, header[ctl.cur], mem.start)
        \/ Goto([ctl EXCEPT !.cur = n])
    BY <1>2 DEF MatchStep
  <2>2. n \in Int
    BY <1>1
  <2> HIDE DEF n
  <2>3. CASE ctl.cur \in DOMAIN header /\ MoveTip(ctl.cur, header[ctl.cur], mem.start)
    <3>1. header[ctl.cur] \in Block /\ Height[header[ctl.cur]] = ctl.cur
      BY <1>1, <2>3 DEF StoreTypeOK, StoreHeights
    <3> QED
      BY <1>1, <2>3, <3>1, MoveTipKeeps
  <2>4. CASE Goto([ctl EXCEPT !.cur = n])
    <3>1. ctl' = [ctl EXCEPT !.cur = n] /\ "match" \in Steps \ {"process", "rollback"}
      BY <2>4, StepNames DEF Goto
    <3>2. ctl.at \in {"tip", "verify", "match", "gaps", "count"}
      BY <1>1
    <3>3. ControlOK(ctl')
      BY ONLY Inductive, <2>2, <3>1, <3>2, TipMoveOK
    <3> QED
      BY <2>4, <3>3, MoveKeeps
  <2> QED
    BY <2>1, <2>3, <2>4
<1>3. CASE MatchNone
  <2> DEFINE n == ctl.target - 1
  <2>1. \/ MoveTip(0, ZeroHash, ctl.target)
        \/ OnCore(n) /\ MoveTip(n, CoreHash(n), ctl.target)
        \/ Fail(TipFailed)
    BY <1>3 DEF MatchNone
  <2>2. n \in Int
    BY <1>1
  <2> HIDE DEF n
  <2>3. OnCore(n) => CoreHash(n) \in Block /\ Height[CoreHash(n)] = n
    BY <1>1, <2>2, CoreHashTrue
  <2>4. CASE MoveTip(0, ZeroHash, ctl.target)
    BY <1>1, <2>4, MoveTipKeeps, TreeAssumption
  <2>5. CASE OnCore(n) /\ MoveTip(n, CoreHash(n), ctl.target)
    BY <1>1, <2>2, <2>3, <2>5, MoveTipKeeps
  <2>6. CASE Fail(TipFailed)
    BY <2>6, FailKeeps, ReturnsOK
  <2> QED
    BY <2>1, <2>4, <2>5, <2>6
<1> QED
  BY <1>2, <1>3

\* repairGap.
LEMMA RepairKeeps ==
  ASSUME Inductive, RepairStep
  PROVE  Inductive'
<1>1. /\ ctl.at = "gaps" /\ Holes # {} /\ ctl.target \in Int /\ mem.height \in Int
      /\ core \in Block
  BY DEF RepairStep, Inductive, TypeOK, Control, Memory
<1> DEFINE h == CHOOSE h \in Holes : \A k \in Holes : h <= k
<1>2. \/ Fail(TipFailed)
      \/ OnCore(h) /\ Index(CoreHash(h), h) /\ UNCHANGED <<ctl, mem, Elsewhere>>
  BY DEF RepairStep, Served
<1>3. h \in Holes
  BY <1>1, LowestHole
<1> HIDE DEF h
<1>4. h \in Int
  BY <1>1, <1>3 DEF Holes
<1>5. OnCore(h) => CoreHash(h) \in Block /\ Height[CoreHash(h)] = h
  BY <1>1, <1>4, CoreHashTrue
<1>6. CASE Fail(TipFailed)
  BY <1>6, FailKeeps, ReturnsOK
<1>7. CASE OnCore(h) /\ Index(CoreHash(h), h) /\ UNCHANGED <<ctl, mem, Elsewhere>>
  <2> DEFINE b == CoreHash(h)
  <2>1. b \in Block /\ Height[b] = h /\ Index(b, h)
    BY <1>5, <1>7
  <2> HIDE DEF b
  <2> QED
    BY <1>1, <1>4, <1>7, <2>1, IndexKeeps
<1> QED
  BY <1>2, <1>6, <1>7

-----------------------------------------------------------------------------
(***************************************************************************)
(* main, the Writer's prune jobs and the environment.                      *)
(***************************************************************************)

\* Startup.
LEMMA StartKeeps ==
  ASSUME Inductive, StartServer \/ SetStartHeight
  PROVE  Inductive'
<1>1. /\ ctl.target \in Int /\ core \in Block /\ coreKeeps \in Nat
      /\ mem \in Memory /\ StoreTypeOK /\ StoreHeights /\ overlay \subseteq MempoolTx
      /\ ctl.job \in {"startup", "live"}
  BY DEF Inductive, TypeOK, Control
<1>2. CASE StartServer
  <2>1. /\ ctl' = [AtRest("check", "startup") EXCEPT !.target = CoreHeight]
        /\ mem' = [NewMemory EXCEPT !.prune = coreKeeps]
        /\ UNCHANGED <<storeVars, overlay, Elsewhere>>
    BY <1>2 DEF StartServer
  <2>2. UNCHANGED <<core, coreKeeps, zmq, gap, pruneJob, crashes, faults>>
    BY <2>1 DEF Elsewhere, coreVars, feedVars
  <2>3. StoreTypeOK' /\ StoreHeights'
    BY <1>1, <2>1, SameStoreType, SameStoreHeights
  <2>4. /\ mem' = [height |-> 0, hash |-> ZeroHash, start |-> 0, prune |-> coreKeeps]
        /\ MemoryOK(mem')
    BY <1>1, <2>1, NewMemoryOK
  <2>5. ctl' = [at |-> "check", job |-> "startup", after |-> "init", caller |-> "tip",
                blk |-> NoHash, target |-> CoreHeight, cur |-> 0, fork |-> NoFork]
    BY <2>1 DEF AtRest
  <2>6. ctl' \in Control
    <3>1. CoreHeight \in Int
      BY <1>1, TreeAssumption DEF CoreHeight
    <3> QED
      BY <2>5, <3>1, NoForkType, StepNames DEF Control
  <2>7. BlockInHand' /\ ForkTrue'
    BY <2>5 DEF BlockInHand, ForkTrue
  <2>8. TypeOK'
    BY <1>1, <2>1, <2>2, <2>3, <2>4, <2>6 DEF Inductive, TypeOK, MemoryOK
  <2>9. MemoryTrue' /\ FreshMemory' /\ NeverGenesis'
    BY <1>1, <2>2, <2>4 DEF MemoryTrue, MemoryOK, FreshMemory, NeverGenesis, Inductive
  <2> QED
    BY <2>3, <2>7, <2>8, <2>9 DEF Inductive
<1>3. CASE SetStartHeight
  <2> DEFINE from == IF ConfigStart = -1 THEN ctl.target ELSE ConfigStart
             n    == from - 1
             b    == CoreHash(n)
             cp   == [height |-> n, hash |-> b, start |-> from]
  <2>1. \/ Goto(GoTip)
        \/ Fail(Stop)
        \/ /\ OnCore(n)
           /\ SaveCheckpoint(cp)
           /\ mem' = [mem EXCEPT !.height = n, !.hash = b, !.start = from]
           /\ ctl' = GoTip
           /\ UNCHANGED <<overlay, Elsewhere>>
    BY <1>3 DEF SetStartHeight
  <2>2. from \in Int
    BY <1>1, ChainAssumption
  <2>3. n \in Int
    BY <2>2
  <2> HIDE DEF from, n
  <2>4. OnCore(n) => b \in Block /\ Height[b] = n
    BY <1>1, <2>3, CoreHashTrue
  <2> HIDE DEF b
  <2>5. CASE Goto(GoTip)
    BY <2>5, GotoKeeps, ReturnsOK
  <2>6. CASE Fail(Stop)
    BY <2>6, FailKeeps, ReturnsOK
  <2>7. CASE /\ OnCore(n)
             /\ SaveCheckpoint(cp)
             /\ mem' = [mem EXCEPT !.height = n, !.hash = b, !.start = from]
             /\ ctl' = GoTip
             /\ UNCHANGED <<overlay, Elsewhere>>
    <3>1. cp \in Checkpoint /\ cp.hash = b /\ cp.height = n
      BY <2>2, <2>3, <2>4, <2>7 DEF Checkpoint
    <3> HIDE DEF cp
    <3>2. StoreTypeOK' /\ StoreHeights' /\ checkpoint' = cp
      BY <1>1, <2>4, <2>7, <3>1, SaveCheckpointType, SaveCheckpointHeights DEF SaveCheckpoint
    <3>3. MemoryOK(mem')
      BY <1>1, <2>2, <2>3, <2>4, <2>7 DEF MemoryOK, Memory
    <3>4. FreshMemory' /\ overlay' \subseteq MempoolTx
      BY <1>1, <2>4, <2>7, <3>1, <3>2, TreeAssumption DEF FreshMemory
    <3>5. ControlOK(ctl')
      BY <2>7, ReturnsOK
    <3> QED
      BY <2>7, <3>2, <3>3, <3>4, <3>5, MainStepKeeps
  <2> QED
    BY <2>1, <2>5, <2>6, <2>7
<1> QED
  BY <1>2, <1>3

\* A step that leaves the index, the memory and the control state alone.
LEMMA OutsideKeeps ==
  ASSUME Inductive, UNCHANGED <<storeVars, mem, ctl, crashes, faults>>,
         core' \in Block, coreKeeps' \in Nat,
         zmq' \in Seq(Block \ {Genesis}), gap' \in BOOLEAN,
         overlay' \subseteq MempoolTx, pruneJob' \in BOOLEAN
  PROVE  Inductive'
<1>1. StoreTypeOK' /\ StoreHeights' /\ checkpoint' = checkpoint
  BY NowOK, SameStoreType, SameStoreHeights DEF storeVars
<1>2. zmq' \in Seq(Block)
  OBVIOUS
<1>3. TypeOK'
  BY <1>1, <1>2 DEF Inductive, TypeOK
<1>4. MemoryTrue' /\ BlockInHand' /\ ForkTrue' /\ FreshMemory'
  BY <1>1 DEF Inductive, MemoryTrue, BlockInHand, ForkTrue, FreshMemory
<1>5. NeverGenesis'
  BY DEF NeverGenesis
<1> QED
  BY <1>1, <1>3, <1>4, <1>5 DEF Inductive

\* The main loop takes a block or a gap event.
LEMMA TakeKeeps ==
  ASSUME Inductive, TakeBlock \/ TakeGap \/ TakeTick
  PROVE  Inductive'
<1>1. /\ StoreTypeOK /\ StoreHeights /\ MemoryOK(mem) /\ zmq \in Seq(Block \ {Genesis})
      /\ ctl.at = "idle"
  BY NowOK DEF TakeBlock, TakeGap, TakeTick, Inductive, NeverGenesis
<1>2. CASE TakeTick
  <2>1. Goto(GoTip)
    BY <1>2 DEF TakeTick
  <2> QED
    BY <2>1, GotoKeeps, ReturnsOK
<1>3. ASSUME UNCHANGED <<storeVars, coreVars, mem, overlay, pruneJob, crashes, faults>>,
             zmq' \in Seq(Block \ {Genesis}), gap' \in BOOLEAN,
             ControlOK(ctl')
      PROVE  Inductive'
  <2>1. UNCHANGED <<core, coreKeeps, checkpoint>> /\ StoreTypeOK' /\ StoreHeights'
    BY <1>1, <1>3, SameStoreType, SameStoreHeights DEF coreVars, storeVars
  <2>2. zmq' \in Seq(Block)
    BY <1>3
  <2>3. TypeOK'
    BY <1>3, <2>1, <2>2 DEF Inductive, TypeOK, ControlOK
  <2>4. MemoryTrue' /\ FreshMemory' /\ NeverGenesis'
    BY <1>3, <2>1 DEF Inductive, MemoryTrue, FreshMemory, NeverGenesis
  <2>5. BlockInHand' /\ ForkTrue'
    BY <1>3 DEF BlockInHand, ForkTrue, ControlOK
  <2> QED
    BY <2>1, <2>3, <2>4, <2>5 DEF Inductive
<1>4. CASE TakeBlock
  <2>1. /\ zmq # <<>>
        /\ ctl' = [AtRest("process", "live") EXCEPT !.blk = Head(zmq)]
        /\ zmq' = Tail(zmq)
        /\ UNCHANGED <<storeVars, coreVars, gap, mem, overlay, pruneJob, crashes, faults>>
    BY <1>4 DEF TakeBlock
  <2>2. Head(zmq) \in Block \ {Genesis} /\ Tail(zmq) \in Seq(Block \ {Genesis})
    BY <1>1, <2>1
  <2>3. ctl' = [at |-> "process", job |-> "live", after |-> "init", caller |-> "tip",
                blk |-> Head(zmq), target |-> 0, cur |-> 0, fork |-> NoFork]
    BY <2>1 DEF AtRest
  <2>4. ctl' \in Control
    BY <2>2, <2>3, NoForkType, StepNames DEF Control
  <2>5. ControlOK(ctl')
    BY <2>2, <2>3, <2>4 DEF ControlOK
  <2>6. gap' \in BOOLEAN
    BY <2>1 DEF Inductive, TypeOK
  <2> QED
    BY <1>3, <2>1, <2>2, <2>5, <2>6
<1>5. CASE TakeGap
  <2>1. /\ ctl' = GoTip /\ gap' = FALSE
        /\ UNCHANGED <<storeVars, coreVars, zmq, mem, overlay, pruneJob, crashes, faults>>
    BY <1>5 DEF TakeGap
  <2> QED
    BY <1>1, <1>3, <2>1, ReturnsOK
<1> QED
  BY <1>2, <1>4, <1>5 DEF TakeBlock, TakeGap

\* What the main loop and the Writer do to the overlay and the undo records.
LEMMA QuietKeeps ==
  ASSUME Inductive,
         \/ \E t \in MempoolTx : TakeTx(t)
         \/ ReconcileMempool
         \/ PruneTick
         \/ RunPrune
  PROVE  Inductive'
<1>1. /\ core \in Block /\ coreKeeps \in Nat /\ zmq \in Seq(Block \ {Genesis})
      /\ gap \in BOOLEAN /\ overlay \subseteq MempoolTx /\ pruneJob \in BOOLEAN
      /\ StoreTypeOK /\ StoreHeights
  BY DEF Inductive, TypeOK, NeverGenesis
<1>2. CASE (\E t \in MempoolTx : TakeTx(t)) \/ ReconcileMempool
  <2>1. /\ overlay' \subseteq MempoolTx
        /\ UNCHANGED <<storeVars, mem, ctl, Elsewhere>>
    BY <1>1, <1>2 DEF TakeTx, ReconcileMempool
  <2> QED
    BY <1>1, <2>1, OutsideKeeps DEF Elsewhere, coreVars, feedVars
<1>3. CASE PruneTick
  <2>1. /\ pruneJob' = TRUE
        /\ UNCHANGED <<storeVars, coreVars, feedVars, mem, overlay, ctl, crashes, faults>>
    BY <1>3 DEF PruneTick
  <2> QED
    BY <1>1, <2>1, OutsideKeeps DEF coreVars, feedVars
<1>4. CASE RunPrune
  <2>1. /\ pruneJob' = FALSE
        /\ UNCHANGED storeVars \/ PruneUndoData(KeepUndoFrom)
        /\ UNCHANGED <<core, coreKeeps, zmq, gap, mem, overlay, ctl, crashes, faults>>
    BY <1>4 DEF RunPrune, coreVars, feedVars
  <2>2. StoreTypeOK' /\ StoreHeights' /\ checkpoint' = checkpoint
    BY <1>1, <2>1, SameStoreType, SameStoreHeights, PruneType, PruneHeightsTrue
    DEF storeVars, PruneUndoData
  <2>3. TypeOK'
    BY <2>1, <2>2 DEF Inductive, TypeOK
  <2>4. MemoryTrue' /\ BlockInHand' /\ ForkTrue' /\ FreshMemory'
    BY <2>1, <2>2 DEF Inductive, MemoryTrue, BlockInHand, ForkTrue, FreshMemory
  <2>5. NeverGenesis'
    BY <2>1 DEF Inductive, NeverGenesis
  <2> QED
    BY <2>2, <2>3, <2>4, <2>5 DEF Inductive
<1> QED
  BY <1>2, <1>3, <1>4

\* Core and the feed.
LEMMA CoreKeeps ==
  ASSUME Inductive,
         \/ \E b \in Block : CoreAdopts(b)
         \/ LoseBlock
         \/ \E h \in PruneHeights : CorePrunes(h)
  PROVE  Inductive'
<1>1. /\ core \in Block /\ coreKeeps \in Nat /\ zmq \in Seq(Block \ {Genesis})
      /\ gap \in BOOLEAN /\ overlay \subseteq MempoolTx /\ pruneJob \in BOOLEAN
  BY DEF Inductive, TypeOK, NeverGenesis
<1>2. ASSUME NEW b \in Block, CoreAdopts(b) PROVE Inductive'
  <2>1. /\ Work[b] > Work[core] /\ core' = b
        /\ zmq' = Append(zmq, b) \/ zmq' = zmq
        /\ UNCHANGED <<storeVars, coreKeeps, gap, mem, overlay, pruneJob, ctl, crashes, faults>>
    BY <1>2 DEF CoreAdopts
  <2>2. b # Genesis
    <3>1. Work[Genesis] <= Work[core] /\ Work[core] \in Nat /\ Work[b] \in Nat
      BY <1>1, GenesisLeast, ChainAssumption
    <3>2. Work[Genesis] \in Nat
      BY ChainAssumption
    <3> QED
      BY <2>1, <3>1, <3>2
  <2>3. zmq' \in Seq(Block \ {Genesis})
    BY <1>1, <2>1, <2>2
  <2> QED
    BY <1>1, <2>1, <2>3, OutsideKeeps
<1>3. CASE LoseBlock
  <2>1. /\ zmq # <<>> /\ zmq' = Tail(zmq) /\ gap' \in BOOLEAN
        /\ UNCHANGED <<storeVars, core, coreKeeps, mem, overlay, pruneJob, ctl, crashes, faults>>
    BY <1>1, <1>3 DEF LoseBlock, coreVars
  <2>2. zmq' \in Seq(Block \ {Genesis})
    BY <1>1, <2>1
  <2> QED
    BY <1>1, <2>1, <2>2, OutsideKeeps
<1>4. ASSUME NEW h \in PruneHeights, CorePrunes(h) PROVE Inductive'
  <2>1. /\ coreKeeps < h /\ coreKeeps' = h /\ h \in Nat
        /\ UNCHANGED <<storeVars, core, zmq, gap, mem, overlay, pruneJob, ctl, crashes, faults>>
    BY <1>4, ChainAssumption DEF CorePrunes, feedVars
  <2> QED
    BY <1>1, <2>1, OutsideKeeps
<1> QED
  BY <1>2, <1>3, <1>4

\* An RPC fault sends a call back to its caller.
LEMMA FaultKeeps ==
  ASSUME Inductive, RpcFault
  PROVE  Inductive'
<1>1. faults' \in 0 .. MaxFaults
  BY ChainAssumption DEF RpcFault, Inductive, TypeOK
<1> DEFINE c == [ctl EXCEPT !.cur = @ - 1]
<1>2. \/ Abort(CheckFailed)
      \/ Abort(Stop)
      \/ Abort(TipFailed)
      \/ Abort(CatchUpFailed)
      \/ Abort(AtRest("idle", "live"))
      \/ ctl.at = "match" /\ Abort(c)
  BY DEF RpcFault
<1>3. ASSUME ctl.at = "match" PROVE ControlOK(c)
  <2> SUFFICES ASSUME NEW d, d = c PROVE ControlOK(d)
    OBVIOUS
  <2>1. ControlOK(ctl)
    BY NowOK
  <2>2. d \in Control
    BY <2>1 DEF ControlOK, Control
  <2>3. d.at = ctl.at /\ d.caller = ctl.caller /\ d.blk = ctl.blk
    BY <2>1 DEF ControlOK, Control
  <2> QED
    BY <1>3, <2>1, <2>2, <2>3 DEF ControlOK
<1>4. ControlOK(AtRest("idle", "live"))
  BY AtRestOK, StepNames
<1> HIDE DEF c
<1> QED
  BY <1>1, <1>2, <1>3, <1>4, ReturnsOK, AbortKeeps

\* The process dies: the index and Core are all that is left.
LEMMA CrashKeeps ==
  ASSUME Inductive, Crash
  PROVE  Inductive'
<1>1. /\ crashes < MaxCrashes /\ crashes' = crashes + 1
      /\ ctl' = Stop /\ mem' = NewMemory /\ overlay' = {} /\ pruneJob' = FALSE
      /\ zmq' = <<>> /\ gap' = FALSE
      /\ UNCHANGED <<storeVars, core, coreKeeps, faults>>
  BY DEF Crash, coreVars
<1>2. StoreTypeOK' /\ StoreHeights'
  BY <1>1, NowOK, SameStoreType, SameStoreHeights
<1>3. MemoryOK(mem') /\ ControlOK(ctl')
  BY <1>1, NewMemoryOK, ReturnsOK
<1>4. TypeOK'
  <2>1. gap' \in BOOLEAN /\ pruneJob' \in BOOLEAN
    BY <1>1
  <2>2. zmq' \in Seq(Block) /\ overlay' \subseteq MempoolTx
    BY <1>1
  <2>3. crashes' \in 0 .. MaxCrashes /\ faults' \in 0 .. MaxFaults
    BY <1>1, ChainAssumption DEF Inductive, TypeOK
  <2>4. core' \in Block /\ coreKeeps' \in Nat
    BY <1>1 DEF Inductive, TypeOK
  <2>5. mem' \in Memory /\ ctl' \in Control
    BY <1>3 DEF MemoryOK, ControlOK
  <2> QED
    BY <1>2, <2>1, <2>2, <2>3, <2>4, <2>5 DEF TypeOK
<1>5. MemoryTrue' /\ BlockInHand' /\ ForkTrue'
  BY <1>3 DEF MemoryTrue, BlockInHand, ForkTrue, MemoryOK, ControlOK
<1>6. FreshMemory' /\ NeverGenesis'
  BY <1>1 DEF FreshMemory, NeverGenesis, NewMemory, Inductive, TypeOK
<1> QED
  BY <1>2, <1>4, <1>5, <1>6 DEF Inductive

\* A server that has never run, on a new database.
LEMMA InitHolds == Init => Inductive
<1> SUFFICES ASSUME Init PROVE Inductive
  OBVIOUS
<1>1. StoreTypeOK /\ StoreHeights
  BY TreeAssumption
  DEF Init, EmptyStore, EmptyMap, FreshCheckpoint, StoreTypeOK, StoreHeights, Checkpoint
<1>2. ControlOK(ctl)
  BY AtRestOK, StepNames DEF Init
<1>3. MemoryOK(mem) /\ mem.hash = ZeroHash /\ mem.prune = 0
  BY NewMemoryOK DEF Init, NewMemory
<1>4. TypeOK
  <2>1. gap \in BOOLEAN /\ pruneJob \in BOOLEAN
    BY DEF Init
  <2>2. zmq \in Seq(Block) /\ overlay \subseteq MempoolTx
    BY DEF Init
  <2>3. crashes \in 0 .. MaxCrashes /\ faults \in 0 .. MaxFaults
    BY ChainAssumption DEF Init
  <2>4. core \in Block /\ coreKeeps \in Nat
    BY ChainAssumption DEF Init
  <2>5. mem \in Memory /\ ctl \in Control
    BY <1>2, <1>3 DEF MemoryOK, ControlOK
  <2> QED
    BY <1>1, <2>1, <2>2, <2>3, <2>4, <2>5 DEF TypeOK
<1>5. MemoryTrue /\ BlockInHand /\ ForkTrue /\ FreshMemory
  BY <1>2, <1>3 DEF MemoryTrue, BlockInHand, ForkTrue, FreshMemory, MemoryOK, ControlOK
<1>6. NeverGenesis
  BY <1>3 DEF NeverGenesis, Init
<1> QED
  BY <1>1, <1>4, <1>5, <1>6 DEF Inductive

-----------------------------------------------------------------------------
\* The invariant is inductive: for every block tree, every schedule of Core,
\* lost messages, RPC faults and crashes.
THEOREM InductiveHolds == Spec => []Inductive
<1>1. Init => Inductive
  BY InitHolds
<1>2. Inductive /\ [Next]_vars => Inductive'
  <2> SUFFICES ASSUME Inductive, [Next]_vars PROVE Inductive'
    OBVIOUS
  <2>1. CASE ChainStep
    BY <2>1, CheckKeeps, ForkKeeps, RollbackKeeps, ProcessKeeps, CatchUpKeeps, TipKeeps,
       MatchKeeps, RepairKeeps, StartKeeps DEF ChainStep
  <2>2. CASE StartServer
    BY <2>2, StartKeeps
  <2>3. CASE TakeBlock \/ TakeGap \/ TakeTick
    BY <2>3, TakeKeeps
  <2>4. CASE \/ \E t \in MempoolTx : TakeTx(t)
             \/ ReconcileMempool \/ PruneTick \/ RunPrune
    BY <2>4, QuietKeeps
  <2>5. CASE Environment
    BY <2>5, CoreKeeps, FaultKeeps, CrashKeeps DEF Environment
  <2>6. CASE UNCHANGED vars
    <3>1. UNCHANGED <<storeVars, core, coreKeeps, zmq, gap, mem, overlay, pruneJob, ctl,
                      crashes, faults>>
      BY <2>6 DEF vars, coreVars, feedVars
    <3>2. /\ core \in Block /\ coreKeeps \in Nat /\ zmq \in Seq(Block \ {Genesis})
          /\ gap \in BOOLEAN /\ overlay \subseteq MempoolTx /\ pruneJob \in BOOLEAN
      BY DEF Inductive, TypeOK, NeverGenesis
    <3> QED
      BY <3>1, <3>2, OutsideKeeps
  <2> QED
    BY <2>1, <2>2, <2>3, <2>4, <2>5, <2>6 DEF Next
<1> QED
  BY <1>1, <1>2, PTL DEF Spec

\* The index, the chain state in memory and the control state are always of
\* the right kind: no step leaves the empty hash where a block is expected.
THEOREM TypeCorrect == Spec => []TypeOK
<1>1. Inductive => TypeOK
  BY DEF Inductive
<1> QED
  BY <1>1, InductiveHolds, PTL

\* A height that is kept with a block is always that block's, in memory and
\* in every record of the index, although Core changes its best chain between
\* the RPCs that produce the two.
THEOREM HeightsTrueHolds == Spec => []HeightsTrue
<1>1. Inductive => HeightsTrue
  BY DEF Inductive, StoreHeights, MemoryTrue, HeightsTrue
<1> QED
  BY <1>1, InductiveHolds, PTL
=============================================================================
