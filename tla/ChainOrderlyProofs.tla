------------------------- MODULE ChainOrderlyProofs -------------------------
(***************************************************************************)
(* Under Discipline the chain logic implements IndexLedger: every change   *)
(* of the index is a block appended, taken off, a checkpoint lowered or a  *)
(* prune, so the index is exact through reorgs, restarts and prune jobs.   *)
(***************************************************************************)
EXTENDS ChainManagerProofs

Exact == INSTANCE IndexLedgerProofs

(***************************************************************************)
(* The invariant.  The parts that depend on the place of the main          *)
(* goroutine have the control state as a parameter, so that a step that    *)
(* only moves on has to establish them for the place it goes to.           *)
(***************************************************************************)

\* Nothing is lost, nothing fails, and Core has its own tip.
Calm == gap = FALSE /\ faults = 0 /\ coreKeeps <= Height[core]

\* Stored headers lie on the branch of the checkpoint, and every undo record
\* belongs to a stored header.
Linked ==
  /\ \A h \in DOMAIN header : header[h] \in Branch(checkpoint.hash)
  /\ \A k \in DOMAIN undo : k[1] \in DOMAIN header /\ header[k[1]] = k[2]

\* A stored block without undo record is too deep to be taken off again.
UndoKept ==
  \A h \in DOMAIN header :
    \/ <<h, header[h]>> \in DOMAIN undo
    \/ h + MaxReorgDepth <= Height[core] /\ header[h] \in Branch(core)

\* The call in progress fits its place; a message waits only for the main
\* loop, and it is Core's present tip.
Shape(c) ==
  /\ c.at # "match"
  /\ c.at # "down" => mem.prune = coreKeeps
  /\ zmq # <<>> => c.at = "idle" /\ zmq = <<core>>
  /\ c.at = "down" => c.job = "startup"
  /\ c.at = "idle" => c.job = "live"
  /\ c.at = "process" \/ c.caller = "process" => c.blk = core /\ c.job = "live"
  /\ c.caller = "process" => c.at \in {"check", "fork", "rollback", "catchup"}
  /\ c.after # "init" => c.at \in {"check", "fork", "rollback"}
  /\ c.at = "catchup" \/ c.after = "catchup" => c.target <= Height[core]
  /\ c.at \in {"verify", "gaps"} => c.target = ConfigStart

\* On a fresh database nothing is stored until the start height is set.
Unbased(c) ==
  /\ checkpoint = FreshCheckpoint
  /\ DOMAIN header = {}
  /\ c.at \in {"down", "setstart"} \/ (c.at = "check" /\ c.after = "init")

\* The highest header stored: a rollback has not lowered the checkpoint yet.
Top(c) == IF c.at = "rollback" THEN c.cur ELSE checkpoint.height

\* Afterwards the headers reach from the start height to the checkpoint,
\* which Core has overtaken.
Based(c) ==
  /\ checkpoint.hash \in Block
  /\ ConfigStart - 1 <= checkpoint.height /\ checkpoint.height <= Height[core]
  /\ checkpoint.start \in {0, ConfigStart}
  /\ c.at # "setstart"
  /\ DOMAIN header = ConfigStart .. Top(c)

Ground(c) == Unbased(c) \/ Based(c)

\* Initialize has not yet loaded the chain state.
Unloaded(c) ==
  \/ c.at \in {"down", "setstart"}
  \/ c.at \in {"check", "fork", "rollback"} /\ c.after = "init"

\* Memory has the checkpoint, once loaded.
Recall(c) ==
  /\ mem.start \in {0, ConfigStart}
  /\ IF Unloaded(c)
     THEN mem.height = 0 /\ mem.hash = ZeroHash
     ELSE mem.height = checkpoint.height /\ mem.hash = checkpoint.hash

\* Where the tip is known to be on Core's branch; elsewhere at least the
\* next block is one that Core still has.
OnBranch(c) ==
  /\ \/ c.at \in {"tip", "verify", "gaps", "count"}
     \/ c.at = "catchup" /\ c.caller = "tip"
     \/ c.at = "idle" /\ zmq = <<>>
     => mem.hash \in Branch(core)
  /\ c.at \in {"idle", "process", "catchup"} =>
       mem.hash \in Branch(core) \/ coreKeeps <= mem.height

\* The search for the fork has seen only orphans, and a rollback takes off
\* only orphans.
Search(c) ==
  /\ c.at = "fork" =>
       /\ checkpoint.hash \notin Branch(core)
       /\ c.cur < checkpoint.height
       /\ \A h \in DOMAIN header : c.cur < h => header[h] \notin Branch(core)
  /\ c.at = "rollback" =>
       /\ c.fork.height \in DOMAIN header
       /\ header[c.fork.height] = c.fork.hash /\ c.fork.hash \in Branch(core)
       /\ c.fork.height < checkpoint.height
       /\ c.fork.height <= c.cur /\ c.cur <= checkpoint.height
       /\ \A h \in DOMAIN header : c.fork.height < h => header[h] \notin Branch(core)

Placed(c) == Shape(c) /\ Ground(c) /\ Recall(c) /\ OnBranch(c) /\ Search(c)

Orderliness == Calm /\ Linked /\ UndoKept /\ Placed(ctl)

-----------------------------------------------------------------------------
(***************************************************************************)
(* Branches.                                                               *)
(***************************************************************************)

\* What Discipline says of the constants, piece by piece.
LEMMA Constants ==
  ASSUME Discipline
  PROVE  /\ Orderly /\ ~Lossy /\ MaxFaults = 0 /\ MaxQueue \in Nat /\ MaxQueue >= 1
         /\ "rollback" \notin CrashAt
         /\ ConfigStart \in Nat /\ ConfigStart >= 1
         /\ MaxReorgDepth \in Nat /\ MaxReorgDepth >= 1
BY ChainAssumption DEF Discipline

\* Of two blocks of one branch the lower is on the branch of the higher.
LEMMA BranchSplit ==
  ASSUME NEW b \in Block, NEW x \in Branch(b), NEW y \in Branch(b), Height[x] <= Height[y]
  PROVE  x \in Branch(y) /\ x \in Block /\ y \in Block
<1>1. x \in Block /\ y \in Block /\ Branch(y) \subseteq Branch(b)
  BY BranchBelow DEF Branch
<1>2. Height[x] \in Nat
  BY <1>1, TreeAssumption
<1>3. PICK z \in Branch(y) : Height[z] = Height[x]
  BY <1>1, <1>2, BranchComplete DEF Branch
<1>4. z = x
  BY <1>1, <1>3, BranchUnique DEF Branch
<1> QED
  BY <1>1, <1>3, <1>4

\* GetBlockHash gives a block if and only if it is the one of Core's branch.
LEMMA CoreHashOnBranch ==
  ASSUME core \in Block, NEW x \in Block, OnCore(Height[x])
  PROVE  CoreHash(Height[x]) = x <=> x \in Branch(core)
<1>1. Height[x] \in Int
  BY TreeAssumption
<1>2. CoreHash(Height[x]) \in Branch(core) /\ Height[CoreHash(Height[x])] = Height[x]
  BY <1>1, CoreHashTrue DEF Branch
<1> QED
  BY <1>2, BranchUnique DEF Branch

\* Branches that differ by at most max_reorg_depth blocks of the shorter one.
LEMMA Shallow ==
  ASSUME Discipline, NEW a \in Block, NEW b \in Block, NEW x \in Branch(a),
         Height[x] + MaxReorgDepth <= Height[a], Height[x] + MaxReorgDepth <= Height[b]
  PROVE  x \in Branch(b)
BY DEF Discipline

\* No branch leaves Core's at or below the first block indexed.
LEMMA LowOnBranch ==
  ASSUME Discipline, NEW b \in Block, NEW x \in Block,
         Height[x] <= ConfigStart, Height[x] <= Height[b]
  PROVE  x \in Branch(b)
<1>1. Height[x] \in Nat
  BY TreeAssumption
<1>2. PICK y \in Branch(b) : Height[y] = Height[x]
  BY <1>1, BranchComplete DEF Branch
<1>3. y \in Block
  BY BranchBelow DEF Branch
<1>4. y = x
  BY <1>2, <1>3 DEF Discipline
<1> QED
  BY <1>4

-----------------------------------------------------------------------------
(***************************************************************************)
(* The stored headers.                                                     *)
(***************************************************************************)

\* The types the invariant of ChainManagerProofs provides.
LEMMA Types ==
  ASSUME Inductive
  PROVE  /\ core \in Block /\ Height[core] \in Nat /\ coreKeeps \in Nat
         /\ mem \in Memory /\ mem.height \in Int /\ mem.start \in Int /\ mem.prune \in Nat
         /\ checkpoint \in Checkpoint /\ checkpoint.height \in Int /\ checkpoint.start \in Int
         /\ checkpoint.hash \in Block => Height[checkpoint.hash] = checkpoint.height
         /\ DOMAIN header \subseteq Int
         /\ \A h \in DOMAIN header : header[h] \in Block /\ Height[header[h]] = h
         /\ \A k \in DOMAIN undo : k \in Int \X Block
         /\ ctl \in Control /\ ctl.cur \in Int /\ ctl.target \in Int
         /\ ctl.fork.height \in Int /\ ctl.job \in {"startup", "live"}
<1>1. core \in Block /\ Height[core] \in Nat /\ coreKeeps \in Nat
  BY TreeAssumption DEF Inductive, TypeOK
<1>2. mem \in Memory /\ mem.height \in Int /\ mem.start \in Int /\ mem.prune \in Nat
  BY DEF Inductive, TypeOK, Memory
<1>3. /\ checkpoint \in Checkpoint /\ checkpoint.height \in Int /\ checkpoint.start \in Int
      /\ checkpoint.hash \in Block => Height[checkpoint.hash] = checkpoint.height
  BY DEF Inductive, TypeOK, StoreTypeOK, StoreHeights, Checkpoint
<1>4. /\ DOMAIN header \subseteq Int
      /\ \A h \in DOMAIN header : header[h] \in Block /\ Height[header[h]] = h
      /\ \A k \in DOMAIN undo : k \in Int \X Block
  BY DEF Inductive, TypeOK, StoreTypeOK, StoreHeights
<1>5. /\ ctl \in Control /\ ctl.cur \in Int /\ ctl.target \in Int
      /\ ctl.fork.height \in Int /\ ctl.job \in {"startup", "live"}
  BY DEF Inductive, TypeOK, Control
<1> QED
  BY <1>1, <1>2, <1>3, <1>4, <1>5

\* The header stored at the checkpoint's height is the checkpoint's block.
LEMMA TopHeader ==
  ASSUME Inductive, Linked, checkpoint.hash \in Block, checkpoint.height \in DOMAIN header
  PROVE  header[checkpoint.height] = checkpoint.hash
<1>1. header[checkpoint.height] \in Branch(checkpoint.hash)
  BY DEF Linked
<1>2. Height[header[checkpoint.height]] = Height[checkpoint.hash]
  BY Types
<1> QED
  BY <1>1, <1>2, BranchUnique DEF Branch

\* getOurBlockHash answers with the stored header, and no record stands in
\* for another.
LEMMA OursIsHeader ==
  ASSUME Inductive, Linked, checkpoint.hash \in Block, NEW h \in DOMAIN header
  PROVE  OurBlockHash(h) = header[h]
<1> DEFINE keys == {j \in DOMAIN undo : j[1] = h}
           recs == {k[2] : k \in keys}
<1>1. CASE checkpoint.height = h /\ checkpoint.hash # NoHash
  BY <1>1, TopHeader DEF OurBlockHash
<1>2. CASE ~(checkpoint.height = h /\ checkpoint.hash # NoHash) /\ recs # {}
  <2>1. \A b \in recs : b = header[h]
    BY DEF Linked
  <2>2. recs = {header[h]}
    BY <1>2, <2>1
  <2>3. OurBlockHash(h) = CHOOSE b \in recs : \A c \in recs : HashRank[b] <= HashRank[c]
    BY <1>2 DEF OurBlockHash
  <2>4. HashRank[header[h]] \in Nat
    BY Types, ChainAssumption
  <2>5. \A c \in recs : HashRank[header[h]] <= HashRank[c]
    BY <2>2, <2>4
  <2> HIDE DEF recs
  <2> QED
    BY <2>2, <2>3, <2>5
<1>3. CASE ~(checkpoint.height = h /\ checkpoint.hash # NoHash) /\ recs = {}
  BY <1>3 DEF OurBlockHash
<1> QED
  BY <1>1, <1>2, <1>3

-----------------------------------------------------------------------------
(***************************************************************************)
(* Steps by their shape.                                                   *)
(***************************************************************************)

\* What a place asks for, asked again after a step that changed none of it.
LEMMA PlacedFrame ==
  ASSUME NEW c, Placed(c), ctl' = c,
         UNCHANGED <<checkpoint, header, mem, zmq, core, coreKeeps>>
  PROVE  Placed(ctl)'
<1>1. Shape(ctl)'
  BY DEF Placed, Shape
<1>2. Ground(ctl)'
  BY DEF Placed, Ground, Based, Unbased, Top, FreshCheckpoint
<1>3. Recall(ctl)'
  BY DEF Placed, Recall, Unloaded
<1>4. OnBranch(ctl)'
  BY DEF Placed, OnBranch, Branch
<1>5. Search(ctl)'
  BY DEF Placed, Search, Branch
<1> QED
  BY <1>1, <1>2, <1>3, <1>4, <1>5 DEF Placed

\* What is asked of the index, after a step that leaves it and Core alone.
LEMMA IndexFrame ==
  ASSUME Orderliness, UNCHANGED <<header, undo, checkpoint, core>>
  PROVE  Linked' /\ UndoKept'
BY DEF Orderliness, Linked, UndoKept, Branch

\* A step that only moves on, to a place whose demands are met.
LEMMA GotoOrderly ==
  ASSUME Orderliness, NEW next, Goto(next), Placed(next)
  PROVE  Orderliness' /\ UNCHANGED storeVars
<1>1. /\ ctl' = next
      /\ UNCHANGED storeVars
      /\ UNCHANGED <<checkpoint, header, undo, mem, zmq, core, coreKeeps, gap, faults>>
  BY DEF Goto, Elsewhere, coreVars, feedVars, storeVars
<1>2. Placed(ctl)'
  BY <1>1, PlacedFrame
<1>3. Calm'
  BY <1>1 DEF Orderliness, Calm
<1> QED
  BY <1>1, <1>2, <1>3, IndexFrame DEF Orderliness

\* The fields of a control state at rest.
LEMMA AtRestFields ==
  ASSUME NEW step, NEW job
  PROVE  /\ AtRest(step, job).at = step /\ AtRest(step, job).job = job
         /\ AtRest(step, job).after = "init" /\ AtRest(step, job).caller = "tip"
         /\ AtRest(step, job).blk = NoHash /\ AtRest(step, job).target = 0
         /\ AtRest(step, job).cur = 0
BY DEF AtRest

\* The process stops, by an error or a crash, and not in a rollback.
LEMMA StopOrderly ==
  ASSUME Inductive, Orderliness, ctl.at # "rollback",
         ctl' = Stop, mem' = NewMemory, zmq' = <<>>, gap' = FALSE, faults' = faults,
         UNCHANGED <<storeVars, core, coreKeeps>>
  PROVE  Orderliness'
<1>1. UNCHANGED <<header, undo, checkpoint, core>>
  BY DEF storeVars
<1>2. /\ ctl'.at = "down" /\ ctl'.job = "startup" /\ ctl'.after = "init" /\ ctl'.caller = "tip"
  BY AtRestFields DEF Stop
<1>3. mem'.height = 0 /\ mem'.hash = ZeroHash /\ mem'.start = 0
  BY DEF NewMemory
<1>4. Shape(ctl)'
  BY <1>2 DEF Shape
<1>5. Ground(ctl)'
  BY <1>1, <1>2 DEF Orderliness, Placed, Ground, Based, Unbased, Top, FreshCheckpoint
<1>6. Recall(ctl)'
  BY <1>2, <1>3 DEF Recall, Unloaded
<1>7. OnBranch(ctl)' /\ Search(ctl)'
  BY <1>2 DEF OnBranch, Search
<1>8. Calm'
  BY <1>1 DEF Orderliness, Calm
<1> QED
  BY <1>1, <1>4, <1>5, <1>6, <1>7, <1>8, IndexFrame DEF Orderliness, Placed

\* A step that ends with an error, and not in a rollback.
LEMMA FailOrderly ==
  ASSUME Inductive, Orderliness, ctl.at \notin {"rollback", "idle"}, NEW next, Fail(next),
         next = Stop \/ (next.at # "down" /\ Placed(next))
  PROVE  Orderliness' /\ UNCHANGED storeVars
<1>1. /\ ctl' = next
      /\ UNCHANGED storeVars
      /\ UNCHANGED <<checkpoint, header, undo, zmq, core, coreKeeps, gap, faults>>
      /\ IF next.at = "down" THEN mem' = NewMemory ELSE mem' = mem
  BY DEF Fail, Abort, coreVars, feedVars, storeVars
<1>2. zmq = <<>> /\ gap = FALSE
  BY DEF Orderliness, Placed, Shape, Calm
<1>3. CASE next = Stop
  <2>1. next.at = "down"
    BY <1>3, AtRestFields DEF Stop
  <2> QED
    BY <1>1, <1>2, <1>3, <2>1, StopOrderly
<1>4. CASE next.at # "down" /\ Placed(next)
  <2>1. Placed(ctl)'
    BY <1>1, <1>4, PlacedFrame
  <2>2. Calm'
    BY <1>1 DEF Orderliness, Calm
  <2> QED
    BY <1>1, <2>1, <2>2, IndexFrame DEF Orderliness
<1> QED
  BY <1>3, <1>4

\* What the places in which the chain state is loaded have in common.
LEMMA Loaded ==
  ASSUME Inductive, Orderliness, ~Unloaded(ctl)
  PROVE  /\ Based(ctl) /\ mem.height = checkpoint.height /\ mem.hash = checkpoint.hash
         /\ mem.hash \in Block /\ Height[mem.hash] = mem.height
         /\ mem.height <= Height[core] /\ mem.prune = coreKeeps
         /\ mem.start \in {0, ConfigStart}
<1>1. Based(ctl) /\ mem.height = checkpoint.height /\ mem.hash = checkpoint.hash
  BY DEF Orderliness, Placed, Ground, Unbased, Unloaded, Recall
<1>2. mem.prune = coreKeeps /\ mem.start \in {0, ConfigStart}
  BY DEF Orderliness, Placed, Shape, Recall, Unloaded
<1> QED
  BY <1>1, <1>2, Types DEF Based

\* ... and what a place at rest asks for when it does not change any of that.
LEMMA RestPlaced ==
  ASSUME Inductive, Orderliness, ~Unloaded(ctl), ctl.at # "rollback", zmq = <<>>,
         NEW step \in {"tip", "count", "idle", "halted", "check"}, NEW job,
         NEW a \in {"init", "process"}, NEW c,
         c.at = step, c.job = job, c.after = a, c.caller = "tip",
         step = "idle" => job = "live",
         step \in {"tip", "count", "idle"} => mem.hash \in Branch(core),
         step = "check" <=> a = "process"
  PROVE  Placed(c)
<1>1. Shape(c)
  BY Loaded DEF Shape
<1>2. Ground(c)
  BY Loaded DEF Ground, Based, Top
<1>3. Recall(c)
  BY Loaded DEF Recall, Unloaded
<1>4. OnBranch(c) /\ Search(c)
  BY DEF OnBranch, Search
<1> QED
  BY <1>1, <1>2, <1>3, <1>4 DEF Placed

-----------------------------------------------------------------------------
(***************************************************************************)
(* CatchUpToTip and VerifyAndRepairGaps.                                   *)
(***************************************************************************)

\* The start height is found again, in memory or from the headers.
LEMMA StartFound ==
  ASSUME Discipline, Inductive, Orderliness, ctl.at = "tip", mem.height > 0
  PROVE  EffectiveStart = ConfigStart
<1>1. /\ mem.height = checkpoint.height /\ mem.start \in {0, ConfigStart}
      /\ DOMAIN header = ConfigStart .. mem.height /\ ConfigStart - 1 <= mem.height
  BY Loaded DEF Unloaded, Based, Top
<1>2. mem.height \in Int /\ ConfigStart \in Nat /\ ConfigStart >= 1
  BY Types, Constants
<1>3. CASE mem.start = ConfigStart
  BY <1>2, <1>3 DEF EffectiveStart
<1>4. CASE mem.start = 0 /\ ConfigStart = 1
  <2>1. 1 \in DOMAIN header
    BY <1>1, <1>2, <1>4
  <2> QED
    BY <1>4, <2>1 DEF EffectiveStart, FindFirstIndexedHeight
<1>5. CASE mem.start = 0 /\ ConfigStart > 1
  <2> DEFINE holes == {h \in 1 .. mem.height : h \notin DOMAIN header}
  <2>1. \A h : h \in holes <=> h \in 1 .. (ConfigStart - 1)
    BY <1>1, <1>2
  <2>2. 1 \notin DOMAIN header
    BY <1>1, <1>2, <1>5
  <2>3. holes # {} /\ ConfigStart - 1 \in holes /\ \A k \in holes : k \in Int /\ k <= ConfigStart - 1
    <3> HIDE DEF holes
    <3> QED
      BY <1>2, <1>5, <2>1
  <2> DEFINE top == CHOOSE h \in holes : \A k \in holes : k <= h
  <2>4. EffectiveStart = 1 + top
    BY <1>5, <2>2, <2>3 DEF EffectiveStart, FindFirstIndexedHeight
  <2>5. top = ConfigStart - 1
    <3> HIDE DEF holes
    <3>1. \A h \in holes : (\A k \in holes : k <= h) => h = ConfigStart - 1
      BY <1>2, <2>3
    <3> QED
      BY <2>3, <3>1
  <2> HIDE DEF top
  <2> QED
    BY <1>2, <2>4, <2>5
<1> QED
  BY <1>1, <1>2, <1>3, <1>4, <1>5

\* The tip that CatchUpToTip works with is on Core's branch, so neither a
\* match search nor a gap repair is ever needed.
LEMMA TipOrderly ==
  ASSUME Discipline, Inductive, Orderliness,
         TipPrunedGap \/ TipVerify \/ VerifyTip \/ MatchStep \/ MatchNone
           \/ RepairStep \/ RepairDone \/ TipCount
  PROVE  Orderliness' /\ UNCHANGED storeVars
<1>1. ctl.at \in {"tip", "verify", "gaps", "count"}
  BY DEF TipPrunedGap, TipVerify, VerifyTip, MatchStep, MatchNone, RepairStep, RepairDone,
         TipCount, Orderliness, Placed, Shape
<1>2. /\ ctl.after = "init" /\ ctl.caller = "tip" /\ zmq = <<>>
      /\ mem.hash \in Branch(core) /\ ~Unloaded(ctl)
      /\ ctl.at \in {"verify", "gaps"} => ctl.target = ConfigStart
  <2>1. ctl.after \in {"init", "process", "catchup"} /\ ctl.caller \in {"process", "tip"}
    BY DEF Inductive, TypeOK, Control
  <2> QED
    BY <1>1, <2>1 DEF Orderliness, Placed, Shape, OnBranch, Unloaded
<1>3. /\ mem.height = checkpoint.height /\ mem.hash \in Block /\ Height[mem.hash] = mem.height
      /\ mem.height <= Height[core] /\ mem.prune = coreKeeps /\ Based(ctl)
      /\ DOMAIN header = ConfigStart .. mem.height
  BY <1>1, <1>2, Loaded DEF Based, Top
<1>4. /\ mem.height \in Nat /\ core \in Block /\ Height[core] \in Nat /\ ctl \in Control
  BY <1>3, Types, TreeAssumption
\* A place further on in the call that is in progress.
<1>5. ASSUME NEW c, Goto(c), c.at \in {"verify", "gaps", "count", "catchup"},
             c.job = ctl.job, c.after = "init", c.caller = "tip",
             c.at \in {"verify", "gaps"} => c.target = ConfigStart,
             c.at = "catchup" => c.target <= Height[core]
      PROVE  Orderliness' /\ UNCHANGED storeVars
  <2>1. Shape(c)
    BY <1>2, <1>3, <1>5 DEF Shape
  <2>2. Ground(c)
    BY <1>1, <1>3, <1>5 DEF Ground, Based, Top
  <2>3. Recall(c)
    BY <1>2, <1>5, Loaded DEF Recall, Unloaded
  <2>4. OnBranch(c) /\ Search(c)
    BY <1>2, <1>5 DEF OnBranch, Search
  <2> QED
    BY <1>5, <2>1, <2>2, <2>3, <2>4, GotoOrderly DEF Placed
<1>6. CASE TipPrunedGap
  <2> DEFINE c == AtRest("halted", ctl.job)
  <2>1. Placed(c)
    BY <1>1, <1>2, RestPlaced, AtRestFields
  <2> QED
    BY <1>6, <2>1, GotoOrderly DEF TipPrunedGap
<1>7. CASE TipVerify
  <2>1. CASE mem.height <= 0
    <3> DEFINE c == [ctl EXCEPT !.at = "count"]
    <3>1. c.at = "count" /\ c.job = ctl.job /\ c.after = "init" /\ c.caller = "tip"
      BY <1>2, <1>4 DEF Control
    <3>2. Goto(c)
      BY <1>7, <2>1 DEF TipVerify
    <3> HIDE DEF c
    <3> QED
      BY <1>5, <3>1, <3>2
  <2>2. CASE ~(mem.height <= 0)
    <3> DEFINE c == [ctl EXCEPT !.at = "verify", !.target = EffectiveStart]
    <3>1. EffectiveStart = ConfigStart
      BY <1>4, <1>7, <2>2, StartFound DEF TipVerify
    <3>2. /\ c.at = "verify" /\ c.job = ctl.job /\ c.after = "init" /\ c.caller = "tip"
          /\ c.target = ConfigStart
      BY <1>2, <1>4, <3>1 DEF Control
    <3>3. Goto(c)
      BY <1>7, <2>2 DEF TipVerify
    <3> HIDE DEF c
    <3> QED
      BY <1>5, <3>2, <3>3
  <2> QED
    BY <2>1, <2>2
<1>8. CASE VerifyTip
  <2>1. OnCore(mem.height)
    BY <1>3, <1>4 DEF OnCore, CoreHeight
  <2>2. CoreHash(mem.height) = mem.hash
    BY <1>2, <1>3, <1>4, <2>1, CoreHashOnBranch
  <2> DEFINE c == [ctl EXCEPT !.at = "gaps"]
  <2>3. c.at = "gaps" /\ c.job = ctl.job /\ c.after = "init" /\ c.caller = "tip"
        /\ c.target = ConfigStart
    BY <1>2, <1>4, <1>8 DEF Control, VerifyTip
  <2>4. Goto(c)
    BY <1>8, <2>1, <2>2 DEF VerifyTip
  <2> HIDE DEF c
  <2> QED
    BY <1>5, <2>3, <2>4
<1>9. CASE RepairStep \/ RepairDone
  <2>1. ctl.target = ConfigStart
    BY <1>2, <1>9 DEF RepairStep, RepairDone
  <2>2. Holes = {}
    BY <1>3, <2>1 DEF Holes
  <2> DEFINE c == AtRest("count", ctl.job)
  <2>3. Goto(c)
    BY <1>9, <2>2 DEF RepairStep, RepairDone
  <2>4. c.at = "count" /\ c.job = ctl.job /\ c.after = "init" /\ c.caller = "tip"
    BY AtRestFields
  <2> HIDE DEF c
  <2> QED
    BY <1>5, <2>3, <2>4
<1>10. CASE TipCount
  <2>1. CASE AtTip
    <3>1. Placed(TipDone)
      BY <1>1, <1>2, RestPlaced, AtRestFields DEF TipDone
    <3> QED
      BY <1>10, <2>1, <3>1, GotoOrderly DEF TipCount
  <2>2. CASE ~AtTip
    <3> DEFINE c == [ctl EXCEPT !.at = "catchup", !.caller = "tip", !.target = CoreHeight]
    <3>1. /\ c.at = "catchup" /\ c.job = ctl.job /\ c.after = "init" /\ c.caller = "tip"
          /\ c.target = Height[core]
      BY <1>2, <1>4 DEF Control, CoreHeight
    <3>2. c.target <= Height[core]
      BY <1>4, <3>1
    <3>3. Goto(c)
      BY <1>10, <2>2 DEF TipCount
    <3> HIDE DEF c
    <3> QED
      BY <1>5, <3>1, <3>2, <3>3
  <2> QED
    BY <2>1, <2>2
<1>11. CASE MatchStep \/ MatchNone
  BY <1>1, <1>11 DEF MatchStep, MatchNone
<1> QED
  BY <1>6, <1>7, <1>8, <1>9, <1>10, <1>11

-----------------------------------------------------------------------------
(***************************************************************************)
(* ProcessBlock and CatchUpTo.                                             *)
(***************************************************************************)

\* A block of Core's branch that connects is appended: the headers and the
\* undo records afterwards.
LEMMA AppendIndex ==
  ASSUME Discipline, Inductive, Orderliness, ctl.at \in {"process", "catchup"},
         NEW b \in Branch(core), Prev[b] = mem.hash, NEW n, n = mem.height + 1,
         IndexBlock(b, n)
  PROVE  /\ b \in Block /\ n \in Int /\ Height[b] = n /\ n <= Height[core]
         /\ DOMAIN header' = ConfigStart .. n
         /\ header'[n] = b
         /\ \A h \in DOMAIN header' : h # n => h \in DOMAIN header /\ header'[h] = header[h]
         /\ DOMAIN undo' = DOMAIN undo \cup {<<n, b>>}
         /\ checkpoint'.height = n /\ checkpoint'.hash = b /\ checkpoint'.start = checkpoint.start
         /\ ConfigStart <= n
         /\ Ledger!AppendBlock(b)
<1>1. /\ mem.height = checkpoint.height /\ mem.hash = checkpoint.hash
      /\ mem.hash \in Block /\ Height[mem.hash] = mem.height
      /\ DOMAIN header = ConfigStart .. mem.height /\ ConfigStart - 1 <= mem.height
  BY Loaded DEF Unloaded, Based, Top
<1>2. mem.height \in Int /\ core \in Block /\ Height[core] \in Nat
      /\ ConfigStart \in Nat /\ ConfigStart >= 1
  BY Types, Constants
<1>3. b \in Block /\ Height[b] <= Height[core]
  BY <1>2, BranchBelow, TreeAssumption DEF Branch
<1>4. Height[b] = n
  BY <1>1, <1>3, TreeAssumption
<1>5. /\ header' = Put(header, n, b)
      /\ checkpoint' = [height |-> n, hash |-> b, start |-> checkpoint.start]
      /\ DOMAIN undo' = DOMAIN undo \cup {<<n, b>>}
  BY DEF IndexBlock, Put
<1>6. /\ DOMAIN header' = DOMAIN header \cup {n}
      /\ \A h \in DOMAIN header' : header'[h] = IF h = n THEN b ELSE header[h]
  BY <1>5 DEF Put
<1>7. n \in Int /\ ConfigStart <= n /\ ConfigStart .. n = (ConfigStart .. mem.height) \cup {n}
  BY <1>1, <1>2
<1>8. Ledger!TipStored
  BY <1>1, <1>2 DEF Ledger!TipStored, Ledger!Stored
<1>9. Ledger!IndexBlock(b, checkpoint.height + 1)
  BY <1>1 DEF Ledger!IndexBlock, IndexBlock, Ledger!SpentBy, SpentBy, Ledger!Created, Created,
     Ledger!Indexable, Indexable, Ledger!Inputs, Inputs, Ledger!HistoryOf, HistoryOf,
     Ledger!Touched, Touched, Ledger!Put, Put, Ledger!Positions, Positions,
     Ledger!PlaceIn, PlaceIn, Ledger!Restrict, Restrict, Ledger!Range, Range
<1>10. Ledger!AppendBlock(b)
  BY <1>1, <1>8, <1>9 DEF Ledger!AppendBlock
<1> QED
  BY <1>1, <1>3, <1>4, <1>5, <1>6, <1>7, <1>10

\* ... and the whole step.
LEMMA AppendOrderly ==
  ASSUME Discipline, Inductive, Orderliness, ctl.at \in {"process", "catchup"},
         NEW b \in Branch(core), Prev[b] = mem.hash, NEW n, n = mem.height + 1,
         Index(b, n), Advance(n, b), UNCHANGED Elsewhere,
         ctl' = AtRest("idle", "live") \/ (ctl' = ctl /\ ctl.at = "catchup")
  PROVE  Orderliness' /\ Ledger!AppendBlock(b)
<1>1. IndexBlock(b, n)
  BY DEF Index
<1>2. /\ b \in Block /\ n \in Int /\ Height[b] = n /\ n <= Height[core]
      /\ DOMAIN header' = ConfigStart .. n
      /\ header'[n] = b
      /\ \A h \in DOMAIN header' : h # n => h \in DOMAIN header /\ header'[h] = header[h]
      /\ DOMAIN undo' = DOMAIN undo \cup {<<n, b>>}
      /\ checkpoint'.height = n /\ checkpoint'.hash = b /\ checkpoint'.start = checkpoint.start
      /\ ConfigStart <= n
      /\ Ledger!AppendBlock(b)
  BY <1>1, AppendIndex, ZenonT(60)
<1>3. /\ mem.height = checkpoint.height /\ mem.hash = checkpoint.hash /\ mem.hash \in Block
      /\ mem.start \in {0, ConfigStart} /\ mem.prune = coreKeeps
      /\ checkpoint.start \in {0, ConfigStart}
      /\ DOMAIN header = ConfigStart .. mem.height
      /\ mem.height \in Int /\ ConfigStart \in Nat
  BY Loaded, Types, Constants DEF Unloaded, Based, Top
<1>4. UNCHANGED <<core, coreKeeps, zmq, gap, faults>>
  BY DEF Elsewhere, coreVars, feedVars
<1>5. /\ mem'.height = n /\ mem'.hash = b /\ mem'.start = mem.start /\ mem'.prune = mem.prune
  BY Types DEF Advance, Memory
<1>6. /\ checkpoint'.height = n /\ checkpoint'.hash = b /\ checkpoint'.start = checkpoint.start
  BY <1>2
<1>7. Calm'
  BY <1>4 DEF Orderliness, Calm
<1>8. Linked'
  <2>1. ASSUME NEW h \in DOMAIN header' PROVE header'[h] \in Branch(b)
    <3>1. CASE h = n
      BY <1>2, <3>1 DEF Branch
    <3>2. CASE h # n
      <4>1. h \in DOMAIN header /\ header'[h] = header[h]
        BY <1>2, <3>2
      <4>2. header[h] \in Branch(mem.hash)
        BY <1>3, <4>1 DEF Orderliness, Linked
      <4>3. Anc[b] = Branch(Prev[b])
        BY <1>2, <1>3, TreeAssumption DEF Branch
      <4> QED
        BY <4>1, <4>2, <4>3 DEF Branch
    <3> QED
      BY <3>1, <3>2
  <2>2. ASSUME NEW k \in DOMAIN undo' PROVE k[1] \in DOMAIN header' /\ header'[k[1]] = k[2]
    <3>1. CASE k = <<n, b>>
      BY <1>2, <3>1
    <3>2. CASE k \in DOMAIN undo
      <4>1. k[1] \in DOMAIN header /\ header[k[1]] = k[2]
        BY <3>2 DEF Orderliness, Linked
      <4>2. k[1] \in DOMAIN header' /\ k[1] # n
        BY <1>2, <1>3, <4>1
      <4> QED
        BY <1>2, <4>1, <4>2
    <3> QED
      BY <1>2, <3>1, <3>2
  <2> QED
    BY <1>6, <2>1, <2>2 DEF Linked, Branch
<1>9. UndoKept'
  <2> SUFFICES ASSUME NEW h \in DOMAIN header'
               PROVE  \/ <<h, header'[h]>> \in DOMAIN undo'
                      \/ h + MaxReorgDepth <= Height[core] /\ header'[h] \in Branch(core)
    BY <1>4 DEF UndoKept, Branch
  <2>1. CASE h = n
    BY <1>2, <2>1
  <2>2. CASE h # n
    <3>1. h \in DOMAIN header /\ header'[h] = header[h]
      BY <1>2, <2>2
    <3> QED
      BY <1>2, <3>1 DEF Orderliness, UndoKept
  <2> QED
    BY <2>1, <2>2
<1>10. Placed(ctl)'
  <2>1. \/ /\ ctl'.at = "idle" /\ ctl'.job = "live" /\ ctl'.after = "init" /\ ctl'.caller = "tip"
        \/ ctl' = ctl /\ ctl.at = "catchup"
    BY AtRestFields
  <2>2. Shape(ctl)'
    BY <1>3, <1>4, <1>5, <2>1 DEF Orderliness, Placed, Shape
  <2>3. Ground(ctl)'
    <3>1. Top(ctl)' = n
      BY <1>6, <2>1 DEF Top
    <3> QED
      BY <1>2, <1>3, <1>4, <1>6, <2>1, <3>1 DEF Ground, Based
  <2>4. Recall(ctl)'
    BY <1>3, <1>5, <1>6, <2>1 DEF Recall, Unloaded
  <2>5. OnBranch(ctl)'
    BY <1>4, <1>5 DEF OnBranch, Branch
  <2>6. Search(ctl)'
    BY <2>1 DEF Search
  <2> QED
    BY <2>2, <2>3, <2>4, <2>5, <2>6 DEF Placed
<1> QED
  BY <1>2, <1>7, <1>8, <1>9, <1>10 DEF Orderliness

\* ProcessBlock: a block in hand is Core's tip.
LEMMA ProcessOrderly ==
  ASSUME Discipline, Inductive, Orderliness, ProcessConnects \/ ProcessReorg \/ ProcessGap
  PROVE  Orderliness' /\ (UNCHANGED storeVars \/ \E b \in Block : Ledger!AppendBlock(b))
<1>1. ctl.at = "process"
  BY DEF ProcessConnects, ProcessReorg, ProcessGap
<1>2. /\ ctl.blk = core /\ ctl.job = "live" /\ ctl.after = "init" /\ ctl.caller = "tip"
      /\ zmq = <<>> /\ ~Unloaded(ctl)
      /\ mem.hash \in Branch(core) \/ coreKeeps <= mem.height
  <2>1. ctl.after \in {"init", "process", "catchup"} /\ ctl.caller \in {"process", "tip"}
    BY DEF Inductive, TypeOK, Control
  <2> QED
    BY <1>1, <2>1 DEF Orderliness, Placed, Shape, OnBranch, Unloaded
<1>3. core \in Block /\ Height[core] \in Nat /\ ctl \in Control
  BY Types
<1>4. CASE ProcessConnects
  <2>1. core \in Branch(core)
    BY DEF Branch
  <2>2. Prev[core] = mem.hash /\ Index(core, mem.height + 1) /\ Advance(mem.height + 1, core)
        /\ ctl' = AtRest("idle", "live") /\ UNCHANGED Elsewhere
    BY <1>2, <1>4 DEF ProcessConnects, Connects
  <2> QED
    BY <1>1, <1>3, <2>1, <2>2, AppendOrderly
<1>5. CASE ProcessReorg
  <2> DEFINE c == [AtRest("check", ctl.job) EXCEPT !.after = "process"]
  <2>1. c.at = "check" /\ c.job = "live" /\ c.after = "process" /\ c.caller = "tip"
    BY <1>2 DEF AtRest
  <2>2. Placed(c)
    <3> HIDE DEF c
    <3> QED
      BY <1>1, <1>2, <2>1, RestPlaced
  <2>3. Goto(c)
    BY <1>5 DEF ProcessReorg
  <2> HIDE DEF c
  <2> QED
    BY <2>2, <2>3, GotoOrderly
<1>6. CASE ProcessGap
  <2> DEFINE c == [ctl EXCEPT !.at = "catchup", !.caller = "process",
                              !.target = Height[ctl.blk] - 1]
  <2>1. /\ c.at = "catchup" /\ c.job = "live" /\ c.after = "init" /\ c.caller = "process"
        /\ c.blk = core /\ c.target = Height[core] - 1
    BY <1>2, <1>3 DEF Control
  <2>2. Goto(c)
    BY <1>6 DEF ProcessGap
  <2> HIDE DEF c
  <2>3. Shape(c)
    BY <1>2, <1>3, <2>1, Loaded DEF Shape
  <2>4. Ground(c) /\ Recall(c)
    BY <1>1, <1>2, <2>1, Loaded DEF Ground, Based, Top, Recall, Unloaded
  <2>5. OnBranch(c) /\ Search(c)
    BY <1>2, <2>1 DEF OnBranch, Search
  <2> QED
    BY <2>2, <2>3, <2>4, <2>5, GotoOrderly DEF Placed
<1> QED
  BY <1>4, <1>5, <1>6

\* CatchUpTo: Core's blocks are appended one by one, up to a height it has.
LEMMA CatchUpOrderly ==
  ASSUME Discipline, Inductive, Orderliness, CatchUpEnd \/ CatchUpStep
  PROVE  Orderliness' /\ (UNCHANGED storeVars \/ \E b \in Block : Ledger!AppendBlock(b))
<1>1. ctl.at = "catchup"
  BY DEF CatchUpEnd, CatchUpStep
<1>2. /\ ctl.after = "init" /\ ctl.target <= Height[core] /\ zmq = <<>> /\ ~Unloaded(ctl)
      /\ ctl.caller = "process" => ctl.blk = core /\ ctl.job = "live"
      /\ ctl.caller = "tip" => mem.hash \in Branch(core)
      /\ mem.hash \in Branch(core) \/ coreKeeps <= mem.height
  <2>1. ctl.after \in {"init", "process", "catchup"}
    BY DEF Inductive, TypeOK, Control
  <2> QED
    BY <1>1, <2>1 DEF Orderliness, Placed, Shape, OnBranch, Unloaded
<1>3. /\ core \in Block /\ Height[core] \in Nat /\ coreKeeps \in Nat /\ ctl \in Control
      /\ ctl.target \in Int /\ ctl.job \in {"startup", "live"}
      /\ mem.height \in Int /\ mem.hash \in Block /\ Height[mem.hash] = mem.height
      /\ mem.height \in Nat /\ ctl.caller \in {"process", "tip"}
  <2>1. ctl.caller \in {"process", "tip"}
    BY Types DEF Control
  <2> QED
    BY <1>2, <2>1, Types, Loaded, TreeAssumption
<1>4. CASE CatchUpEnd
  <2>1. CASE ctl.caller = "process"
    <3> DEFINE c == [AtRest("process", ctl.job) EXCEPT !.blk = ctl.blk]
    <3>1. /\ c.at = "process" /\ c.job = "live" /\ c.after = "init" /\ c.caller = "tip"
          /\ c.blk = core
      BY <1>2, <2>1 DEF AtRest
    <3>2. Goto(c)
      BY <1>4, <2>1 DEF CatchUpEnd, CatchUpDone
    <3> HIDE DEF c
    <3>3. Shape(c)
      BY <1>2, <3>1, Loaded DEF Shape
    <3>4. Ground(c) /\ Recall(c)
      BY <1>1, <1>2, <3>1, Loaded DEF Ground, Based, Top, Recall, Unloaded
    <3>5. OnBranch(c) /\ Search(c)
      BY <1>2, <3>1 DEF OnBranch, Search
    <3> QED
      BY <3>2, <3>3, <3>4, <3>5, GotoOrderly DEF Placed
  <2>2. CASE ctl.caller = "tip"
    <3>1. Placed(TipDone)
      BY <1>1, <1>2, <2>2, RestPlaced, AtRestFields DEF TipDone
    <3>2. Goto(TipDone)
      BY <1>4, <2>2 DEF CatchUpEnd, CatchUpDone
    <3> QED
      BY <3>1, <3>2, GotoOrderly
  <2> QED
    BY <1>3, <2>1, <2>2
<1>5. CASE CatchUpStep
  <2> SUFFICES ASSUME NEW h, h = mem.height + 1, NEW b, b = CoreHash(h)
               PROVE  Orderliness' /\ (UNCHANGED storeVars \/ \E d \in Block : Ledger!AppendBlock(d))
    OBVIOUS
  <2>1. h \in Nat /\ OnCore(h)
    BY <1>2, <1>3, <1>5 DEF CatchUpStep, OnCore, CoreHeight
  <2>2. b \in Block /\ b \in Branch(core)
    BY <1>3, <2>1, CoreHashTrue DEF Branch
  <2>3. CASE ~Served(h)
    <3>1. Fail(CatchUpFailed)
      BY <1>5, <2>3 DEF CatchUpStep
    <3>2. mem.hash \in Branch(core)
      BY <1>2, <1>3, <2>1, <2>3 DEF Served
    <3>3. Placed(AtRest("idle", "live"))
      BY <1>1, <1>2, <3>2, RestPlaced, AtRestFields
    <3>4. CatchUpFailed = Stop \/ CatchUpFailed = AtRest("idle", "live")
      BY DEF CatchUpFailed, TipFailed
    <3>5. AtRest("idle", "live").at # "down"
      BY AtRestFields
    <3> QED
      BY <1>1, <3>1, <3>3, <3>4, <3>5, FailOrderly
  <2>4. CASE Served(h) /\ ~Connects(b)
    <3> DEFINE c == [ctl EXCEPT !.at = "check", !.after = "catchup"]
    <3>1. Goto(c)
      BY <1>5, <2>4 DEF CatchUpStep
    <3>2. /\ c.at = "check" /\ c.after = "catchup" /\ c.caller = ctl.caller
          /\ c.target = ctl.target /\ c.job = ctl.job /\ c.blk = ctl.blk
      BY <1>3 DEF Control
    <3> HIDE DEF c
    <3>3. Shape(c)
      BY <1>2, <3>2, Loaded DEF Shape
    <3>4. Ground(c) /\ Recall(c)
      BY <1>1, <1>2, <3>2, Loaded DEF Ground, Based, Top, Recall, Unloaded
    <3>5. OnBranch(c) /\ Search(c)
      BY <3>2 DEF OnBranch, Search
    <3> QED
      BY <3>1, <3>3, <3>4, <3>5, GotoOrderly DEF Placed
  <2>5. CASE Served(h) /\ Connects(b)
    <3>1. Index(b, h) /\ Advance(h, b) /\ ctl' = ctl /\ UNCHANGED Elsewhere
      BY <1>5, <2>5 DEF CatchUpStep
    <3>2. Prev[b] = mem.hash
      BY <2>5 DEF Connects
    <3> QED
      BY <1>1, <2>2, <3>1, <3>2, AppendOrderly
  <2> QED
    BY <2>3, <2>4, <2>5
<1> QED
  BY <1>4, <1>5

-----------------------------------------------------------------------------
(***************************************************************************)
(* CheckAndHandle.                                                         *)
(***************************************************************************)

\* CheckAndHandle returns a block of Core's branch at which the headers end:
\* whoever called it goes on with that block as the tip.
LEMMA ReturnsOrderly ==
  ASSUME Inductive, Orderliness, ctl.at \in {"check", "rollback"},
         NEW h, NEW b \in Block, NEW cp,
         CheckReturns(h, b, cp), UNCHANGED Elsewhere,
         b \in Branch(core), Height[b] = h, ConfigStart - 1 <= h, h <= Height[core],
         cp.height = h, cp.hash = b, cp.start \in {0, ConfigStart},
         checkpoint' = cp, header' = header, undo' = undo,
         Linked', DOMAIN header = ConfigStart .. h
  PROVE  Orderliness'
<1>1. /\ core' = core /\ coreKeeps' = coreKeeps /\ zmq' = zmq /\ gap' = gap /\ faults' = faults
  BY DEF Elsewhere, coreVars, feedVars
<1>2. /\ zmq = <<>> /\ mem.prune = coreKeeps /\ mem.start \in {0, ConfigStart}
      /\ ctl.caller = "process" => ctl.blk = core /\ ctl.job = "live"
      /\ ctl.after = "catchup" => ctl.target <= Height[core]
  BY DEF Orderliness, Placed, Shape, Recall
<1>3. ctl \in Control /\ ctl.after \in {"init", "process", "catchup"} /\ mem \in Memory
  BY Types DEF Control
<1>4. b # NoHash
  BY TreeAssumption
<1>5. /\ mem'.height = h /\ mem'.hash = b /\ mem'.start \in {0, ConfigStart}
      /\ mem'.prune = mem.prune
  <2>1. CASE ctl.after = "init"
    <3>1. mem' = [mem EXCEPT !.height = cp.height,
                     !.hash = IF cp.hash = NoHash THEN ZeroHash ELSE cp.hash,
                     !.start = IF cp.start > 0 THEN cp.start ELSE mem.start]
      BY <2>1 DEF CheckReturns, LoadState
    <3>2. mem' = [mem EXCEPT !.height = h, !.hash = b,
                     !.start = IF cp.start > 0 THEN cp.start ELSE mem.start]
      BY <1>4, <3>1
    <3>3. (IF cp.start > 0 THEN cp.start ELSE mem.start) \in {0, ConfigStart}
      BY <1>2
    <3> QED
      BY <1>3, <3>2, <3>3 DEF Memory
  <2>2. CASE ctl.after # "init"
    <3>1. mem' = [mem EXCEPT !.height = h, !.hash = b]
      BY <1>4, <2>2 DEF CheckReturns, AdoptResult
    <3> QED
      BY <1>2, <1>3, <3>1 DEF Memory
  <2> QED
    BY <2>1, <2>2
<1>6. \/ ctl'.at = "tip" /\ ctl'.after = "init" /\ ctl'.caller = "tip"
      \/ /\ ctl'.at = "catchup" /\ ctl'.after = "init" /\ ctl'.caller = ctl.caller
         /\ ctl'.target = ctl.target /\ ctl'.job = ctl.job /\ ctl'.blk = ctl.blk
         /\ ctl.after = "catchup"
  <2>1. CASE ctl.after \in {"init", "process"}
    <3>1. ~IsFresh(cp)
      BY <1>4 DEF IsFresh
    <3>2. ctl' = GoTip
      BY <2>1, <3>1 DEF CheckReturns
    <3> QED
      BY <3>2, AtRestFields DEF GoTip
  <2>2. CASE ctl.after = "catchup"
    <3>1. ctl' = [ctl EXCEPT !.at = "catchup", !.after = "init", !.cur = 0, !.fork = NoFork]
      BY <2>2 DEF CheckReturns
    <3> QED
      BY <1>3, <2>2, <3>1 DEF Control
  <2> QED
    BY <1>3, <2>1, <2>2
<1>7. Calm'
  BY <1>1 DEF Orderliness, Calm
<1>8. UndoKept'
  BY <1>1 DEF Orderliness, UndoKept, Branch
<1>9. Shape(ctl)'
  BY <1>1, <1>2, <1>5, <1>6 DEF Shape
<1>10. Ground(ctl)'
  BY <1>1, <1>6 DEF Ground, Based, Top
<1>11. Recall(ctl)'
  BY <1>5, <1>6 DEF Recall, Unloaded
<1>12. OnBranch(ctl)' /\ Search(ctl)'
  BY <1>1, <1>5, <1>6 DEF OnBranch, Search, Branch
<1> QED
  BY <1>7, <1>8, <1>9, <1>10, <1>11, <1>12 DEF Orderliness, Placed

\* A checkpoint is on Core's branch, or the search for the fork begins.
LEMMA CheckOrderly ==
  ASSUME Discipline, Inductive, Orderliness,
         CheckFresh \/ CheckUnknown \/ CheckMatch \/ CheckMismatch
  PROVE  Orderliness' /\ UNCHANGED storeVars
<1>1. ctl.at = "check"
  BY DEF CheckFresh, CheckUnknown, CheckMatch, CheckMismatch
<1>2. /\ core \in Block /\ Height[core] \in Nat /\ ctl \in Control /\ mem \in Memory
      /\ checkpoint.height \in Int
      /\ checkpoint.hash \in Block => Height[checkpoint.hash] = checkpoint.height
  BY Types
<1>3. /\ zmq = <<>> /\ mem.prune = coreKeeps /\ mem.start \in {0, ConfigStart}
  BY <1>1 DEF Orderliness, Placed, Shape, Recall
<1>4. CASE CheckFresh
  <2>1. /\ Unbased(ctl) /\ checkpoint.height = 0 /\ checkpoint.hash = NoHash
        /\ checkpoint.start = 0
    <3>1. checkpoint.hash = NoHash
      BY <1>4 DEF CheckFresh, Fresh, IsFresh
    <3>2. Unbased(ctl)
      BY <3>1, TreeAssumption DEF Orderliness, Placed, Ground, Based
    <3> QED
      BY <3>1, <3>2 DEF Unbased, FreshCheckpoint
  <2>2. ctl.after = "init" /\ mem.height = 0 /\ mem.hash = ZeroHash
    BY <1>1, <2>1 DEF Unbased, Orderliness, Placed, Recall, Unloaded
  <2>3. /\ UNCHANGED storeVars
        /\ UNCHANGED <<checkpoint, header, undo, core, coreKeeps, zmq, gap, faults>>
    BY <1>4 DEF CheckFresh, storeVars, Elsewhere, coreVars, feedVars
  <2>4. /\ mem'.height = 0 /\ mem'.hash = ZeroHash /\ mem'.start = mem.start
        /\ mem'.prune = mem.prune
    <3>1. mem' = [mem EXCEPT !.height = checkpoint.height,
                     !.hash = IF checkpoint.hash = NoHash THEN ZeroHash ELSE checkpoint.hash,
                     !.start = IF checkpoint.start > 0 THEN checkpoint.start ELSE mem.start]
      BY <1>4, <2>2 DEF CheckFresh, CheckReturns, LoadState
    <3>2. mem' = [mem EXCEPT !.height = 0, !.hash = ZeroHash, !.start = mem.start]
      BY <2>1, <3>1
    <3> QED
      BY <1>2, <3>2 DEF Memory
  <2>5. ctl'.at = "setstart" /\ ctl'.after = "init" /\ ctl'.caller = "tip"
    <3>1. ctl' = [AtRest("setstart", ctl.job) EXCEPT !.target = ctl.target]
      BY <1>4, <2>2 DEF CheckFresh, CheckReturns, Fresh
    <3> QED
      BY <3>1 DEF AtRest
  <2>6. Calm'
    BY <2>3 DEF Orderliness, Calm
  <2>7. Shape(ctl)'
    BY <1>3, <2>3, <2>4, <2>5 DEF Shape
  <2>8. Ground(ctl)'
    BY <2>1, <2>3, <2>5 DEF Ground, Unbased, FreshCheckpoint
  <2>9. Recall(ctl)'
    BY <1>3, <2>4, <2>5 DEF Recall, Unloaded
  <2>10. OnBranch(ctl)' /\ Search(ctl)'
    BY <2>5 DEF OnBranch, Search
  <2> QED
    BY <2>3, <2>6, <2>7, <2>8, <2>9, <2>10, IndexFrame DEF Orderliness, Placed
<1>5. CASE CheckUnknown \/ CheckMatch \/ CheckMismatch
  <2>1. Based(ctl)
    <3>1. ~Fresh
      BY <1>5 DEF CheckUnknown, CheckMatch, CheckMismatch
    <3> QED
      BY <3>1 DEF Orderliness, Placed, Ground, Unbased, Fresh, IsFresh, FreshCheckpoint
  <2>2. /\ checkpoint.hash \in Block /\ Height[checkpoint.hash] = checkpoint.height
        /\ ConfigStart - 1 <= checkpoint.height /\ checkpoint.height <= Height[core]
        /\ checkpoint.start \in {0, ConfigStart}
        /\ DOMAIN header = ConfigStart .. checkpoint.height
    BY <1>1, <1>2, <2>1 DEF Based, Top
  <2>3. OnCore(checkpoint.height)
    BY <1>2, <2>2, TreeAssumption DEF OnCore, CoreHeight
  <2>4. CoreHash(checkpoint.height) = checkpoint.hash <=> checkpoint.hash \in Branch(core)
    BY <1>2, <2>2, <2>3, CoreHashOnBranch
  <2>5. CASE CheckUnknown
    BY <2>3, <2>5 DEF CheckUnknown
  <2>6. CASE CheckMatch
    <3>1. /\ CheckReturns(checkpoint.height, checkpoint.hash, checkpoint)
          /\ UNCHANGED storeVars /\ UNCHANGED Elsewhere
          /\ checkpoint' = checkpoint /\ header' = header /\ undo' = undo
      BY <2>6 DEF CheckMatch, storeVars
    <3>2. checkpoint.hash \in Branch(core)
      BY <2>4, <2>6 DEF CheckMatch
    <3>3. Linked'
      BY <3>1 DEF Orderliness, Linked, Branch
    <3> QED
      BY <1>1, <2>2, <3>1, <3>2, <3>3, ReturnsOrderly
  <2>7. CASE CheckMismatch
    <3> DEFINE n == checkpoint.height - 1
               c == [ctl EXCEPT !.at = "fork", !.cur = n]
    <3>1. checkpoint.hash \notin Branch(core)
      BY <2>4, <2>7 DEF CheckMismatch
    <3>2. Goto(c)
      BY <2>7 DEF CheckMismatch
    <3>3. /\ c.at = "fork" /\ c.cur = n /\ c.job = ctl.job /\ c.after = ctl.after
          /\ c.caller = ctl.caller /\ c.blk = ctl.blk /\ c.target = ctl.target
      BY <1>2 DEF Control
    <3> HIDE DEF c
    <3>4. Shape(c)
      BY <1>1, <3>3 DEF Orderliness, Placed, Shape
    <3>5. Ground(c)
      BY <1>1, <2>1, <3>3 DEF Ground, Based, Top
    <3>6. Recall(c)
      BY <1>1, <3>3 DEF Orderliness, Placed, Recall, Unloaded
    <3>7. OnBranch(c)
      BY <3>3 DEF OnBranch
    <3>8. Search(c)
      <4>1. ASSUME NEW h \in DOMAIN header, n < h PROVE header[h] \notin Branch(core)
        <5>1. h = checkpoint.height
          BY <1>2, <2>2, <4>1
        <5>2. header[h] = checkpoint.hash
          BY <2>2, <5>1, TopHeader DEF Orderliness
        <5> QED
          BY <3>1, <5>2
      <4>2. n < checkpoint.height
        BY <1>2
      <4> HIDE DEF n
      <4> QED
        BY <3>1, <3>3, <4>1, <4>2 DEF Search
    <3> QED
      BY <3>2, <3>4, <3>5, <3>6, <3>7, <3>8, GotoOrderly DEF Placed
  <2> QED
    BY <1>5, <2>5, <2>6, <2>7
<1> QED
  BY <1>4, <1>5

\* The search looks at stored heights within the depth limit only, and ends
\* before both bounds.
LEMMA SearchInBounds ==
  ASSUME Discipline, Inductive, Orderliness, ctl.at = "fork"
  PROVE  /\ Based(ctl) /\ ctl.cur \in DOMAIN header /\ InSearch
         /\ OnCore(ctl.cur) /\ ctl.cur < checkpoint.height
         /\ ctl.cur \in Int /\ DOMAIN header = ConfigStart .. checkpoint.height
<1>1. Based(ctl)
  BY DEF Orderliness, Placed, Ground, Unbased
<1>2. /\ core \in Block /\ Height[core] \in Nat /\ checkpoint.height \in Int /\ ctl.cur \in Int
      /\ Height[checkpoint.hash] = checkpoint.height /\ checkpoint.start \in Int
      /\ \A h \in DOMAIN header : header[h] \in Block /\ Height[header[h]] = h
  BY <1>1, Types DEF Based
<1>3. /\ checkpoint.hash \in Block
      /\ ConfigStart - 1 <= checkpoint.height /\ checkpoint.height <= Height[core]
      /\ checkpoint.start \in {0, ConfigStart}
      /\ DOMAIN header = ConfigStart .. checkpoint.height
  BY <1>1 DEF Based, Top
<1>4. /\ ConfigStart \in Nat /\ ConfigStart >= 1 /\ MaxReorgDepth \in Nat
  BY Constants
<1>5. /\ checkpoint.hash \notin Branch(core) /\ ctl.cur < checkpoint.height
      /\ \A h \in DOMAIN header : ctl.cur < h => header[h] \notin Branch(core)
  BY DEF Orderliness, Placed, Search
<1>6. ConfigStart < checkpoint.height
  <2>1. CASE checkpoint.height <= ConfigStart
    BY <1>2, <1>3, <1>5, <2>1, LowOnBranch
  <2> QED
    BY <1>2, <1>4, <2>1
<1>7. ConfigStart <= ctl.cur
  <2>1. ConfigStart \in DOMAIN header
    BY <1>2, <1>3, <1>4, <1>6
  <2>2. header[ConfigStart] \in Block /\ Height[header[ConfigStart]] = ConfigStart
    BY <1>2, <2>1
  <2>3. ConfigStart <= ConfigStart /\ ConfigStart <= Height[core]
    BY <1>2, <1>3, <1>4, <1>6
  <2>4. header[ConfigStart] \in Branch(core)
    BY <1>2, <2>2, <2>3, LowOnBranch
  <2> QED
    BY <1>2, <1>4, <1>5, <2>1, <2>4
<1>8. ctl.cur \in DOMAIN header
  BY <1>2, <1>3, <1>5, <1>7
<1>9. checkpoint.height - ctl.cur <= MaxReorgDepth
  <2> SUFFICES ASSUME checkpoint.height - ctl.cur > MaxReorgDepth PROVE FALSE
    BY <1>2, <1>4
  <2> DEFINE m == ctl.cur + 1
  <2>1. m \in Int /\ ctl.cur < m /\ m + MaxReorgDepth <= checkpoint.height
        /\ m + MaxReorgDepth <= Height[core] /\ m \in ConfigStart .. checkpoint.height
    BY <1>2, <1>3, <1>4, <1>7
  <2> HIDE DEF m
  <2>2. m \in DOMAIN header
    BY <1>3, <2>1
  <2>3. header[m] \in Branch(checkpoint.hash) /\ Height[header[m]] = m
    BY <1>2, <2>2 DEF Orderliness, Linked
  <2>4. header[m] \in Branch(core)
    BY <1>2, <1>3, <2>1, <2>3, Shallow
  <2> QED
    BY <1>5, <2>1, <2>2, <2>4
<1>10. ctl.cur >= Boundary
  BY <1>2, <1>3, <1>4, <1>7 DEF Boundary
<1>11. OnCore(ctl.cur)
  BY <1>2, <1>3, <1>4, <1>5, <1>7 DEF OnCore, CoreHeight
<1> QED
  BY <1>1, <1>2, <1>3, <1>5, <1>8, <1>9, <1>10, <1>11 DEF InSearch

\* findForkPoint: one height further down, or the fork point is found.
LEMMA ForkOrderly ==
  ASSUME Discipline, Inductive, Orderliness, ForkStep \/ ForkBoundary
  PROVE  Orderliness' /\ UNCHANGED storeVars
<1>1. ctl.at = "fork"
  BY DEF ForkStep, ForkBoundary, InSearch
<1>2. /\ Based(ctl) /\ ctl.cur \in DOMAIN header /\ InSearch
      /\ OnCore(ctl.cur) /\ ctl.cur < checkpoint.height
      /\ ctl.cur \in Int /\ DOMAIN header = ConfigStart .. checkpoint.height
  BY <1>1, SearchInBounds
<1>3. /\ core \in Block /\ ctl \in Control /\ checkpoint.height \in Int
      /\ header[ctl.cur] \in Block /\ Height[header[ctl.cur]] = ctl.cur
      /\ MaxReorgDepth \in Nat
  BY <1>2, Types, Constants
<1>4. OurBlockHash(ctl.cur) = header[ctl.cur] /\ header[ctl.cur] # NoHash
  BY <1>2, <1>3, OursIsHeader, TreeAssumption DEF Orderliness, Based
<1>5. CoreHash(ctl.cur) = header[ctl.cur] <=> header[ctl.cur] \in Branch(core)
  BY <1>2, <1>3, CoreHashOnBranch
<1>6. /\ checkpoint.hash \notin Branch(core)
      /\ \A h \in DOMAIN header : ctl.cur < h => header[h] \notin Branch(core)
  BY <1>1 DEF Orderliness, Placed, Search
<1>7. ForkStep
  BY <1>2 DEF ForkBoundary
\* The demands of a place within the same call.
<1>8. ASSUME NEW c, c.at \in {"fork", "rollback"}, c.job = ctl.job, c.after = ctl.after,
             c.caller = ctl.caller, c.blk = ctl.blk, c.target = ctl.target,
             c.at = "rollback" => c.cur = checkpoint.height,
             Goto(c), Search(c)
      PROVE  Orderliness' /\ UNCHANGED storeVars
  <2>1. Shape(c)
    BY <1>1, <1>8 DEF Orderliness, Placed, Shape
  <2>2. Ground(c)
    BY <1>1, <1>2, <1>8 DEF Ground, Based, Top
  <2>3. Recall(c)
    BY <1>1, <1>8 DEF Orderliness, Placed, Recall, Unloaded
  <2>4. OnBranch(c)
    BY <1>8 DEF OnBranch
  <2> QED
    BY <1>8, <2>1, <2>2, <2>3, <2>4, GotoOrderly DEF Placed
<1>9. CASE header[ctl.cur] \notin Branch(core)
  <2> DEFINE n == ctl.cur - 1
             c == [ctl EXCEPT !.cur = n]
  <2>1. Goto(c)
    BY <1>2, <1>4, <1>5, <1>7, <1>9 DEF ForkStep
  <2>2. /\ c.at = "fork" /\ c.cur = n /\ c.job = ctl.job /\ c.after = ctl.after
        /\ c.caller = ctl.caller /\ c.blk = ctl.blk /\ c.target = ctl.target
    BY <1>1, <1>3 DEF Control
  <2>3. ASSUME NEW h \in DOMAIN header, n < h PROVE header[h] \notin Branch(core)
    <3>1. h = ctl.cur \/ ctl.cur < h
      BY <1>2, <2>3
    <3> QED
      BY <1>6, <1>9, <3>1
  <2>4. n < checkpoint.height
    BY <1>2, <1>3
  <2> HIDE DEF c, n
  <2>5. Search(c)
    BY <1>6, <2>2, <2>3, <2>4 DEF Search
  <2> QED
    BY <1>8, <2>1, <2>2, <2>5
<1>10. CASE header[ctl.cur] \in Branch(core)
  <2> DEFINE f == [height |-> ctl.cur, hash |-> header[ctl.cur]]
             c == [ctl EXCEPT !.at = "rollback", !.cur = checkpoint.height, !.fork = f]
  <2>1. ForkFound(ctl.cur, header[ctl.cur])
    BY <1>2, <1>4, <1>5, <1>7, <1>10 DEF ForkStep
  <2>2. Goto(c)
    <3>1. ~(checkpoint.height - ctl.cur > MaxReorgDepth)
      BY <1>2, <1>3 DEF InSearch
    <3> QED
      BY <2>1, <3>1 DEF ForkFound
  <2>3. /\ c.at = "rollback" /\ c.cur = checkpoint.height /\ c.job = ctl.job
        /\ c.after = ctl.after /\ c.caller = ctl.caller /\ c.blk = ctl.blk
        /\ c.target = ctl.target /\ c.fork = f
    BY <1>1, <1>3 DEF Control
  <2>4. c.fork.height = ctl.cur /\ c.fork.hash = header[ctl.cur]
    BY <2>3
  <2> HIDE DEF c, f
  <2>5. Search(c)
    BY <1>2, <1>3, <1>6, <1>10, <2>3, <2>4 DEF Search
  <2> QED
    BY <1>8, <2>2, <2>3, <2>5
<1> QED
  BY <1>9, <1>10

\* rollbackToHeight has an undo record for every block above the fork.
LEMMA RollbackFacts ==
  ASSUME Discipline, Inductive, Orderliness, ctl.at = "rollback"
  PROVE  /\ Based(ctl) /\ DOMAIN header = ConfigStart .. ctl.cur
         /\ ctl.cur \in Int /\ ctl.fork.height \in Int /\ ConfigStart \in Nat
         /\ ctl.fork.height \in DOMAIN header /\ header[ctl.fork.height] = ctl.fork.hash
         /\ ctl.fork.hash \in Branch(core) /\ ctl.fork.hash \in Block
         /\ Height[ctl.fork.hash] = ctl.fork.height
         /\ ctl.fork.height < checkpoint.height
         /\ ctl.fork.height <= ctl.cur /\ ctl.cur <= checkpoint.height
         /\ ctl.cur \in DOMAIN header /\ OurBlockHash(ctl.cur) = header[ctl.cur]
         /\ ctl.fork.height < ctl.cur => <<ctl.cur, header[ctl.cur]>> \in DOMAIN undo
<1>1. Based(ctl) /\ DOMAIN header = ConfigStart .. ctl.cur
  BY DEF Orderliness, Placed, Ground, Unbased, Based, Top
<1>2. /\ ctl.cur \in Int /\ ctl.fork.height \in Int /\ ConfigStart \in Nat
      /\ \A h \in DOMAIN header : header[h] \in Block /\ Height[header[h]] = h
  BY Types, Constants
<1>3. /\ ctl.fork.height \in DOMAIN header /\ header[ctl.fork.height] = ctl.fork.hash
      /\ ctl.fork.hash \in Branch(core)
      /\ ctl.fork.height < checkpoint.height
      /\ ctl.fork.height <= ctl.cur /\ ctl.cur <= checkpoint.height
      /\ \A h \in DOMAIN header : ctl.fork.height < h => header[h] \notin Branch(core)
  BY DEF Orderliness, Placed, Search
<1>4. ctl.fork.hash \in Block /\ Height[ctl.fork.hash] = ctl.fork.height
  BY <1>2, <1>3
<1>5. ctl.cur \in DOMAIN header
  BY <1>1, <1>2, <1>3
<1>6. OurBlockHash(ctl.cur) = header[ctl.cur]
  BY <1>1, <1>5, OursIsHeader DEF Orderliness, Based
<1>7. ctl.fork.height < ctl.cur => <<ctl.cur, header[ctl.cur]>> \in DOMAIN undo
  BY <1>3, <1>5 DEF Orderliness, UndoKept
<1> QED
  BY <1>1, <1>2, <1>3, <1>4, <1>5, <1>6, <1>7

\* One block is taken off the top.
LEMMA RollbackStepOrderly ==
  ASSUME Discipline, Inductive, Orderliness, RollbackStep
  PROVE  Orderliness' /\ \E h \in DOMAIN header : Ledger!TakeOff(h)
<1>1. ctl.at = "rollback" /\ ctl.cur > ctl.fork.height
  BY DEF RollbackStep
<1> SUFFICES ASSUME NEW n, n = ctl.cur, NEW b, b = header[n]
             PROVE  Orderliness' /\ \E h \in DOMAIN header : Ledger!TakeOff(h)
  OBVIOUS
<1>2. /\ Based(ctl) /\ DOMAIN header = ConfigStart .. n
      /\ n \in Int /\ ctl.fork.height \in Int /\ ConfigStart \in Nat
      /\ ctl.fork.height \in DOMAIN header /\ header[ctl.fork.height] = ctl.fork.hash
      /\ ctl.fork.hash \in Branch(core)
      /\ ctl.fork.height < checkpoint.height
      /\ ctl.fork.height < n /\ n <= checkpoint.height
      /\ n \in DOMAIN header /\ OurBlockHash(n) = b
  BY <1>1, RollbackFacts
<1>3. RollbackBlock(n, b) /\ UNCHANGED <<mem, overlay, Elsewhere>>
  BY <1>2 DEF RollbackStep
<1>4. /\ header' = Without(header, {n}) /\ undo' = Without(undo, {<<n, b>>})
      /\ checkpoint' = checkpoint
  BY <1>3 DEF RollbackBlock, DeleteUndo
<1>5. /\ DOMAIN header' = DOMAIN header \ {n}
      /\ \A h \in DOMAIN header' : header'[h] = header[h]
      /\ DOMAIN undo' = DOMAIN undo \ {<<n, b>>}
  BY <1>4 DEF Without, Restrict
<1>6. UNCHANGED <<core, coreKeeps, zmq, gap, faults, mem>>
  BY <1>3 DEF Elsewhere, coreVars, feedVars
<1>7. DOMAIN header' = ConfigStart .. (n - 1)
  BY <1>2, <1>5
<1>8. /\ ctl'.at = "rollback" /\ ctl'.cur = n - 1 /\ ctl'.fork = ctl.fork
      /\ ctl'.job = ctl.job /\ ctl'.after = ctl.after /\ ctl'.caller = ctl.caller
      /\ ctl'.blk = ctl.blk /\ ctl'.target = ctl.target
  <2> DEFINE m == n - 1
  <2>1. ctl' = [ctl EXCEPT !.cur = m]
    BY DEF RollbackStep
  <2> HIDE DEF m
  <2>2. ctl'.cur = m /\ ctl'.at = ctl.at /\ ctl'.fork = ctl.fork
        /\ ctl'.job = ctl.job /\ ctl'.after = ctl.after /\ ctl'.caller = ctl.caller
        /\ ctl'.blk = ctl.blk /\ ctl'.target = ctl.target
    BY <2>1, Types DEF Control
  <2> QED
    BY <1>1, <2>2 DEF m
<1>9. Calm'
  BY <1>6 DEF Orderliness, Calm
<1>10. Linked'
  <2>1. \A h \in DOMAIN header' : header'[h] \in Branch(checkpoint.hash)
    BY <1>5 DEF Orderliness, Linked
  <2>2. ASSUME NEW k \in DOMAIN undo' PROVE k[1] \in DOMAIN header' /\ header'[k[1]] = k[2]
    <3>1. k \in DOMAIN undo /\ k # <<n, b>>
      BY <1>5
    <3>2. k[1] \in DOMAIN header /\ header[k[1]] = k[2] /\ k = <<k[1], k[2]>>
      BY <3>1, Types DEF Orderliness, Linked
    <3>3. k[1] # n
      BY <3>1, <3>2
    <3> QED
      BY <1>5, <3>2, <3>3
  <2> QED
    BY <1>4, <2>1, <2>2 DEF Linked, Branch
<1>11. UndoKept'
  <2> SUFFICES ASSUME NEW h \in DOMAIN header'
               PROVE  \/ <<h, header'[h]>> \in DOMAIN undo'
                      \/ h + MaxReorgDepth <= Height[core] /\ header'[h] \in Branch(core)
    BY <1>6 DEF UndoKept, Branch
  <2>1. h \in DOMAIN header /\ h # n /\ header'[h] = header[h]
    BY <1>5
  <2>2. <<h, header[h]>> # <<n, b>>
    BY <2>1
  <2> QED
    BY <1>5, <2>1, <2>2 DEF Orderliness, UndoKept
<1>12. Shape(ctl)'
  BY <1>1, <1>6, <1>8 DEF Orderliness, Placed, Shape
<1>13. Ground(ctl)'
  BY <1>2, <1>4, <1>6, <1>7, <1>8 DEF Ground, Based, Top
<1>14. Recall(ctl)'
  BY <1>1, <1>4, <1>6, <1>8 DEF Orderliness, Placed, Recall, Unloaded
<1>15. OnBranch(ctl)'
  BY <1>8 DEF OnBranch
<1>16. Search(ctl)'
  <2>1. ASSUME NEW h \in DOMAIN header', ctl.fork.height < h PROVE header'[h] \notin Branch(core)
    BY <1>1, <1>5, <2>1 DEF Orderliness, Placed, Search
  <2>2. ctl.fork.height <= n - 1 /\ n - 1 <= checkpoint.height /\ ctl.fork.height # n
    BY <1>2, Types
  <2>3. ctl.fork.height \in DOMAIN header' /\ header'[ctl.fork.height] = ctl.fork.hash
    BY <1>2, <1>5, <2>2
  <2> QED
    BY <1>2, <1>4, <1>6, <1>8, <2>1, <2>2, <2>3 DEF Search, Branch
<1>17. Ledger!TakeOff(n)
  <2>1. Ledger!IsTop(n)
    BY <1>2 DEF Ledger!IsTop, Ledger!Stored
  <2>2. Ledger!RollbackBlock(n, b)
    BY <1>3 DEF RollbackBlock, Ledger!RollbackBlock, RestoreOutputs, Ledger!RestoreOutputs,
       DeleteHistory, Ledger!DeleteHistory, DeleteUndo, Ledger!DeleteUndo,
       Without, Ledger!Without, Restrict, Ledger!Restrict
  <2> QED
    BY <2>1, <2>2 DEF Ledger!TakeOff
<1> QED
  BY <1>2, <1>9, <1>10, <1>11, <1>12, <1>13, <1>14, <1>15, <1>16, <1>17
  DEF Orderliness, Placed

\* The last block of the rollback is off: the checkpoint is lowered to the
\* fork point, and CheckAndHandle returns.
LEMMA RollbackDoneOrderly ==
  ASSUME Discipline, Inductive, Orderliness, RollbackDone
  PROVE  Orderliness' /\ \E b \in Block : Ledger!LowerCheckpoint(b)
<1>1. ctl.at = "rollback" /\ ctl.cur <= ctl.fork.height
  BY DEF RollbackDone
<1> SUFFICES ASSUME NEW n, n = ctl.fork.height, NEW b, b = ctl.fork.hash
             PROVE  Orderliness' /\ \E d \in Block : Ledger!LowerCheckpoint(d)
  OBVIOUS
<1> DEFINE cp == [height |-> n, hash |-> b, start |-> 0]
<1>2. /\ Based(ctl) /\ DOMAIN header = ConfigStart .. n
      /\ n \in Int /\ ConfigStart \in Nat /\ ctl.cur = n
      /\ n \in DOMAIN header /\ header[n] = b
      /\ b \in Branch(core) /\ b \in Block /\ Height[b] = n
      /\ n < checkpoint.height /\ OurBlockHash(n) = b
  BY <1>1, RollbackFacts
<1>3. b # NoHash
  BY <1>2, TreeAssumption
<1>4. /\ SaveCheckpoint(cp) /\ CheckReturns(n, b, cp) /\ UNCHANGED Elsewhere
  BY <1>2, <1>3 DEF RollbackDone
<1>5. checkpoint' = cp /\ header' = header /\ undo' = undo
  BY <1>4 DEF SaveCheckpoint
<1>6. cp.height = n /\ cp.hash = b /\ cp.start = 0
  OBVIOUS
<1>7. /\ checkpoint.hash \in Block /\ Height[checkpoint.hash] = checkpoint.height
      /\ checkpoint.height <= Height[core] /\ checkpoint.height \in Int /\ Height[core] \in Nat
  BY <1>2, Types DEF Based
<1>8. ConfigStart - 1 <= n /\ n <= Height[core]
  BY <1>2, <1>7
<1>9. Linked'
  <2>1. ASSUME NEW h \in DOMAIN header PROVE header[h] \in Branch(b)
    <3>1. header[h] \in Branch(checkpoint.hash) /\ b \in Branch(checkpoint.hash)
      BY <1>2 DEF Orderliness, Linked
    <3>2. Height[header[h]] = h /\ h <= n
      BY <1>2, Types
    <3> QED
      BY <1>2, <1>7, <3>1, <3>2, BranchSplit
  <2>2. \A k \in DOMAIN undo : k[1] \in DOMAIN header /\ header[k[1]] = k[2]
    BY DEF Orderliness, Linked
  <2> QED
    BY <1>5, <1>6, <2>1, <2>2 DEF Linked, Branch
<1>10. Orderliness'
  <2> HIDE DEF cp
  <2> QED
    BY <1>1, <1>2, <1>4, <1>5, <1>6, <1>8, <1>9, ReturnsOrderly
<1>11. Ledger!LowerCheckpoint(b)
  <2>1. checkpoint # Ledger!FreshCheckpoint
    BY <1>7, TreeAssumption DEF Ledger!FreshCheckpoint
  <2>2. Ledger!IsTop(Height[b]) /\ header[Height[b]] = b /\ Height[b] <= checkpoint.height
    BY <1>2, <1>7 DEF Ledger!IsTop, Ledger!Stored
  <2>3. Ledger!SaveCheckpoint([height |-> Height[b], hash |-> b, start |-> 0])
    BY <1>2, <1>4 DEF SaveCheckpoint, Ledger!SaveCheckpoint
  <2> QED
    BY <2>1, <2>2, <2>3 DEF Ledger!LowerCheckpoint
<1> QED
  BY <1>2, <1>10, <1>11

\* A rollback is never stuck for want of an undo record.
LEMMA NeverStuck ==
  ASSUME Discipline, Inductive, Orderliness, RollbackStuck
  PROVE  FALSE
BY RollbackFacts DEF RollbackStuck

-----------------------------------------------------------------------------
(***************************************************************************)
(* Startup and the main loop.                                              *)
(***************************************************************************)

\* The process starts with an empty memory.
LEMMA StartOrderly ==
  ASSUME Discipline, Inductive, Orderliness, StartServer
  PROVE  Orderliness' /\ UNCHANGED storeVars
<1>1. /\ ctl.at = "down" /\ UNCHANGED storeVars
      /\ UNCHANGED <<checkpoint, header, undo, core, coreKeeps, zmq, gap, faults>>
  BY DEF StartServer, storeVars, Elsewhere, coreVars, feedVars
<1>2. /\ ctl'.at = "check" /\ ctl'.after = "init" /\ ctl'.caller = "tip"
  BY DEF StartServer, AtRest
<1>3. mem'.height = 0 /\ mem'.hash = ZeroHash /\ mem'.start = 0 /\ mem'.prune = coreKeeps
  BY Types DEF StartServer, NewMemory
<1>4. zmq = <<>>
  BY <1>1 DEF Orderliness, Placed, Shape
<1>5. Calm'
  BY <1>1 DEF Orderliness, Calm
<1>6. Shape(ctl)'
  BY <1>1, <1>2, <1>3, <1>4 DEF Shape
<1>7. Ground(ctl)'
  BY <1>1, <1>2 DEF Orderliness, Placed, Ground, Based, Unbased, Top, FreshCheckpoint
<1>8. Recall(ctl)'
  BY <1>2, <1>3 DEF Recall, Unloaded
<1>9. OnBranch(ctl)' /\ Search(ctl)'
  BY <1>2 DEF OnBranch, Search
<1> QED
  BY <1>1, <1>5, <1>6, <1>7, <1>8, <1>9, IndexFrame DEF Orderliness, Placed

\* SetStartHeight makes Core's block below the start height the checkpoint.
LEMMA SetStartOrderly ==
  ASSUME Discipline, Inductive, Orderliness, SetStartHeight
  PROVE  Orderliness' /\ (UNCHANGED storeVars \/ \E b \in Block : Ledger!SetStart(b))
<1>1. ctl.at = "setstart"
  BY DEF SetStartHeight
<1>2. ConfigStart \in Nat /\ ConfigStart >= 1
  BY Constants
<1> SUFFICES ASSUME NEW s, s = ConfigStart, NEW n, n = s - 1, NEW b, b = CoreHash(n)
             PROVE  Orderliness' /\ (UNCHANGED storeVars \/ \E d \in Block : Ledger!SetStart(d))
  BY <1>2
<1>3. /\ Unbased(ctl) /\ zmq = <<>> /\ mem.prune = coreKeeps
      /\ mem.height = 0 /\ mem.hash = ZeroHash
  BY <1>1 DEF Orderliness, Placed, Ground, Based, Shape, Recall, Unloaded
<1>4. core \in Block /\ Height[core] \in Nat /\ mem \in Memory
  BY Types
<1>5. s \in Nat /\ s # 0 /\ s # -1 /\ n \in Nat /\ n + 1 = s
  BY <1>2
<1>6. CASE ~OnCore(n)
  <2>1. Fail(Stop)
    BY <1>5, <1>6 DEF SetStartHeight
  <2> QED
    BY <1>1, <2>1, FailOrderly
<1>7. CASE OnCore(n)
  <2> DEFINE cp == [height |-> n, hash |-> b, start |-> s]
  <2>1. b \in Block /\ Height[b] = n /\ b \in Branch(core) /\ n <= Height[core]
    BY <1>4, <1>5, <1>7, CoreHashTrue DEF Branch, OnCore, CoreHeight
  <2>2. /\ SaveCheckpoint(cp)
        /\ mem' = [mem EXCEPT !.height = n, !.hash = b, !.start = s]
        /\ ctl' = GoTip /\ UNCHANGED Elsewhere
    BY <1>5, <1>7 DEF SetStartHeight
  <2>3. /\ checkpoint'.height = n /\ checkpoint'.hash = b /\ checkpoint'.start = s
        /\ checkpoint' = cp /\ header' = header /\ undo' = undo
    BY <2>2 DEF SaveCheckpoint
  <2>4. UNCHANGED <<core, coreKeeps, zmq, gap, faults>>
    BY <2>2 DEF Elsewhere, coreVars, feedVars
  <2>5. mem'.height = n /\ mem'.hash = b /\ mem'.start = s /\ mem'.prune = mem.prune
    BY <1>4, <2>2 DEF Memory
  <2>6. ctl'.at = "tip" /\ ctl'.after = "init" /\ ctl'.caller = "tip"
    BY <2>2, AtRestFields DEF GoTip
  <2>7. DOMAIN header = {}
    BY <1>3 DEF Unbased
  <2>8. Calm'
    BY <2>4 DEF Orderliness, Calm
  <2>9. Linked' /\ UndoKept'
    BY <2>3, <2>7 DEF Orderliness, Linked, UndoKept
  <2>10. Shape(ctl)'
    BY <1>3, <2>4, <2>5, <2>6 DEF Shape
  <2>11. Ground(ctl)'
    <3>1. ConfigStart .. n = {}
      BY <1>5
    <3> QED
      BY <1>2, <1>5, <2>1, <2>3, <2>4, <2>6, <2>7, <3>1 DEF Ground, Based, Top
  <2>12. Recall(ctl)'
    BY <2>3, <2>5, <2>6 DEF Recall, Unloaded
  <2>13. OnBranch(ctl)' /\ Search(ctl)'
    BY <2>1, <2>4, <2>5, <2>6 DEF OnBranch, Search, Branch
  <2>14. Ledger!SetStart(b)
    <3>1. checkpoint = Ledger!FreshCheckpoint
      BY <1>3 DEF Unbased, FreshCheckpoint, Ledger!FreshCheckpoint
    <3>2. Ledger!SaveCheckpoint([height |-> Height[b], hash |-> b, start |-> Height[b] + 1])
      BY <1>5, <2>1, <2>2 DEF SaveCheckpoint, Ledger!SaveCheckpoint
    <3> QED
      BY <3>1, <3>2 DEF Ledger!SetStart
  <2> QED
    BY <2>1, <2>8, <2>9, <2>10, <2>11, <2>12, <2>13, <2>14 DEF Orderliness, Placed
<1> QED
  BY <1>6, <1>7

\* The main loop takes a block message, which is Core's tip, or looks at
\* Core's height when there is none.
LEMMA TakeOrderly ==
  ASSUME Discipline, Inductive, Orderliness, TakeBlock \/ TakeGap \/ TakeTick
  PROVE  Orderliness' /\ UNCHANGED storeVars
<1>1. ctl.at = "idle"
  BY DEF TakeBlock, TakeGap, TakeTick
<1>2. /\ ctl.job = "live" /\ gap = FALSE /\ ~Unloaded(ctl)
      /\ zmq = <<>> => mem.hash \in Branch(core)
      /\ zmq # <<>> => zmq = <<core>>
      /\ mem.hash \in Branch(core) \/ coreKeeps <= mem.height
  BY <1>1 DEF Orderliness, Calm, Placed, Shape, OnBranch, Unloaded
<1>3. CASE TakeBlock
  <2>1. /\ zmq = <<core>>
        /\ ctl' = [AtRest("process", "live") EXCEPT !.blk = Head(zmq)]
        /\ zmq' = Tail(zmq)
        /\ UNCHANGED storeVars
        /\ UNCHANGED <<checkpoint, header, undo, core, coreKeeps, gap, mem, faults>>
    BY <1>2, <1>3 DEF TakeBlock, storeVars, coreVars
  <2>2. Head(zmq) = core /\ zmq' = <<>>
    BY <2>1
  <2>3. ctl'.at = "process" /\ ctl'.job = "live" /\ ctl'.after = "init" /\ ctl'.caller = "tip"
        /\ ctl'.blk = core
    BY <2>1, <2>2 DEF AtRest
  <2>4. Calm'
    BY <2>1 DEF Orderliness, Calm
  <2>5. Shape(ctl)'
    BY <1>2, <2>1, <2>2, <2>3, Loaded DEF Shape
  <2>6. Ground(ctl)' /\ Recall(ctl)'
    BY <1>1, <1>2, <2>1, <2>3, Loaded DEF Ground, Based, Top, Recall, Unloaded
  <2>7. OnBranch(ctl)' /\ Search(ctl)'
    BY <1>2, <2>1, <2>3 DEF OnBranch, Search, Branch
  <2> QED
    BY <2>1, <2>4, <2>5, <2>6, <2>7, IndexFrame DEF Orderliness, Placed
<1>4. CASE TakeGap
  BY <1>2, <1>4 DEF TakeGap
<1>5. CASE TakeTick
  <2>1. zmq = <<>> /\ Goto(GoTip)
    BY <1>5, Constants DEF TakeTick
  <2>2. Placed(GoTip)
    BY <1>1, <1>2, <2>1, RestPlaced, AtRestFields DEF GoTip
  <2> QED
    BY <2>1, <2>2, GotoOrderly
<1> QED
  BY <1>3, <1>4, <1>5

\* The overlay and the Writer's queue matter to nothing here.
LEMMA QuietOrderly ==
  ASSUME Orderliness,
         UNCHANGED <<storeVars, core, coreKeeps, zmq, gap, mem, ctl, faults>>
  PROVE  Orderliness' /\ UNCHANGED storeVars
<1>1. UNCHANGED <<checkpoint, header, undo>> /\ UNCHANGED storeVars
  BY DEF storeVars
<1>2. Placed(ctl)'
  BY <1>1, PlacedFrame DEF Orderliness
<1>3. Calm'
  BY DEF Orderliness, Calm
<1> QED
  BY <1>1, <1>2, <1>3, IndexFrame DEF Orderliness

\* A prune job deletes only undo records of blocks that lie too deep for any
\* branch of Core's to leave them.
LEMMA PruneOrderly ==
  ASSUME Discipline, Inductive, Orderliness, RunPrune
  PROVE  /\ Orderliness'
         /\ UNCHANGED storeVars \/ \E keep \in Range(Height) : Ledger!Prune(keep)
<1>1. UNCHANGED <<core, coreKeeps, zmq, gap, mem, ctl, faults>>
  BY DEF RunPrune, coreVars, feedVars
<1>2. CASE mem.height <= MaxReorgDepth
  BY <1>1, <1>2, QuietOrderly DEF RunPrune
<1>3. CASE ~(mem.height <= MaxReorgDepth)
  <2> SUFFICES ASSUME NEW n, n = mem.height - MaxReorgDepth
               PROVE  Orderliness' /\ \E keep \in Range(Height) : Ledger!Prune(keep)
    OBVIOUS
  <2>1. PruneUndoData(n)
    BY <1>3 DEF RunPrune, KeepUndoFrom
  <2>2. mem.height \in Int /\ MaxReorgDepth \in Nat /\ core \in Block /\ Height[core] \in Nat
    BY Types, Constants
  <2>3. n \in Nat /\ n <= mem.height /\ mem.height # 0
    BY <1>3, <2>2
  <2>4. ~Unloaded(ctl)
    BY <2>3 DEF Orderliness, Placed, Recall
  <2>5. /\ checkpoint.hash \in Block /\ Height[checkpoint.hash] = checkpoint.height
        /\ checkpoint.height = mem.height /\ checkpoint.height <= Height[core]
    BY <2>4, Loaded
  <2>6. /\ UNCHANGED <<header, checkpoint>>
        /\ DOMAIN undo' = {k \in DOMAIN undo : ~(k[1] < n)}
    BY <2>1 DEF PruneUndoData, Without, Restrict
  <2>7. Linked'
    BY <2>6 DEF Orderliness, Linked, Branch
  <2>8. UndoKept'
    <3> SUFFICES ASSUME NEW h \in DOMAIN header, <<h, header[h]>> \notin DOMAIN undo'
                 PROVE  h + MaxReorgDepth <= Height[core] /\ header[h] \in Branch(core)
      BY <1>1, <2>6 DEF UndoKept, Branch
    <3>1. h \in Int /\ header[h] \in Block /\ Height[header[h]] = h
      BY Types
    <3>2. CASE <<h, header[h]>> \notin DOMAIN undo
      BY <3>2 DEF Orderliness, UndoKept
    <3>3. CASE <<h, header[h]>> \in DOMAIN undo
      <4>1. h < n
        BY <2>6, <3>3
      <4>2. h + MaxReorgDepth <= Height[checkpoint.hash] /\ h + MaxReorgDepth <= Height[core]
        BY <2>2, <2>3, <2>5, <3>1, <4>1
      <4>3. header[h] \in Branch(checkpoint.hash)
        BY DEF Orderliness, Linked
      <4> QED
        BY <2>2, <2>5, <3>1, <4>2, <4>3, Shallow
    <3> QED
      BY <3>2, <3>3
  <2>9. Placed(ctl)'
    BY <1>1, <2>6, PlacedFrame DEF Orderliness
  <2>10. Calm'
    BY <1>1 DEF Orderliness, Calm
  <2>11. n \in Range(Height)
    <3>1. PICK a \in Anc[checkpoint.hash] \cup {checkpoint.hash} : Height[a] = n
      BY <2>3, <2>5, BranchComplete
    <3>2. a \in Block
      BY <2>5, BranchBelow
    <3> QED
      BY <3>1, <3>2, TreeAssumption DEF Range
  <2>12. Ledger!Prune(n)
    BY <2>1 DEF PruneUndoData, Ledger!Prune, Ledger!PruneUndoData, Without, Ledger!Without,
       Restrict, Ledger!Restrict
  <2> QED
    BY <2>7, <2>8, <2>9, <2>10, <2>11, <2>12 DEF Orderliness
<1> QED
  BY <1>2, <1>3

-----------------------------------------------------------------------------
(***************************************************************************)
(* The environment.                                                        *)
(***************************************************************************)

\* Core adopts a longer branch while the server is down or at its tip.
LEMMA AdoptOrderly ==
  ASSUME Discipline, Inductive, Orderliness, NEW b \in Block, CoreAdopts(b)
  PROVE  Orderliness' /\ UNCHANGED storeVars
<1>1. /\ core' = b /\ UNCHANGED storeVars
      /\ UNCHANGED <<checkpoint, header, undo, coreKeeps, gap, mem, ctl, faults>>
  BY DEF CoreAdopts, storeVars
<1>2. core \in Block /\ Height[core] \in Nat /\ Height[b] \in Nat /\ coreKeeps \in Nat
      /\ mem.height \in Int
  BY Types, TreeAssumption
<1>3. Height[core] < Height[b]
  BY <1>2 DEF CoreAdopts, Discipline
<1>4. \/ ctl.at = "down" /\ zmq = <<>>
      \/ ctl.at = "idle" /\ zmq = <<>> /\ mem.hash = core
  BY Constants DEF CoreAdopts, CoreMayMove, Orderliness, Placed, Shape
<1>5. ctl.at = "idle" => zmq' = <<b>>
  <2>1. ctl.at = "idle" => ctl.job = "live"
    BY DEF Orderliness, Placed, Shape
  <2>2. Len(<<>>) < MaxQueue /\ Append(<<>>, b) = <<b>>
    BY Constants
  <2> QED
    BY <1>4, <2>1, <2>2 DEF CoreAdopts
<1>6. ctl.at = "down" => zmq' = <<>>
  <2>1. ctl.at = "down" => ctl.job # "live"
    BY DEF Orderliness, Placed, Shape
  <2> QED
    BY <1>4, <2>1 DEF CoreAdopts
<1>7. Calm'
  BY <1>1, <1>2, <1>3 DEF Orderliness, Calm
<1>8. Linked'
  BY <1>1 DEF Orderliness, Linked, Branch
<1>9. UndoKept'
  <2> SUFFICES ASSUME NEW h \in DOMAIN header, <<h, header[h]>> \notin DOMAIN undo
               PROVE  h + MaxReorgDepth <= Height[b] /\ header[h] \in Branch(b)
    BY <1>1 DEF UndoKept, Branch
  <2>1. h + MaxReorgDepth <= Height[core] /\ header[h] \in Branch(core)
    BY DEF Orderliness, UndoKept
  <2>2. h \in Int /\ Height[header[h]] = h /\ MaxReorgDepth \in Nat
    BY Types, Constants
  <2>3. h + MaxReorgDepth <= Height[b]
    BY <1>2, <1>3, <2>1, <2>2
  <2>4. header[h] \in Branch(b)
    BY <1>2, <2>1, <2>2, <2>3, Shallow
  <2> QED
    BY <2>3, <2>4
<1>10. Shape(ctl)'
  BY <1>1, <1>4, <1>5, <1>6 DEF Orderliness, Placed, Shape
<1>11. Ground(ctl)'
  <2>1. CASE Unbased(ctl)
    BY <1>1, <2>1 DEF Ground, Unbased, FreshCheckpoint
  <2>2. CASE Based(ctl)
    <3>1. checkpoint.height <= Height[b]
      BY <1>2, <1>3, <2>2, Types DEF Based
    <3> QED
      BY <1>1, <2>2, <3>1 DEF Ground, Based, Top
  <2> QED
    BY <2>1, <2>2 DEF Orderliness, Placed, Ground
<1>12. Recall(ctl)'
  BY <1>1 DEF Orderliness, Placed, Recall, Unloaded
<1>13. OnBranch(ctl)'
  <2>1. CASE ctl.at = "down"
    BY <1>1, <2>1 DEF OnBranch
  <2>2. CASE ctl.at = "idle"
    <3>1. zmq' # <<>>
      BY <1>5, <2>2
    <3>2. coreKeeps <= mem.height
      BY <1>4, <2>2, Loaded DEF Orderliness, Calm, Unloaded
    <3> QED
      BY <1>1, <2>2, <3>1, <3>2 DEF OnBranch
  <2> QED
    BY <1>4, <2>1, <2>2
<1>14. Search(ctl)'
  BY <1>1, <1>4 DEF Search
<1> QED
  BY <1>1, <1>7, <1>8, <1>9, <1>10, <1>11, <1>12, <1>13, <1>14 DEF Orderliness, Placed

\* Core prunes while the server is down.
LEMMA CorePrunesOrderly ==
  ASSUME Discipline, Inductive, Orderliness, NEW h \in PruneHeights, CorePrunes(h)
  PROVE  Orderliness' /\ UNCHANGED storeVars
<1>1. /\ ctl.at = "down" /\ UNCHANGED storeVars /\ coreKeeps' <= Height[core]
      /\ UNCHANGED <<checkpoint, header, undo, core, zmq, gap, mem, ctl, faults>>
  BY Constants DEF CorePrunes, CoreHeight, storeVars, feedVars
<1>2. Calm'
  BY <1>1 DEF Orderliness, Calm
<1>3. Shape(ctl)'
  BY <1>1 DEF Orderliness, Placed, Shape
<1>4. Ground(ctl)'
  BY <1>1 DEF Orderliness, Placed, Ground, Based, Unbased, Top, FreshCheckpoint
<1>5. Recall(ctl)'
  BY <1>1 DEF Orderliness, Placed, Recall, Unloaded
<1>6. OnBranch(ctl)' /\ Search(ctl)'
  BY <1>1 DEF OnBranch, Search
<1> QED
  BY <1>1, <1>2, <1>3, <1>4, <1>5, <1>6, IndexFrame DEF Orderliness, Placed

\* What happens outside: no message is lost, no RPC fails, and the process
\* does not die in a rollback.
LEMMA EnvironmentOrderly ==
  ASSUME Discipline, Inductive, Orderliness, Environment
  PROVE  Orderliness' /\ UNCHANGED storeVars
<1>1. CASE LoseBlock
  BY <1>1, Constants DEF LoseBlock
<1>2. CASE RpcFault
  BY <1>2, Constants DEF RpcFault, Orderliness, Calm
<1>3. CASE Crash
  <2>1. /\ ctl.at # "rollback" /\ UNCHANGED storeVars
        /\ ctl' = Stop /\ mem' = NewMemory /\ zmq' = <<>> /\ gap' = FALSE
        /\ UNCHANGED <<core, coreKeeps, faults>>
    BY <1>3, Constants DEF Crash, coreVars
  <2> QED
    BY <2>1, StopOrderly
<1> QED
  BY <1>1, <1>2, <1>3, AdoptOrderly, CorePrunesOrderly DEF Environment

-----------------------------------------------------------------------------
(***************************************************************************)
(* The theorems.                                                           *)
(***************************************************************************)

\* A server that has never run, on a new database.
LEMMA OrderlyInit ==
  ASSUME Discipline, Init
  PROVE  Orderliness
<1>1. Inductive
  BY InitHolds
<1>2. Calm
  BY Types, <1>1 DEF Init, Calm
<1>3. DOMAIN header = {} /\ DOMAIN undo = {} /\ checkpoint = FreshCheckpoint
  BY DEF Init, EmptyStore, EmptyMap
<1>4. ctl.at = "down" /\ ctl.job = "startup" /\ ctl.after = "init" /\ ctl.caller = "tip"
  BY AtRestFields DEF Init
<1>5. mem.height = 0 /\ mem.hash = ZeroHash /\ mem.start = 0 /\ zmq = <<>>
  BY DEF Init, NewMemory
<1>6. Linked /\ UndoKept
  BY <1>3 DEF Linked, UndoKept
<1>7. Shape(ctl) /\ Ground(ctl) /\ Recall(ctl) /\ OnBranch(ctl) /\ Search(ctl)
  BY <1>3, <1>4, <1>5 DEF Shape, Ground, Unbased, Recall, Unloaded, OnBranch, Search
<1> QED
  BY <1>2, <1>6, <1>7 DEF Orderliness, Placed

\* Every step keeps the order and is a step of the ledger or leaves the
\* index alone.
LEMMA OrderlyStep ==
  ASSUME Discipline, Inductive, Orderliness, [Next]_vars
  PROVE  Orderliness' /\ [Ledger!Next]_(Ledger!storeVars)
<1>1. UNCHANGED storeVars => UNCHANGED Ledger!storeVars
  BY DEF storeVars, Ledger!storeVars
<1>2. CASE CheckFresh \/ CheckUnknown \/ CheckMatch \/ CheckMismatch
  BY <1>1, <1>2, CheckOrderly
<1>3. CASE ForkStep \/ ForkBoundary
  BY <1>1, <1>3, ForkOrderly
<1>4. CASE RollbackStep
  BY <1>4, RollbackStepOrderly DEF Ledger!Next, Ledger!Stored
<1>5. CASE RollbackStuck
  BY <1>5, NeverStuck
<1>6. CASE RollbackDone
  BY <1>6, RollbackDoneOrderly DEF Ledger!Next
<1>7. CASE ProcessConnects \/ ProcessReorg \/ ProcessGap
  BY <1>1, <1>7, ProcessOrderly DEF Ledger!Next
<1>8. CASE CatchUpEnd \/ CatchUpStep
  BY <1>1, <1>8, CatchUpOrderly DEF Ledger!Next
<1>9. CASE \/ TipPrunedGap \/ TipVerify \/ VerifyTip \/ MatchStep \/ MatchNone
           \/ RepairStep \/ RepairDone \/ TipCount
  BY <1>1, <1>9, TipOrderly
<1>10. CASE SetStartHeight
  BY <1>1, <1>10, SetStartOrderly DEF Ledger!Next
<1>11. CASE StartServer
  BY <1>1, <1>11, StartOrderly
<1>12. CASE TakeBlock \/ TakeGap \/ TakeTick
  BY <1>1, <1>12, TakeOrderly
<1>13. CASE \/ \E t \in MempoolTx : TakeTx(t)
            \/ ReconcileMempool
            \/ PruneTick
            \/ UNCHANGED vars
  <2>1. UNCHANGED <<storeVars, core, coreKeeps, zmq, gap, mem, ctl, faults>>
    BY <1>13 DEF TakeTx, ReconcileMempool, PruneTick, vars, Elsewhere, coreVars, feedVars
  <2> QED
    BY <1>1, <2>1, QuietOrderly
<1>14. CASE RunPrune
  <2>1. Ledger!Range(Height) = Range(Height)
    BY DEF Ledger!Range, Range
  <2> QED
    BY <1>1, <1>14, <2>1, PruneOrderly DEF Ledger!Next
<1>15. CASE Environment
  BY <1>1, <1>15, EnvironmentOrderly
<1> QED
  BY <1>2, <1>3, <1>4, <1>5, <1>6, <1>7, <1>8, <1>9, <1>10, <1>11, <1>12, <1>13, <1>14,
     <1>15 DEF Next, ChainStep

\* Whatever Core, crashes and prune jobs do within Discipline, the server is
\* always in a place of good order.
THEOREM OrderlinessHolds ==
  ASSUME Discipline
  PROVE  Spec => []Orderliness
<1>1. Init => Orderliness
  BY OrderlyInit
<1>2. Inductive /\ Orderliness /\ [Next]_vars => Orderliness'
  BY OrderlyStep
<1> QED
  BY <1>1, <1>2, InductiveHolds, PTL DEF Spec

\* The chain logic implements IndexLedger: startup, catch-up, block messages,
\* reorgs, restarts and prune jobs change the index by appending to the
\* checkpoint, taking off the top, lowering the checkpoint and pruning only.
THEOREM LedgerSpecHolds ==
  ASSUME Discipline
  PROVE  Spec => LedgerSpec
<1>1. Init => Ledger!Init
  BY DEF Init, EmptyStore, Ledger!Init, Ledger!EmptyStore, EmptyMap, Ledger!EmptyMap,
     FreshCheckpoint, Ledger!FreshCheckpoint
<1>2. Inductive /\ Orderliness /\ [Next]_vars => [Ledger!Next]_(Ledger!storeVars)
  BY OrderlyStep
<1> QED
  BY <1>1, <1>2, InductiveHolds, OrderlinessHolds, PTL DEF Spec, LedgerSpec, Ledger!Spec

\* In an orderly environment memory and checkpoint agree while the main loop
\* waits for an event.
THEOREM MemoryAgreesHolds ==
  ASSUME Discipline
  PROVE  Spec => []MemoryAgrees
<1>1. Orderliness => MemoryAgrees
  BY DEF Orderliness, Placed, Recall, Unloaded, MemoryAgrees
<1> QED
  BY <1>1, OrderlinessHolds, PTL

\* A rollback that the depth check let through finds every undo record it
\* needs, prune jobs notwithstanding.
THEOREM UndoAvailableHolds ==
  ASSUME Discipline
  PROVE  Spec => []UndoAvailable
<1>1. Inductive /\ Orderliness => UndoAvailable
  BY RollbackFacts DEF UndoAvailable
<1> QED
  BY <1>1, InductiveHolds, OrderlinessHolds, PTL

-----------------------------------------------------------------------------
(***************************************************************************)
(* What IndexLedgerProofs proves of the ledger holds of the index here.    *)
(* The instances Ledger and Exact have the same definitions under other    *)
(* names.                                                                  *)
(***************************************************************************)

\* The assumptions of the instance are those of this module.
LEMMA SameTree ==
  /\ TxIn \in [Tx -> SUBSET Exact!Outpoint] /\ DOMAIN Script = Exact!Outpoint
  /\ \A b \in Block : \A a \in Anc[b] :
       /\ Exact!Created(a) \cap Exact!Created(b) = {}
       /\ Exact!Inputs(a) \cap Exact!Inputs(b) = {}
       /\ Exact!Inputs(a) \cap Exact!Created(b) = {}
       /\ Exact!Range(BlockTxs[a]) \cap Exact!Range(BlockTxs[b]) = {}
<1>1. \A b \in Block : /\ Exact!Created(b) = Created(b)
                       /\ Exact!Inputs(b) = Inputs(b)
                       /\ Exact!Range(BlockTxs[b]) = Range(BlockTxs[b])
  BY DEF Exact!Created, Exact!Indexable, Created, Indexable, Exact!Inputs, Inputs,
         Exact!Range, Range
<1>2. Exact!Outpoint = Outpoint
  BY DEF Exact!Outpoint, Outpoint
<1> QED
  BY <1>1, <1>2, TreeAssumption, TxAssumption, ConsensusAssumption

\* The steps of the two instances are the same.
LEMMA SameLedger ==
  ASSUME [Ledger!Next]_(Ledger!storeVars)
  PROVE  [Exact!Next]_(Exact!storeVars)
<1> USE DEF Ledger!Stored, Exact!Stored
<1>1. ASSUME NEW b \in Block, Ledger!SetStart(b) PROVE Exact!SetStart(b)
  BY <1>1 DEF Ledger!SetStart, Exact!SetStart, Ledger!SaveCheckpoint, Exact!SaveCheckpoint,
     Ledger!FreshCheckpoint, Exact!FreshCheckpoint
<1>2. ASSUME NEW b \in Block, Ledger!AppendBlock(b) PROVE Exact!AppendBlock(b)
  BY <1>2 DEF Ledger!AppendBlock, Exact!AppendBlock, Ledger!TipStored, Exact!TipStored,
     Ledger!Created, Exact!Created,
     Ledger!Indexable, Exact!Indexable, Ledger!Inputs, Exact!Inputs,
     Ledger!Range, Exact!Range, Ledger!IndexBlock, Exact!IndexBlock,
     Ledger!SpentBy, Exact!SpentBy, Ledger!HistoryOf, Exact!HistoryOf,
     Ledger!Touched, Exact!Touched, Ledger!Put, Exact!Put,
     Ledger!Positions, Exact!Positions, Ledger!PlaceIn, Exact!PlaceIn,
     Ledger!Restrict, Exact!Restrict
<1>3. ASSUME NEW b \in Block, Ledger!LowerCheckpoint(b) PROVE Exact!LowerCheckpoint(b)
  BY <1>3 DEF Ledger!LowerCheckpoint, Exact!LowerCheckpoint, Ledger!IsTop, Exact!IsTop,
     Ledger!SaveCheckpoint, Exact!SaveCheckpoint,
     Ledger!FreshCheckpoint, Exact!FreshCheckpoint
<1>4. ASSUME NEW h \in Ledger!Stored, Ledger!TakeOff(h) PROVE Exact!TakeOff(h)
  BY <1>4 DEF Ledger!TakeOff, Exact!TakeOff, Ledger!IsTop, Exact!IsTop,
     Ledger!RollbackBlock, Exact!RollbackBlock,
     Ledger!RestoreOutputs, Exact!RestoreOutputs, Ledger!DeleteHistory, Exact!DeleteHistory,
     Ledger!DeleteUndo, Exact!DeleteUndo, Ledger!Without, Exact!Without,
     Ledger!Restrict, Exact!Restrict
<1>5. ASSUME NEW keep, Ledger!Prune(keep) PROVE Exact!Prune(keep)
  BY <1>5 DEF Ledger!Prune, Exact!Prune, Ledger!PruneUndoData, Exact!PruneUndoData,
     Ledger!Without, Exact!Without, Ledger!Restrict, Exact!Restrict
<1>6. Exact!Range(Height) = Ledger!Range(Height)
  BY DEF Exact!Range, Ledger!Range
<1>7. UNCHANGED Ledger!storeVars => UNCHANGED Exact!storeVars
  BY DEF Ledger!storeVars, Exact!storeVars
<1> QED
  BY <1>1, <1>2, <1>3, <1>4, <1>5, <1>6, <1>7 DEF Ledger!Next, Exact!Next

\* The headers are one branch, and UTXOs, history and transaction lookups are
\* always those of that branch, through startup, catch-up, reorgs, restarts
\* and prune jobs.
THEOREM IndexExactHolds ==
  ASSUME Discipline
  PROVE  Spec => []IndexExact
<1>1. Init => Exact!Inductive
  <2> SUFFICES ASSUME Init PROVE Exact!Inductive
    OBVIOUS
  <2>1. Exact!Init
    BY DEF Init, EmptyStore, Exact!Init, Exact!EmptyStore, EmptyMap, Exact!EmptyMap,
       FreshCheckpoint, Exact!FreshCheckpoint
  <2> QED
    BY <2>1, SameTree, TreeAssumption, TxAssumption, Exact!InitHolds
<1>2. Inductive /\ Orderliness /\ Exact!Inductive /\ [Next]_vars => Exact!Inductive'
  <2> SUFFICES ASSUME Inductive, Orderliness, Exact!Inductive, [Next]_vars
               PROVE  Exact!Inductive'
    OBVIOUS
  <2>1. [Exact!Next]_(Exact!storeVars)
    BY OrderlyStep, SameLedger
  <2> QED
    BY <2>1, SameTree, TreeAssumption, TxAssumption, Exact!StepKeeps
<1>3. Exact!Inductive => IndexExact
  <2> SUFFICES ASSUME Exact!Inductive PROVE IndexExact
    OBVIOUS
  <2>1. Ledger!HeadersLinked
    BY DEF Exact!Inductive, Exact!HeadersLinked, Ledger!HeadersLinked, Exact!Stored,
       Ledger!Stored, Exact!FreshCheckpoint, Ledger!FreshCheckpoint
  <2>2. Ledger!UtxoExact
    BY DEF Exact!Inductive, Exact!UtxoExact, Ledger!UtxoExact, Exact!Stored, Ledger!Stored,
       Exact!Unspent, Ledger!Unspent, Exact!Created, Ledger!Created, Exact!Inputs,
       Ledger!Inputs, Exact!Indexable, Ledger!Indexable, Exact!Outpoint, Ledger!Outpoint
  <2>3. Ledger!HistoryExact
    BY DEF Exact!Inductive, Exact!HistoryExact, Ledger!HistoryExact, Exact!Stored,
       Ledger!Stored, Exact!HistoryOf, Ledger!HistoryOf, Exact!Touched, Ledger!Touched,
       Exact!Found, Ledger!Found, Exact!Created, Ledger!Created, Exact!Inputs,
       Ledger!Inputs, Exact!Indexable, Ledger!Indexable
  <2>4. Exact!LookupExact
    BY SameTree, TreeAssumption, TxAssumption, Exact!LookupFromPositions
  <2>5. Ledger!LookupExact
    BY <2>4 DEF Exact!LookupExact, Ledger!LookupExact, Exact!Stored, Ledger!Stored,
       Exact!LookupTx, Ledger!LookupTx, Exact!TxAt, Ledger!TxAt, Exact!Range, Ledger!Range
  <2> QED
    BY <2>1, <2>2, <2>3, <2>5 DEF IndexExact
<1> QED
  BY <1>1, <1>2, <1>3, InductiveHolds, OrderlinessHolds, PTL DEF Spec
=============================================================================
