# electrum-go in TLA+

electrum-go is an Electrum server that keeps its own index of the blocks it
has seen and needs Bitcoin Core, pruned or not, only as a feed (RPC and ZMQ).
This directory models the parts that decide whether its answers are right and
arrive: the index, the logic that keeps it on Core's chain through reorgs,
crashes and lost notifications, the mempool overlay, the way of a notification
from Core to the index, the sessions of the clients with their subscriptions,
and Merkle proofs. The models are checked by TLC on small instances. Their
safety properties but one, and the three refinements, are also proved, by
TLAPS, for every block tree, every set of transactions, every capacity and any
number of clients and steps.

## The system

| Part | State | Operations | Shared with, called by |
|---|---|---|---|
| Index store (`internal/storage`) | Pebble keys: UTXOs, txindex, history, headers and txid lists, positions, blobs, undo records, mempool outputs, checkpoint | one synced batch per call | everything below |
| Block indexer (`indexer/block.go`) | none | `IndexBlock`: one batch; takes the block's transactions out of the overlay first | chain manager |
| Reorg handler (`indexer/reorg.go`) | none of its own | `CheckAndHandle`: fork search, rollback block by block, checkpoint, clear the overlay; `PruneOldUndoData` | chain manager, writer |
| Chain manager (`indexer/chain.go`) | tip height and hash, start height, prune height | `Initialize`, `SetStartHeight`, `ProcessBlock`, `CatchUpTo`, `CatchUpToTip`, `VerifyAndRepairGaps` | main loop, writer |
| Main loop and startup (`cmd/server`) | none | startup sequence; `select` over blocks, transactions, gaps and tickers; halt for the operator | all |
| Writer (`indexer/writer.go`) | job queue | one goroutine: block, transaction and prune jobs | main loop |
| ZMQ subscriber (`indexer/zmq.go`) | last sequence numbers, three channels | receive, detect gaps, reconnect | main loop |
| Mempool overlay (`indexer/mempool.go`, `cmd/server/mempool.go`) | transactions, by scripthash, spent-by, outputs; copy of the outputs on disk | add, remove, reconcile, clear, load | writer, block indexer, reorg handler, readers |
| Electrum server (`electrum/server.go`, `handlers.go`) | connections, a write queue and a write loop for each | accept, serve requests and batches, `Send`, `TrySend`, `Close`, stop | index store, overlay, main loop |
| Subscriptions and status cache (`electrum/subscriptions.go`, `status_cache.go`) | two maps of subscribers and their inverse; statuses and dirty marks | subscribe, unsubscribe, notify; `GetIfClean`, `SetClean`, `MarkDirtyMany` | handlers, main loop |
| Scripthash reads, Merkle proofs (`electrum/scripthash.go`, `merkle.go`) | none | history, balance, unspent outputs, status; Merkle branch | handlers, main loop |

What makes it hard:

* **Interleaving.** Catch-up runs in the main goroutine beside the writer's
  prune job. Core may change its best chain between any two RPCs of one call.
  Block and transaction messages come on different channels, in any relative
  order, and the tickers race with both. A status is computed from several
  reads with no lock held, while the main loop changes what is read; the main
  loop writes to queues that a connection's goroutine closes.
* **Failure.** A rollback is several batches and a checkpoint, not one batch.
  Any RPC may fail and its caller is retried from wherever it was.
* **Delivery.** ZMQ loses messages. Gaps may or may not be noticed. A client
  that reads slowly loses notifications.
* **Shutdown.** Main, writer, subscriber and connections wait for one another.
* **Boundaries.** Start height, maximal reorg depth, prune height.

`PROJECT.json` lists the hazards one by one, each at its line, with the
properties that cover it or the reason none does.

What correctness means, by part: the index is a function of the chain it has
indexed (store, indexer, reorg handler); memory and disk agree, undo records
are there when needed, and Core's tip is reached (chain manager, main loop);
the overlay becomes Core's mempool (overlay); messages reach the index in order
and at most once, a visible loss is made good, calls are answered and shutdown
ends (subscriber, writer); the maps of subscribers are one relation, a cached
status is right or there is a known reason, and subscribers come to have the
present status (server); a Merkle branch leads to the block's root.

## Modules

| Module | Models |
|---|---|
| `IndexStore` | the database and its batches: `IndexBlock`, `RollbackBlock`, `SaveCheckpoint`, `PruneUndoData`, and the handlers' lookups |
| `IndexLedger` | the discipline under which the index is exact: append to the checkpoint, take off the top, lower the checkpoint, prune. Abstract specification of the index |
| `IndexStoreProofs` | lemmas about branches, heights and the store's batches that the next four share |
| `IndexLedgerProofs` | the proofs about `IndexLedger` |
| `ChainManager` | chain manager, reorg handler, main loop and startup, over `IndexStore`, with Core, ZMQ, RPC failures, crashes and prune jobs |
| `ChainManagerProofs` | the proofs about `ChainManager` in any environment |
| `ChainOrderlyProofs` | the proofs about `ChainManager` under `Discipline`; it implements `IndexLedger` |
| `MempoolOverlay` | the overlay, `reconcileMempool`, its copy on disk, over `IndexStore` and the steps of `IndexLedger` |
| `MempoolOverlayProofs` | the proofs about `MempoolOverlay` |
| `Feed` | what `ChainManager` and `MempoolOverlay` assume of notifications: in order, at most once, perhaps lost. Abstract specification |
| `Pipeline` | ZMQ subscriber, channels, the select of the main loop, writer, shutdown; implements `Feed` |
| `PipelineProofs` | the proofs about `Pipeline` |
| `Registry` | subscriptions as one relation. Abstract specification |
| `Sessions` | connections, write queues, subscriptions, status cache and the main loop's notifications; implements `Registry` |
| `SessionsProofs` | the proofs about `Sessions` |
| `Merkle` | `GetTransactionMerkleProof` and `buildMerkleBranch`, with the tree and the client's check as reference |
| `MerkleProofs` | the proofs about `Merkle` |
| `MCBlocks`, `MCLedger`, `MCChain`, `MCMempool`, `MCPipeline`, `MCSessions`, `MCMerkle` | instances for TLC |
| `MCOrderly` | `MCChain` with the condition that its constants meet `Discipline` |

`ChainManager` and `MempoolOverlay` extend `IndexStore`; the latter moves the
index by the actions of `IndexLedger`, and the former is shown to implement
it. `Pipeline` and `Sessions` see a block or a transaction as one delivery or
one change: what it does to the index is the business of the other two.

**State and actions.** A block is its hash and a transaction its txid. `Prev`,
`Height` and `Anc` describe the tree of all blocks Core may show; `BlockTxs`,
`TxIn`, `TxOut`, `Script` the transactions. The variables of `IndexStore` are
the key prefixes of the database; the header and the txid list of a height,
always written together, are one variable. The history key's running counter,
which only keeps keys apart, is dropped. Places in a block count from one.

In `ChainManager` the main goroutine's position is the record `ctl`, one
action per database batch or RPC. The code between two RPCs touches nothing
that others see, so it is in the action of the RPC before it. `overlay` is
only the set of txids there: its content is the business of `MempoolOverlay`.
`Orderly`, a constant, decides what the environment may do: with `TRUE`, Core
moves only when the server is down or at rest at Core's tip, prunes only while
the server is down, and a block message is handled before the tip ticker looks.
With `FALSE` any step of Core falls between any two steps of the server.
`Discipline` collects, as a condition on the constants, all that `ChainOrderly`
and the proofs under it ask of the environment.

In `MempoolOverlay` the actions are the overlay's methods as their callers
use them. `IndexBlock` is two actions, since the overlay changes before the
batch commits. The index moves by `IndexLedger`'s own actions. Backfill takes
the list of `getrawmempool` in any order. `SpentByTxid` is kept in the map
`outputs`, whose values are the objects of the transaction's record. `Value`
gives outputs their amounts; `ScripthashBalance` and `MempoolBalance` are the
sums the handlers compute.

In `Pipeline` each goroutine has a position: `sub` (one per stream), `main`,
`worker`. A channel is a sequence with a capacity. Sequence numbers are
counted modulo `Width`, which stands for 2^32, and zero means that none was
seen, as in the code. A message is the number of its publication; the code
does not see it. `owed` notes the streams whose numbers showed a loss that no
catch-up or reconcile has started after. The main loop's own calls of
`CatchUpToTip` and `reconcileMempool` are the position `recover`.

In `Sessions` an action is what a goroutine does under one lock, in one
channel operation, or in one read. `calc[g]` is goroutine g's place in
`ComputeScripthashStatusHex`: look into the cache, read the confirmed history,
read the overlay, store. The histories of a scripthash are two version numbers,
and a status is the pair read. `pc` is the position in `handleConnection`
and its deferred function, `closed` and `loop` are the state of `ConnWriter`,
`main` the main loop's place between a change and the last notification of it.
Three variables are history: `silent` (topics last changed without mark and
notification), `overlap` (topics a request had read, and not answered, or read
while they changed) and `missed` (clients that lost a message of a topic to a
full queue or a failed write). `view` is what each client was told last.

In `Merkle` a hash is its arguments and its byte order, so two hashes are equal
only if they are made the same way; each turn of the loop is an action.

**External.** Core's RPCs, its mempool and its ZMQ publisher are modelled from
how the code uses them and marked external in the map. Core publishes the new
tip of a reorg and not each block of it; rawtx messages are sent when a
transaction enters the mempool and when a block confirms it. A message that
finds the model's queue full is lost, which stands for a loss on the way.

## Runs

| Run | Checks |
|---|---|
| `LedgerExact` | `IndexLedger` keeps types, linked headers, exact UTXOs, history, undo records and positions, exact lookups and history reads |
| `ChainOrderly` | with an orderly environment, a crash outside rollbacks and a Core that prunes: `IndexExact`, `UndoAvailable`; every change of the index is a step of `IndexLedger` (`LedgerSpec`); the tip is reached, or the server halts with its tip below what Core still has (`EventuallySettled`) |
| `ChainStorm` | with a Core that moves at any time, heavier but shorter branches, lost messages, a crash anywhere, a failed RPC: heights stay those of their blocks (`HeightsTrue`), the tip in memory is the checkpoint whenever the main loop waits (`MemoryAgrees`), types hold |
| `ChainLive` | with a Core that moves at any time, lost messages and a failed RPC: the tip is reached for good (`EventuallySynced`) |
| `MempoolSync` | with replacements, late, lost and repeated rawtx messages, reorgs, a crash, a failed RPC: the maps agree (`IndexesAgree`), an undisturbed reconcile is exact (`ReconcileExact`), balance and unspent outputs then agree (`BalanceAgrees`), Core's mempool is reached (`PoolReached`) |
| `Pipeline` | with lost messages, failed sockets, a restart of Core, wrapping numbers, full channels and a signal at any time: no send on a closed channel, calls answered (`CallAnswered`), no catch-up while the writer indexes (`OneIndexer`), order and at most once (`FeedSpec`), a visible loss is recovered (`LossRecovered`), shutdown ends (`ShutdownEnds`) |
| `Sessions` | two clients: the maps agree (`SubscriptionsAgree`) and are one relation which a dropped connection leaves for good (`RegistrySpec`) |
| `SessionsLive` | a client against two changes and a failed write: every stale status in the cache has one of three reasons (`StaleExplained`), but for those subscribers come to have the present status and header (`ClientsCurrent`), and closing ends (`CloseEnds`) |
| `MerkleBranch` | for each transaction of each block of up to 33: the loop has the rows of the tree (`RowsExact`), and the branch leads to the root where every row has a neighbour for the transaction's ancestor (`BranchLeads`) |

Three more runs show where the program does not do what its documents or
comments say. Each is expected to end in a violation, and each is a finding in
`PROJECT.json` with the line it contradicts.

| Run | Shows |
|---|---|
| `TickerReorg` | the tip ticker beats the block message of a reorg; the tip moves to the new branch and the old branch's outputs stay (`ReorgSafe`) |
| `SendOnClosed` | the main loop finds a connection open, the connection closes its channel, the send panics and ends the server (`NoPanic`) |
| `ProofVerified` | a client of protocol 1.4 cannot verify a transaction: the branch is in internal byte order, where the protocol and every other txid of the server have display order (`merkle.go:65`), and it leaves out the repeated hash where a row has no neighbour (`merkle.go:64`) (`ProofVerifies`) |

The following statements of comments and documents fail as well. They are
definitions of the modules, at the end of each, or properties of the runs above
under other constants; a configuration with the change in the second column has
TLC print the behaviour.

| Statement | Check it with | What happens |
|---|---|---|
| `EventuallySettled`, a crash in a rollback | `ChainOrderly.cfg`, `MCChain`, `PruneHeights = {}`, `CrashAt = {"rollback"}` | a crash after a rollback's first batch and before its `SaveCheckpoint` makes every later start fail: the checkpoint names a block that is gone (`reorg.go:209`) |
| `EventuallySettled`, a later start | `ChainOrderly.cfg`, `MCChain`, `PruneHeights = {}`, `ConfigStart = 2` | a rollback writes a checkpoint without `StartHeight`; after a restart, a reorg of the first block indexed goes on below it and fails for ever (`reorg.go:237`) |
| `EventuallySettled`, start height 0 | `ChainOrderly.cfg`, `MCChain`, `PruneHeights = {}`, `ConfigStart = 0` | no block is ever indexed, `CatchUpTo` calls itself again and again (`chain.go:217`), where `config.go:101` says "genesis block" |
| `HaltNeeded` | `ChainOrderly.cfg`, `MCOrderly` | the prune check halts a server that lacks exactly the first block Core still has (`chain.go:273`), although no block needed is "gone from disk" (`docs/pruned-reanchor-risks.md:22`) |
| `UnspentOnly` | `LedgerExact.cfg`, `MCLedger` | an output created and spent in one block stays a UTXO: `IndexBlock` looks for it in the database and not in its batch (`block.go:96`) |
| `LookupOwn` | `LedgerExact.cfg`, `MCLedger` | `rollbackBlock` leaves positions and blobs, and an orphaned transaction is looked up as another one (`reorg.go:320`, `handlers.go:611`) |
| `ListedUnspent` | `MempoolSync.cfg`, `MCMempool` | a child backfilled before its parent leaves the parent's output listed as unspent (`mempool.go:214`) |
| `BalanceTotal` | `MempoolSync.cfg`, `MCMempool` | a confirmed output spent in the mempool is subtracted from the balance twice, once by `GetScripthashBalance` and once by `GetBalance` (`scripthash.go:123`, `mempool.go:363`) |
| `ToldDespiteRequests` | `SessionsLive.cfg`, `MCSessions` | a request that reads while a block is indexed, or stores what it read with `SetClean` after `MarkDirty`, leaves a client with an old status (`status_cache.go:31`; this is `overlap`) |
| `ToldOfCatchUp` | `SessionsLive.cfg`, `MCSessions` | blocks indexed by catch-up, rollbacks, and the reconcile after a gap mark and notify nothing (`run.go:64`, `run.go:131`; this is `silent`) |

Hence the limits of the positive claims. `UtxoExact` says what the code does
with spends inside a block: it counts an input only if an earlier block created
the output (`Found`). `LookupExact` is about transactions of the stored chain.
`ChainOrderly` starts at height 1, crashes outside rollbacks and lets the block
message come before the ticker. `MemoryAgrees` is checked through a failed call
with an index that starts at block 1, and proved for any start without failures;
with a later start and a failure it is false, since `repairGap` leaves the
checkpoint below memory (`chain.go:509`). `ClientsCurrent` holds while the server
runs and excludes `silent`, `overlap` and `missed`; each of them really occurs.
`BalanceAgrees` speaks of scripthashes none of whose outputs is being spent, and
`BranchLeads` of transactions with a neighbour in every row.

Seen while modelling, without a formula of their own.

*Chain and index.* After a tip move without rollback `getOurBlockHash` may pick
the orphan's undo record (`reorg.go:160`). Memory and checkpoint can differ in
the hash after a reorg below the start height when Core moves between two RPCs
(`reorg.go:227`). A heavier branch that is not longer is not noticed by the
ticker (`run.go:152`). The ticker's path ignores the maximal reorg depth
(`chain.go:325`), and a reorg is told from other errors by the words of its
text. A Core that prunes while a running server is behind is not noticed
(`main.go:155`).

What the proofs added. The depth check of a reorg does not by itself keep undo
records available: a prune job counts from the tip it saw, and after a rollback
and a crash the next reorg is measured from the lower tip; if it goes as deep as
allowed below that, it needs records the job deleted (`reorg.go:344`). When Core
replaces the very block below the start height while the checkpoint names it, the
rollback saves our own old hash again, and memory has Core's, until a later check
of the tip corrects it (`reorg.go:227`). `Discipline` excludes both, and the lost
`StartHeight` above.

*Overlay.* Keys of mempool outputs that a reconcile drops after a restart stay on
disk (`mempool.go:425`).

*Notifications and sessions.* Unconfirmed history comes
in the order of a Go map, so equal histories may have different statuses
(`scripthash.go:63`). A place in `connLimiter` is free before the connection is
closed (`server.go:243`). After the ten seconds of `Stop` a handler may read a
closed database. The gap channel is shared: full of one stream's events it
drops the other's gap (`zmq.go:355`). Prune jobs of the writer run beside the
main goroutine's `CatchUpToTip`, although `writer.go` says that all writes are
serialised.

**Bounds and why they are enough.** `MCBlocks` has eleven blocks on four
branches up to depth 5: reorgs of depth one to three, a second reorg on top of
one, a transaction mined on two branches at different heights and places, a
spend across blocks and one inside a block, an OP_RETURN. `MaxReorgDepth` is 3,
so reorgs at the limit and prune jobs that reach the lowest record needed
happen. One crash and one failed RPC are enough to separate any two steps; more
only repeat. `MaxQueue` 1 or 2 lets a message be late by one reorg. `MCMempool`
has a parent, its child and a conflicting transaction, each mined on some
branch; four changes of Core suffice for accept, replace, mine, reorg. The
counters (`crashes`, `faults`, `moves`) only bound the environment. `LedgerExact`
has no counter: its state space is finite as it is.

`Pipeline` has three messages over two streams, `Width` 3, so that numbers wrap
and reach zero, capacities of one, so that every queue is full at some time, and
one fault: a lost message, a failed socket or a restart of Core. `Sessions` has
two interchangeable clients with two requests between them: both may share a
scripthash, one may leave while the other is written to. `SessionsLive` has one
client, one request, a server with or without a first block, which two changes,
one after the other since the main loop is one goroutine, and a failed write can
meet at every point; a queue of one is full with one answer in it. What depends
on more of these is proved for any number. `MerkleBranch` goes to 33
transactions, one beyond a full tree of five rows.

**Fairness.** A call in progress goes on (weak fairness of its steps: nothing in
the code waits for anything but Core). The service manager restarts the process
(`contrib/systemd/electrum-go.service`, `Restart=on-failure`). `select` chooses
among ready cases at random, so a case that is ready again and again is taken:
strong fairness of each case, tickers included. Nothing is assumed of Core, of
message delivery, of RPC failures or of crashes; they are bounded in number.
In `Sessions` and `Pipeline` every goroutine that can go on does (weak
fairness): the waits of the code are for locks held briefly, for channels whose
other side is modelled, for writes with a deadline. In `Pipeline` the select is
strongly fair only to gap events and to cancellation. Clients, Core, the
network, the operator and the tickers owe nothing.

`ChainOrderly` does not check deadlock: a server that has halted for the
operator, with Core at rest, has nothing left to do. Nor do `Pipeline`, where
the process exits, `Sessions` and `SessionsLive`, where clients and changes are
used up, and `MerkleBranch`, where a request ends. What these need instead is
said by `ShutdownEnds`, `CloseEnds`, `ClientsCurrent` and `BranchLeads`. In the
other passing runs deadlock is checked.

## Proofs

`IndexLedgerProofs` proves, for every tree, every set of transactions and any
number of steps, that `IndexLedger` implies `[]TypeOK`, `[]HeadersLinked`,
`[]UtxoExact`, `[]HistoryExact`, `[]UndoExact`, `[]PositionsExact`,
`[]LookupExact` and `[]HistoryReadsExact`. It uses `TreeAssumption` (a block's
branch is its predecessor's plus the predecessor), `TxAssumption` (types; no
transaction twice in a block) and `ConsensusAssumption` (along a branch no
transaction occurs twice, and no output is created or spent twice or spent
before it exists), which Core's validation guarantees and TLC evaluates on the
instance.

The argument is one inductive invariant, `Inductive`: types, `HeadersLinked`,
`UtxoExact`, `HistoryExact`, `UndoExact` and `PositionsExact` together. None is
inductive alone. What a rollback restores is right because the undo record is
(`UndoExact`); the record is right because the UTXO keys were when `IndexBlock`
wrote it (`UtxoExact`); both rest on the stored headers being one branch, or
`ConsensusAssumption` would not apply. Undo records are deleted by prune jobs, so
`UndoExact` speaks of those that exist. `AppendKeeps` and `TakeOffKeeps` are the
two long lemmas: appending a block below which everything stored is its own
branch, and taking off the highest. `SameChain` and `SameUndo` serve the batches
that leave the chain alone.

`ChainManagerProofs` proves `[]TypeOK` and `[]HeightsTrue` with no restriction
on the environment: Core moves between any two steps, RPCs fail, messages are
lost, the process dies anywhere. Beyond the tree it uses `ChainAssumption`, of
which two parts say something about Bitcoin: work grows along a branch, and
hashes sort one way. `HeightsTrue` alone is not inductive. A rollback's
checkpoint takes its height and hash from the fork found earlier (`ForkTrue`), a
block message is indexed at a height counted from another one (`BlockInHand`,
`NeverGenesis`), and an empty database must not be taken for a tip
(`FreshMemory`).

`ChainOrderlyProofs` proves that `Discipline` and `Spec` imply `LedgerSpec`,
`[]IndexExact`, `[]MemoryAgrees` and `[]UndoAvailable`. `Discipline` is a
hypothesis of each theorem, not an assumption, since without it they are false
(see `TickerReorg` and the observations above). It asks that nothing is lost or
fails, that no crash falls into a rollback, that the branch with more work is
the longer one, and that no two branches part at or below the start height, or
deeper than `max_reorg_depth` below the shorter one's tip. `MCOrderly` has TLC
evaluate that the instance of `ChainOrderly` meets it. The invariant
`Orderliness` says for every position of the main goroutine which part of
headers, checkpoint and memory has already moved: `Ground` gives the range of
the headers (during a rollback, up to the block to be taken off next), `Recall`
what memory has, `Search` that a fork search or a rollback has met only orphans,
`UndoKept` that a block without undo record is buried below
`max_reorg_depth` on Core's branch and so never taken off. With it each batch is
a step of `IndexLedger`, and `IndexExact` is not proved again: the theorems of
`IndexLedgerProofs` apply to the behaviour, through an instance of that module.

`MempoolOverlayProofs` proves `[]TypeOK`, `[]IndexesAgree`, `ReconcileExact` and
that the index below stays linked and exact. Beyond the assumptions about tree
and transactions it uses that an outpoint belongs to one transaction. `Inductive`
adds what makes `ReconcileExact` hold: Core's mempool is admissible; a spend or
an output that the overlay should have for a transaction and has not was taken
out on behalf of a block, since `RemoveOutput` takes entries whoever made them
(`Kept`); and, while nothing disturbs `reconcileMempool`, the overlay has
nothing that Core has not, and what it lacks is still on the list
(`BackfillSound`). A backfilled transaction is never refused: what would
conflict with it was dropped by `ReconcileWith`.

`PipelineProofs` proves `[]TypeOK`, `[]NoSendOnClosed`, `[]CallAnswered` and
`[]OneIndexer` for every width and capacity and any number of messages and
faults, from `PipelineAssumption` (sizes are positive). Its `Inductive` adds to
`CallAnswered` the types and `Order`: the channels are closed before the writer
is cancelled, and the writer is cancelled only when main has no call pending.
Without that, the drain at shutdown could answer a call twice or lose one.
It also proves `Spec => FeedSpec`. What is in flight on a stream is the
concatenation of what is in the main goroutine's call or at the writer, in the
channel, with the subscriber, and in the socket; each step moves a message from
one of the four to the next, adds one at the end or drops some. The call and the
writer share a message without counting it twice because of `CallAnswered`, and
prune jobs and backfills carry none, which is the second invariant, `Empty`.

`SessionsProofs` proves `[]TypeOK`, `[]SubscriptionsAgree`, `[]StaleExplained`
and `Spec => RegistrySpec`, from `SessionAssumption` (names are distinct, limits
are positive, first tips are heights), for any number of connections and
scripthashes. `Inductive` has three parts. Types, with what a position implies:
a connection computes only at `compute`, the main loop computes only at
`compute` and, between announcements, has no topic. `SubscriptionsAgree`,
inductive given the types: `AddEntry`, `DeleteEntry` and `DropAgrees` are the
facts about the maps. `Fresh`, which makes `StaleExplained` inductive: what a
request has read, and will store, is the present history or is noted
(`RequestsNoted`), and what the main loop has read is the present history, since
only the main loop changes it (`MainExact`). The refinement then maps each step:
the two subscriptions, the unsubscribe request and `Release` are steps of
`Registry`, and the others change neither the relation nor who is dropped. A
dropped connection stays out because it computes nothing, so that no late answer
brings it back to serving.

`MerkleProofs` proves `[]TypeOK`, `[]RowsExact` and `[]BranchLeads` for blocks of
any size. `Inductive` says that the loop is in some row of the tree, at the
ancestor of the transaction, and that, if every ancestor below has a neighbour,
its branch has these neighbours. Folded as a client folds them, they give the
ancestor in the row above, and so the root in the last.

None of these proofs uses an induction scheme with an operator parameter. Where
an argument goes along a branch or up a tree, it takes the lowest block or row
without the property (`LeastOf`, `Climb`); the same argument shows that the
recursive functions of `Merkle` exist.

Only model-checked: `BalanceAgrees`, whose sums are folds over sets; and
liveness (`EventuallySynced`, `EventuallySettled`, `PoolReached`, `LossRecovered`,
`ShutdownEnds`, `ClientsCurrent`, `CloseEnds`), which is beyond the prover.

## Not modelled

Database errors and corruption; Pebble, compression, key and value codecs;
catch-up over more than a thousand blocks, which samples heights first;
`VerifyChainIntegrity`, `GetExpectedHeight` and `ValidateBlockConnects`, which
nothing calls; waiting for Core's initial download; fees and times; request
parsing and the handlers that only read or forward to Core (fee estimates,
broadcast, server information), which change no state; TLS; configuration, read
once at startup, whose values are constants here; metrics and logging, which
nothing reads back.

## Plan

Done: the index, its chain logic, the overlay with balances, notification path
and writer, sessions, Merkle proofs; proofs about all of them. Next:

1. `BalanceAgrees`, once `Worth` has a form about which sums over disjoint sets
   can be proved.
2. `Discipline` weakened where `ChainOrderlyProofs` uses less than it says: a
   fork at the start height, shallow reorgs after a rollback.
