--------------------------- MODULE MempoolOverlay ---------------------------
(***************************************************************************)
(* The mempool overlay: the unconfirmed transactions the server knows of,  *)
(* their copy on disk, and what keeps them in step with Bitcoin Core's     *)
(* mempool: rawtx messages, blocks, rollbacks, reconcileMempool, restarts. *)
(*                                                                         *)
(* The main goroutine runs one call at a time; ctl is where it stands.     *)
(* The index below the overlay moves by the steps of IndexLedger (the      *)
(* orderly block and reorg paths; see ChainManager for the others).        *)
(* Fees and times are left out.  A transaction's record keeps the          *)
(* inputs whose scripthash was found; its outputs are Indexable(t), and    *)
(* the SpentByTxid of an output is kept in the map `outputs`, whose values *)
(* are the very objects of the record.                                     *)
(***************************************************************************)
EXTENDS IndexStore, FiniteSetsExt

CONSTANTS
  StartAt,        \* the block below the first one to be indexed
  FirstTip,       \* Core's best block when the server starts
  Value,          \* the amount of each output
  NoTx,           \* an empty SpentByTxid
  MaxMoves,       \* bound: changes of Core's mempool or best block
  MaxFeed,        \* bound: rawtx messages waiting in TxChan
  MaxCrashes,     \* bound: deaths of the process
  MaxFaults       \* bound: failed RPCs

\* An outpoint has the txid of the transaction that creates it.
ASSUME MempoolAssumption ==
  /\ {StartAt, FirstTip} \subseteq Block
  /\ NoTx \notin Tx
  /\ Value \in [Outpoint -> Nat]
  /\ \A t, u \in Tx : t # u => TxOut[t] \cap TxOut[u] = {}
  /\ {MaxMoves, MaxFeed, MaxCrashes, MaxFaults} \subseteq Nat

VARIABLES
  transactions,   \* txid -> inputs with a known scripthash
  byScripthash,   \* pairs <<scripthash, txid>>
  spentBy,        \* outpoint -> txid
  outputs,        \* outpoint -> SpentByTxid
  persisted,      \* outpoints with a mempool key on disk
  core,           \* Core's best block
  pool,           \* Core's mempool
  feed,           \* rawtx messages published and not yet taken
  ctl,            \* what the main goroutine is doing
  steady,         \* Core unchanged, no RPC failed, since getrawmempool
  moves, crashes, faults

overlayVars == <<transactions, byScripthash, spentBy, outputs, persisted>>

coreVars == <<core, pool, moves>>

vars == <<storeVars, overlayVars, coreVars, feed, ctl, steady, crashes, faults>>

Ledger == INSTANCE IndexLedger

Steps == {"down", "boot", "ready", "idle", "commit", "rollback", "backfill"}

\* blk: the block to be committed, or the fork to roll back to; then: where a
\* rollback returns to; todo: the listed txids still to be looked at.
At(step) == [at |-> step, blk |-> NoHash, then |-> "idle", todo |-> {}]

\* A mempool key on disk: an outpoint, with the scripthash it determines.
MempoolKey == Outpoint

\* TypeOK: the index, the overlay, Core and the control state.
TypeOK ==
  /\ StoreTypeOK
  /\ DOMAIN transactions \subseteq Tx
  /\ \A t \in DOMAIN transactions : transactions[t] \subseteq TxIn[t]
  /\ byScripthash \subseteq Range(Script) \X Tx
  /\ DOMAIN spentBy \subseteq Outpoint /\ Range(spentBy) \subseteq Tx
  /\ DOMAIN outputs \subseteq Outpoint /\ Range(outputs) \subseteq Tx \cup {NoTx}
  /\ persisted \subseteq MempoolKey
  /\ core \in Block /\ pool \subseteq Tx
  /\ feed \in Seq(Tx) /\ Len(feed) <= MaxFeed
  /\ ctl \in [at : Steps, blk : Block \cup {NoHash}, then : {"idle", "ready"},
              todo : SUBSET Tx]
  /\ steady \in BOOLEAN
  /\ moves \in 0 .. MaxMoves /\ crashes \in 0 .. MaxCrashes
  /\ faults \in 0 .. MaxFaults

-----------------------------------------------------------------------------
\* The maps of NewMempoolOverlay.
EmptyOverlay ==
  /\ transactions = EmptyMap
  /\ byScripthash = {}
  /\ spentBy = EmptyMap
  /\ outputs = EmptyMap

\* A database on which SetStartHeight has run, and a server about to start.
Init ==
  /\ utxo = EmptyMap /\ txindex = {} /\ history = {} /\ header = EmptyMap
  /\ txpos = EmptyMap /\ txblob = EmptyMap /\ undo = EmptyMap
  /\ checkpoint = [height |-> Height[StartAt], hash |-> StartAt,
                   start |-> Height[StartAt] + 1]
  /\ EmptyOverlay /\ persisted = {}
  /\ core = FirstTip /\ pool = {} /\ feed = <<>>
  /\ ctl = At("down") /\ steady = FALSE
  /\ moves = 0 /\ crashes = 0 /\ faults = 0

-----------------------------------------------------------------------------
(***************************************************************************)
(* AddTransaction.  An input that spends an output some transaction of the *)
(* overlay already spends makes it fail.  The scripthash of an input comes *)
(* from the overlay's outputs, else from the index; when neither has it    *)
(* the input stays unresolved.                                             *)
(***************************************************************************)
DoubleSpends(t) == TxIn[t] \cap DOMAIN spentBy # {}

\* A variant that takes the transaction's own outputs for inputs as well.
ResolvedToo(t) == (TxIn[t] \cup TxOut[t]) \cap (DOMAIN outputs \cup txindex)

Resolved(t) == TxIn[t] \cap (DOMAIN outputs \cup txindex)

\* The Scripthashes of transaction t, its inputs `ins` resolved.
ScripthashesOf(t, ins) == {Script[o] : o \in ins \cup Indexable(t)}

PersistTransaction(t) == persisted' = persisted \cup Indexable(t)

AddTransaction(t) ==
  IF t \in DOMAIN transactions \/ DoubleSpends(t)
  THEN UNCHANGED overlayVars
  ELSE /\ transactions' = Put(transactions, t, Resolved(t))
       /\ byScripthash' =
            byScripthash \cup (ScripthashesOf(t, Resolved(t)) \X {t})
       /\ spentBy' = [o \in DOMAIN spentBy \cup TxIn[t] |->
                        IF o \in TxIn[t] THEN t ELSE spentBy[o]]
       /\ outputs' = [o \in DOMAIN outputs \cup Indexable(t) |->
                        IF o \in Indexable(t) THEN NoTx
                        ELSE IF o \in TxIn[t] THEN t ELSE outputs[o]]
       /\ PersistTransaction(t)

(***************************************************************************)
(* removeTransactionLocked for the transactions of T the overlay has,      *)
(* together with RemoveOutput for the outpoints in O.  The entries go      *)
(* whoever entered them; the spender of a transaction's own output is not  *)
(* told.                                                                   *)
(***************************************************************************)
InputsOf(T) == UNION {TxIn[t] : t \in T}

OutputsOf(T) == UNION {Indexable(t) : t \in T}

UnpersistTransactions(T) == persisted' = persisted \ OutputsOf(T)

\* A variant that leaves the spends of a removed transaction behind.
RemoveKeepingSpends(T, O) ==
  LET gone == T \cap DOMAIN transactions
  IN  /\ transactions' = Without(transactions, gone)
      /\ byScripthash' =
           byScripthash \ UNION {ScripthashesOf(t, transactions[t]) \X {t} : t \in gone}
      /\ spentBy' = Without(spentBy, O)
      /\ outputs' = Without(outputs, OutputsOf(gone) \cup O)
      /\ UnpersistTransactions(gone)

Remove(T, O) ==
  LET gone == T \cap DOMAIN transactions
  IN  /\ transactions' = Without(transactions, gone)
      /\ byScripthash' =
           byScripthash \ UNION {ScripthashesOf(t, transactions[t]) \X {t} : t \in gone}
      /\ spentBy' = Without(spentBy, InputsOf(gone) \cup O)
      /\ outputs' = Without(outputs, OutputsOf(gone) \cup O)
      /\ UnpersistTransactions(gone)

ClearPersistedData == persisted' = {}

Clear ==
  /\ transactions' = EmptyMap
  /\ byScripthash' = {}
  /\ spentBy' = EmptyMap
  /\ outputs' = EmptyMap
  /\ ClearPersistedData

(***************************************************************************)
(* ReconcileWith: transactions not in `valid` go, then outputs of such     *)
(* transactions (those LoadFromDatabase brought back), then the spends of  *)
(* such spenders.  Disk keys go only with a transaction of the overlay.    *)
(***************************************************************************)
OwnerOf(o) == CHOOSE t \in Tx : o \in TxOut[t]

\* A variant that drops nothing ...
ReconcileNothing(valid) == UNCHANGED overlayVars

\* ... and one that keeps what a restart brought back.
ReconcileTxsOnly(valid) == Remove(DOMAIN transactions \ valid, {})

ReconcileWith(valid) ==
  LET gone  == DOMAIN transactions \ valid
      loose == {o \in DOMAIN outputs : OwnerOf(o) \notin valid}
  IN  /\ transactions' = Without(transactions, gone)
      /\ byScripthash' =
           byScripthash \ ((UNION {ScripthashesOf(t, transactions[t]) \X {t} : t \in gone})
                           \cup {<<Script[o], OwnerOf(o)>> : o \in loose})
      /\ spentBy' = Restrict(spentBy, {o \in DOMAIN spentBy \ InputsOf(gone) :
                                         spentBy[o] \in valid})
      /\ outputs' = Without(outputs, loose)
      /\ UnpersistTransactions(gone)

\* LoadFromDatabase: outputs and byScripthash alone come back.
LoadFromDatabase ==
  /\ transactions' = EmptyMap
  /\ byScripthash' = {<<Script[o], OwnerOf(o)>> : o \in persisted}
  /\ spentBy' = EmptyMap
  /\ outputs' = [o \in persisted |-> NoTx]
  /\ UNCHANGED persisted

-----------------------------------------------------------------------------
(***************************************************************************)
(* The index moves.  IndexBlock takes the block's transactions, and the    *)
(* outputs it found spent, out of the overlay before it commits its batch. *)
(***************************************************************************)
Chain(b) == Anc[b] \cup {b}

Confirmed(b) == UNION {Range(BlockTxs[c]) : c \in Chain(b)}

\* The calls below touch none of these.
Elsewhere == <<coreVars, crashes, faults>>

IndexStart(b) ==
  /\ ctl.at = "idle"
  /\ b \in Chain(core) /\ Prev[b] = checkpoint.hash
  /\ Remove(Range(BlockTxs[b]), Inputs(b) \cap txindex)
  /\ ctl' = [At("commit") EXCEPT !.blk = b]
  /\ UNCHANGED <<storeVars, feed, steady, Elsewhere>>

IndexCommit ==
  /\ ctl.at = "commit"
  /\ Ledger!AppendBlock(ctl.blk)
  /\ ctl' = At("idle")
  /\ UNCHANGED <<overlayVars, feed, steady, Elsewhere>>

\* Initialize finds nothing to undo.
InitializeClean ==
  /\ ctl.at = "boot"
  /\ checkpoint.hash \in Chain(core)
  /\ ctl' = At("ready")
  /\ UNCHANGED <<storeVars, overlayVars, feed, steady, Elsewhere>>

\* CheckAndHandle finds the checkpoint off Core's chain and the highest stored
\* block, at height h, that is on it ...
RollbackStart(h) ==
  /\ ctl.at \in {"boot", "idle"}
  /\ checkpoint.hash \notin Chain(core)
  /\ header[h] \in Chain(core)
  /\ \A k \in DOMAIN header : k > h => header[k] \notin Chain(core)
  /\ ctl' = [At("rollback") EXCEPT
               !.blk = header[h],
               !.then = IF ctl.at = "boot" THEN "ready" ELSE "idle"]
  /\ UNCHANGED <<storeVars, overlayVars, feed, steady, Elsewhere>>

\* ... takes the blocks above it off ...
RollbackStep(h) ==
  /\ ctl.at = "rollback"
  /\ h > Height[ctl.blk]
  /\ Ledger!TakeOff(h)
  /\ UNCHANGED <<overlayVars, feed, ctl, steady, Elsewhere>>

\* ... lowers the checkpoint and clears the overlay.
RollbackDone ==
  /\ ctl.at = "rollback"
  /\ Ledger!LowerCheckpoint(ctl.blk)
  /\ Clear
  /\ ctl' = At(ctl.then)
  /\ UNCHANGED <<feed, steady, Elsewhere>>

(***************************************************************************)
(* runMainLoop: a rawtx message, and reconcileMempool (on its ticker, on a *)
(* gap of the rawtx stream, or once at start).  reconcileMempool lists     *)
(* Core's mempool, drops what is not in it, and then asks for what is      *)
(* missing one transaction at a time, in the order of the list, which is   *)
(* any order.                                                              *)
(***************************************************************************)
TakeTx ==
  /\ ctl.at = "idle" /\ feed # <<>>
  /\ AddTransaction(Head(feed))
  /\ feed' = Tail(feed)
  /\ UNCHANGED <<storeVars, ctl, steady, Elsewhere>>

Reconcile ==
  /\ ctl.at \in {"idle", "ready"}
  /\ ReconcileWith(pool)
  /\ ctl' = [At("backfill") EXCEPT !.todo = pool]
  /\ steady' = TRUE
  /\ UNCHANGED <<storeVars, feed, Elsewhere>>

\* One turn of the backfill loop: nothing for a transaction the overlay has.
\* Core finds what is in its mempool and, with an index of its own, what it
\* has confirmed meanwhile.
Backfill(t) ==
  /\ ctl.at = "backfill" /\ t \in ctl.todo
  /\ \/ t \in pool \cup Confirmed(core) /\ AddTransaction(t)
     \/ t \notin pool /\ UNCHANGED overlayVars
  /\ ctl' = [ctl EXCEPT !.todo = @ \ {t}]
  /\ UNCHANGED <<storeVars, feed, steady, Elsewhere>>

ReconcileDone ==
  /\ ctl.at = "backfill" /\ ctl.todo = {}
  /\ ctl' = At("idle")
  /\ UNCHANGED <<storeVars, overlayVars, feed, steady, Elsewhere>>

\* getrawmempool or getrawtransaction fails; the first ends the call.
RpcFails ==
  /\ faults < MaxFaults
  /\ faults' = faults + 1
  /\ steady' = FALSE
  /\ \/ ctl.at = "ready" /\ ctl' = At("idle")
     \/ \E t \in ctl.todo : /\ t \notin DOMAIN transactions
                            /\ ctl' = [ctl EXCEPT !.todo = @ \ {t}]
  /\ UNCHANGED <<storeVars, overlayVars, coreVars, feed, crashes>>

StartServer ==
  /\ ctl.at = "down"
  /\ LoadFromDatabase
  /\ ctl' = At("boot")
  /\ UNCHANGED <<storeVars, feed, steady, Elsewhere>>

-----------------------------------------------------------------------------
(***************************************************************************)
(* The environment: Core's mempool and best block, the rawtx stream, and   *)
(* the death of the process.  Core's mempool is any set of transactions    *)
(* that are not confirmed and spend, each output once, what its chain and  *)
(* the mempool itself create.                                              *)
(***************************************************************************)
Admissible(P, b) ==
  /\ P \cap Confirmed(b) = {}
  /\ \A t \in P : /\ TxIn[t] # {}
                  /\ TxIn[t] \subseteq UNION {TxOut[u] : u \in P \cup Confirmed(b)}
                  /\ TxIn[t] \cap InputsOf(Confirmed(b)) = {}
                  /\ \A u \in P \ {t} : TxIn[t] \cap TxIn[u] = {}

\* A message that finds no room, or no subscriber, is lost.
Publish(txs) ==
  feed' \in {feed} \cup {f \in {feed \o txs} : Len(f) <= MaxFeed /\ ctl.at # "down"}

CoreMoves ==
  /\ moves < MaxMoves /\ moves' = moves + 1
  /\ steady' = FALSE
  /\ UNCHANGED <<storeVars, overlayVars, ctl, crashes, faults>>

\* Transaction t enters Core's mempool; what it replaces, or what no longer
\* fits, leaves.
CoreAccepts(t) ==
  /\ t \notin pool
  /\ \E P \in SUBSET pool : Admissible(P \cup {t}, core) /\ pool' = P \cup {t}
  /\ Publish(<<t>>)
  /\ UNCHANGED core
  /\ CoreMoves

\* Core's best block becomes b.  Transactions of blocks it leaves may return
\* to the mempool; rawtx messages are sent for those of the new block, too.
CoreAdopts(b) ==
  /\ Height[b] > Height[core]
  /\ core' = b
  /\ \E P \in SUBSET (pool \cup Confirmed(core)) : Admissible(P, b) /\ pool' = P
  /\ Publish(BlockTxs[b])
  /\ CoreMoves

\* The process dies, but not within a rollback (ChainManager has that case).
Crash ==
  /\ ctl.at \notin {"down", "rollback"} /\ crashes < MaxCrashes
  /\ crashes' = crashes + 1
  /\ transactions' = EmptyMap /\ byScripthash' = {}
  /\ spentBy' = EmptyMap /\ outputs' = EmptyMap
  /\ feed' = <<>>
  /\ ctl' = At("down")
  /\ UNCHANGED <<storeVars, persisted, coreVars, steady, faults>>

Call ==
  \/ InitializeClean
  \/ IndexCommit
  \/ \E h \in DOMAIN header : RollbackStep(h)
  \/ RollbackDone
  \/ \E t \in Tx : Backfill(t)
  \/ ReconcileDone

Next ==
  \/ Call
  \/ StartServer
  \/ \E b \in Block : IndexStart(b)
  \/ \E h \in DOMAIN header : RollbackStart(h)
  \/ TakeTx
  \/ Reconcile
  \/ RpcFails
  \/ \E t \in Tx : CoreAccepts(t)
  \/ \E b \in Block : CoreAdopts(b)
  \/ Crash

(***************************************************************************)
(* Fairness: a call in progress goes on, the service manager restarts the  *)
(* process, and Go's select takes each case that keeps being ready.        *)
(***************************************************************************)
Fairness ==
  /\ WF_vars(Call)
  /\ WF_vars(StartServer)
  /\ SF_vars(\E b \in Block : IndexStart(b))
  /\ SF_vars(\E h \in DOMAIN header : RollbackStart(h))
  /\ SF_vars(TakeTx)
  /\ SF_vars(Reconcile)

Spec == Init /\ [][Next]_vars

FairSpec == Spec /\ Fairness

-----------------------------------------------------------------------------
(***************************************************************************)
(* What the Electrum handlers read.                                        *)
(***************************************************************************)

\* GetScripthashHistory: confirmed transactions, then those of the overlay.
ScripthashHistory(sh) == HistoryTxs(sh) \cup {t \in Tx : <<sh, t>> \in byScripthash}

UnspentOutputs(sh) == {o \in DOMAIN outputs : Script[o] = sh /\ outputs[o] = NoTx}

\* GetScripthashUnspent: UTXOs of the index not spent in the overlay, then the
\* overlay's own.
ScripthashUnspent(sh) ==
  {o \in DOMAIN utxo \ DOMAIN spentBy : Script[o] = sh} \cup UnspentOutputs(sh)

Worth(S) == MapThenSumSet(LAMBDA o : Value[o], S)

\* A variant that adds every output of such a transaction.
UnspentOfAnyone(t, sh) ==
  {o \in Indexable(t) : o \in DOMAIN outputs => outputs[o] = NoTx}

UnspentOf(t, sh) ==
  {o \in Indexable(t) : Script[o] = sh /\ (o \in DOMAIN outputs => outputs[o] = NoTx)}

\* GetBalance: over the transactions filed under sh, outputs without a
\* SpentByTxid are added, inputs whose scripthash was found are subtracted.
\* (The record of an output RemoveOutput took out of the map keeps the field;
\* after a reconcile there is none.)
MempoolBalance(sh) ==
  MapThenSumSet(LAMBDA t : Worth(UnspentOf(t, sh))
                           - Worth({o \in transactions[t] : Script[o] = sh}),
                {t \in DOMAIN transactions : <<sh, t>> \in byScripthash})

\* GetScripthashBalance: a UTXO of the index spent in the overlay is left out
\* of the confirmed part and subtracted from the unconfirmed one.
ScripthashBalance(sh) ==
  LET mine  == {o \in DOMAIN utxo : Script[o] = sh}
      spent == mine \cap DOMAIN spentBy
  IN  [confirmed |-> Worth(mine \ spent),
       unconfirmed |-> MempoolBalance(sh) - Worth(spent)]

\* IndexesAgree: whatever order transactions, blocks, rollbacks and restarts
\* come in, an outpoint marked as spent names a transaction that the overlay
\* still has and that spends it; a transaction is found under each scripthash
\* it was entered for; and the disk has every output a restart must find again.
IndexesAgree ==
  /\ \A o \in DOMAIN spentBy :
       spentBy[o] \in DOMAIN transactions /\ o \in TxIn[spentBy[o]]
  /\ \A t \in DOMAIN transactions :
       ScripthashesOf(t, transactions[t]) \X {t} \subseteq byScripthash
  /\ DOMAIN outputs \cup OutputsOf(DOMAIN transactions) \subseteq persisted

\* The overlay holds Core's mempool: its transactions, the outputs they spend,
\* the outputs they create, and an entry in the history of whoever is paid.
HoldsPool ==
  /\ DOMAIN transactions = pool
  /\ spentBy = [o \in InputsOf(pool) |-> CHOOSE t \in pool : o \in TxIn[t]]
  /\ DOMAIN outputs = OutputsOf(pool)
  /\ \A t \in pool : \A o \in Indexable(t) : t \in ScripthashHistory(Script[o])

\* ReconcileExact: when reconcileMempool returns, no call of it having failed
\* and Core not having changed meanwhile, and Core's best block is indexed, the
\* overlay holds Core's mempool, whatever it was before: stale, conflicting,
\* half restored from disk.
ReconcileExact ==
  [][ReconcileDone /\ steady /\ checkpoint.hash = core => HoldsPool]_vars

\* BalanceAgrees: from then on get_balance, which goes through transactions and
\* byScripthash, and listunspent, which goes through outputs, tell the same sum
\* of a scripthash none of whose outputs is being spent.
BalanceAgrees ==
  [][ReconcileDone /\ steady /\ checkpoint.hash = core =>
       \A sh \in Range(Script) :
         (\A o \in DOMAIN spentBy : Script[o] # sh) =>
           ScripthashBalance(sh).confirmed + ScripthashBalance(sh).unconfirmed
             = Worth(ScripthashUnspent(sh))]_vars

\* PoolReached: once Core rests, the overlay comes to have the transactions of
\* Core's mempool and keeps them, lost messages and late ones notwithstanding.
PoolReached == <>[](DOMAIN transactions = pool)

-----------------------------------------------------------------------------
(***************************************************************************)
(* What comments say and the code does not do (see README).                *)
(***************************************************************************)

\* An undisturbed reconcile has looked at every transaction.
Reconciled ==
  ctl.at = "backfill" /\ ctl.todo = {} /\ steady /\ checkpoint.hash = core

\* ListedUnspent: an entry of listunspent "represents an unspent output"
\* (types.go): after such a reconcile, one that Core's mempool does not spend.
ListedUnspent ==
  Reconciled => \A sh \in Range(Script) : ScripthashUnspent(sh) \cap InputsOf(pool) = {}

\* BalanceTotal: "the sum of confirmed UTXO values" and "the sum of unconfirmed
\* UTXO values", negative "if confirmed UTXOs are spent in mempool" (types.go),
\* come to what Core's chain and mempool leave the scripthash.
BalanceTotal ==
  Reconciled =>
    \A sh \in Range(Script) :
      ScripthashBalance(sh).confirmed + ScripthashBalance(sh).unconfirmed
        = Worth({o \in (DOMAIN utxo \cup OutputsOf(pool)) \ InputsOf(pool) : Script[o] = sh})
=============================================================================
