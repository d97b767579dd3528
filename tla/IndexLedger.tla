---------------------------- MODULE IndexLedger -----------------------------
(***************************************************************************)
(* The discipline under which the index is a function of the chain it has  *)
(* indexed, and what it then promises its readers.  Blocks are appended to *)
(* the checkpoint, taken off the top one at a time, and the checkpoint is  *)
(* then lowered to the highest block left.  The block path and the reorg   *)
(* path of the indexer follow this discipline; module ChainManager shows   *)
(* where the program keeps to it and where it leaves it.                   *)
(***************************************************************************)
EXTENDS IndexStore

Stored == DOMAIN header

\* The highest stored block is the one the checkpoint names.
TipStored ==
  /\ \A h \in Stored : h <= checkpoint.height
  /\ Stored # {} => checkpoint.height \in Stored

IsTop(h) == h \in Stored /\ \A k \in Stored : k <= h

-----------------------------------------------------------------------------
Init == EmptyStore

\* SetStartHeight on a fresh database: s is the block below the first one
\* to be indexed.
SetStart(s) ==
  /\ checkpoint = FreshCheckpoint
  /\ SaveCheckpoint([height |-> Height[s], hash |-> s, start |-> Height[s] + 1])

\* A variant without the check that the block connects.
AppendUnchecked(b) ==
  /\ TipStored
  /\ IndexBlock(b, checkpoint.height + 1)

\* A block that connects to the checkpoint is indexed.
AppendBlock(b) ==
  /\ Prev[b] = checkpoint.hash
  /\ TipStored
  /\ IndexBlock(b, checkpoint.height + 1)

\* One turn of the loop of rollbackToHeight.
TakeOff(h) ==
  /\ IsTop(h)
  /\ RollbackBlock(h, header[h])

\* The end of rollbackToHeight: the checkpoint names the highest block left
\* or, when none is left, a block of Core's below the first one indexed.
LowerCheckpoint(b) ==
  /\ checkpoint # FreshCheckpoint
  /\ Height[b] <= checkpoint.height
  /\ Stored # {} => IsTop(Height[b]) /\ header[Height[b]] = b
  /\ SaveCheckpoint([height |-> Height[b], hash |-> b, start |-> 0])

Prune(keep) == PruneUndoData(keep)

Next ==
  \/ \E b \in Block : SetStart(b) \/ AppendBlock(b) \/ LowerCheckpoint(b)
  \/ \E h \in Stored : TakeOff(h)
  \/ \E keep \in Range(Height) : Prune(keep)

Spec == Init /\ [][Next]_storeVars

-----------------------------------------------------------------------------
(***************************************************************************)
(* What the index holds, said in terms of the stored chain alone.          *)
(***************************************************************************)

\* Output o, created at height h, is spent by no stored block above.
Unspent(h, o) ==
  /\ o \in Created(header[h])
  /\ \A k \in Stored : k > h => o \notin Inputs(header[k])

\* The inputs of the block at height h whose output an earlier stored block
\* created.
Found(h) ==
  {o \in Inputs(header[h]) :
     \E k \in Stored : k < h /\ o \in Created(header[k])}

\* TypeOK: every record is of the kind its readers parse.
TypeOK == StoreTypeOK

\* HeadersLinked: the stored headers are one unbroken piece of one branch,
\* each at its own height, and the checkpoint is at or above the highest
\* (above it only while rollbackToHeight is at work).
HeadersLinked ==
  /\ \A h \in Stored : Height[header[h]] = h
  /\ \A h, k \in Stored : h < k => header[h] \in Anc[header[k]]
  /\ \A h, k \in Stored : \A m \in h .. k : m \in Stored
  /\ \A h \in Stored : h <= checkpoint.height
  /\ checkpoint.height \in Stored => header[checkpoint.height] = checkpoint.hash
  /\ checkpoint # FreshCheckpoint =>
       checkpoint.hash \in Block /\ Height[checkpoint.hash] = checkpoint.height
  /\ checkpoint = FreshCheckpoint => Stored = {}

\* UtxoExact: the UTXO keys are the outputs created by the stored chain that
\* no later stored block spends, each with the block that created it, and the
\* txindex has the same outpoints.  Indexing and rollback, in any order, leave
\* neither an orphan's output nor lose one the chain still has.
UtxoExact ==
  /\ DOMAIN utxo = {o \in Outpoint : \E h \in Stored : Unspent(h, o)}
  /\ \A o \in DOMAIN utxo : \E h \in Stored :
       /\ Unspent(h, o)
       /\ utxo[o] = [height |-> h, hash |-> header[h]]
  /\ txindex = DOMAIN utxo

\* HistoryExact: the history keys are those of the stored chain's blocks.
HistoryExact ==
  history = UNION {HistoryOf(header[h], h, Found(h)) : h \in Stored}

\* UndoExact: an undo record belongs to a stored block and lists precisely
\* what indexing it changed, with the values it overwrote.
UndoExact ==
  \A key \in DOMAIN undo :
    LET h == key[1]
        u == undo[key]
    IN  /\ h \in Stored
        /\ header[h] = key[2]
        /\ u.created = Created(header[h])
        /\ u.history = HistoryOf(header[h], h, Found(h))
        /\ DOMAIN u.spent = Found(h)
        /\ \A o \in Found(h) : \E k \in Stored :
             /\ k < h
             /\ o \in Created(header[k])
             /\ u.spent[o] = [height |-> k, hash |-> header[k]]

\* PositionsExact: the position of every transaction of the stored chain is its
\* place in that chain, and the blob of every stored height is that block's.
PositionsExact ==
  \A h \in Stored :
    /\ h \in DOMAIN txblob
    /\ txblob[h] = BlockTxs[header[h]]
    /\ \A i \in 1 .. Len(BlockTxs[header[h]]) :
         /\ BlockTxs[header[h]][i] \in DOMAIN txpos
         /\ txpos[BlockTxs[header[h]][i]] = <<h, i>>

\* LookupExact: transaction.get answers a transaction of the stored chain
\* with that transaction, although rollbackBlock leaves the positions and
\* blobs of orphaned blocks behind.
LookupExact ==
  \A h \in Stored : \A t \in Range(BlockTxs[header[h]]) : LookupTx(t) = {t}

\* HistoryReadsExact: the history of a scripthash has the transactions of the
\* stored chain that touch it and no other, read through the txid list of
\* each height.
HistoryReadsExact ==
  \A sh \in Range(Script) :
    HistoryTxs(sh) =
      {t \in Tx : \E h \in Stored : \E i \in 1 .. Len(BlockTxs[header[h]]) :
         /\ BlockTxs[header[h]][i] = t
         /\ sh \in Touched(header[h], i, Found(h))}

-----------------------------------------------------------------------------
(***************************************************************************)
(* What comments and documents say and the code does not do (see README).  *)
(***************************************************************************)

\* UnspentOnly: a UTXO entry "represents an unspent output" (types.go), one
\* that no block of the stored chain spends.
UnspentOnly ==
  \A o \in DOMAIN utxo : \A h \in Stored : o \notin Inputs(header[h])

\* LookupOwn: the index has a "txid -> (height, txIndex) lookup" (README.md); a
\* transaction found with it is the one asked for, or none is found, also when
\* its block has been rolled back.
LookupOwn == \A t \in Tx : LookupTx(t) \subseteq {t}
=============================================================================
