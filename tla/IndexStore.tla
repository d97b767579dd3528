----------------------------- MODULE IndexStore -----------------------------
(***************************************************************************)
(* The Pebble index of electrum-go and the batches that change it:         *)
(* BlockIndexer.IndexBlock, ReorgHandler.rollbackBlock, DB.SaveCheckpoint  *)
(* and DB.PruneUndoData.  Each of them commits one synced batch, so each   *)
(* is one atomic action here.  Who calls them, and when, is the business   *)
(* of the modules that extend this one (IndexLedger, ChainManager).        *)
(*                                                                         *)
(* A block is identified with its hash and a transaction with its txid.    *)
(* Keys and values keep the fields the code reads back; their byte layout, *)
(* amounts and scripts (but for the scripthash) are left out.  The history *)
(* key drops the running counter that only keeps keys of one block apart.  *)
(* Places in a block are counted from one, as in any sequence here; the    *)
(* code counts them from zero.                                             *)
(***************************************************************************)
EXTENDS Integers, Sequences, Functions

CONSTANTS
  Block,          \* the blocks Bitcoin Core may ever show us
  Prev,           \* Prev[b]: the PrevBlock field of b's header
  Height,         \* Height[b]: b's height in the block tree
  Anc,            \* Anc[b]: the blocks below b on b's own branch
  Tx,             \* transactions (txids)
  BlockTxs,       \* BlockTxs[b]: b's transactions, the coinbase first
  TxIn,           \* TxIn[t]: the outpoints t's inputs spend
  TxOut,          \* TxOut[t]: the outpoints t's outputs create
  Skipped,        \* outpoints of OP_RETURN or zero-valued outputs
  Script,         \* Script[o]: scripthash of output o
  NoHash,         \* the empty BlockHash of a checkpoint never written
  ZeroHash        \* chainhash.Hash{}, thirty-two zero bytes

Outpoint == UNION {TxOut[t] : t \in Tx}

\* The outpoints the inputs of block b spend: the coinbase has none.
Inputs(b) == UNION {TxIn[BlockTxs[b][i]] : i \in 2 .. Len(BlockTxs[b])}

\* The outputs IndexBlock writes for transaction t ...
Indexable(t) == TxOut[t] \ Skipped

\* ... and for block b.
Created(b) == UNION {Indexable(BlockTxs[b][i]) : i \in 1 .. Len(BlockTxs[b])}

(***************************************************************************)
(* The block tree.  A block's branch is its predecessor's branch and the   *)
(* predecessor.                                                            *)
(***************************************************************************)
ASSUME TreeAssumption ==
  /\ NoHash \notin Block /\ ZeroHash \notin Block /\ NoHash # ZeroHash
  /\ Prev \in [Block -> Block \cup {ZeroHash}]
  /\ Height \in [Block -> Nat]
  /\ Anc \in [Block -> SUBSET Block]
  /\ \A b \in Block :
       IF Prev[b] = ZeroHash
       THEN Height[b] = 0 /\ Anc[b] = {}
       ELSE /\ Height[b] = Height[Prev[b]] + 1
            /\ Anc[b] = Anc[Prev[b]] \cup {Prev[b]}

ASSUME TxAssumption ==
  /\ TxIn \in [Tx -> SUBSET Outpoint]
  /\ BlockTxs \in [Block -> Seq(Tx)]
  /\ DOMAIN TxOut = Tx
  /\ DOMAIN Script = Outpoint
  /\ \A b \in Block : \A i, j \in DOMAIN BlockTxs[b] :
       BlockTxs[b][i] = BlockTxs[b][j] => i = j

(***************************************************************************)
(* What Bitcoin Core's validation guarantees of every branch, and the      *)
(* indexer takes from it: no transaction occurs twice, no output is        *)
(* created twice or spent twice, and none is spent by a block below the    *)
(* one that creates it.                                                    *)
(***************************************************************************)
ASSUME ConsensusAssumption ==
  \A b \in Block : \A a \in Anc[b] :
    /\ Created(a) \cap Created(b) = {}
    /\ Inputs(a) \cap Inputs(b) = {}
    /\ Inputs(a) \cap Created(b) = {}
    /\ Range(BlockTxs[a]) \cap Range(BlockTxs[b]) = {}

-----------------------------------------------------------------------------
VARIABLES
  utxo,       \* 'u' keys: outpoint -> [height, hash] of the creating block
  txindex,    \* outpoints with a txindex key (its value is Script[o])
  history,    \* history keys <<scripthash, height, position in the block>>
  header,     \* height -> block; header and txid list share every batch
  txpos,      \* txid -> <<height, position in the block>>
  txblob,     \* height -> transactions of the stored blob and its offsets
  undo,       \* <<height, hash>> -> undo record
  checkpoint  \* [height, hash, start]

storeVars ==
  <<utxo, txindex, history, header, txpos, txblob, undo, checkpoint>>

UtxoValue == [height : Int, hash : Block]

HistoryKey == Range(Script) \X Int \X (Nat \ {0})

UndoRecord(r) ==
  /\ DOMAIN r = {"created", "spent", "history"}
  /\ r.created \subseteq Outpoint
  /\ DOMAIN r.spent \subseteq Outpoint
  /\ r.spent \in [DOMAIN r.spent -> UtxoValue]
  /\ r.history \subseteq HistoryKey

Checkpoint == [height : Int, hash : Block \cup {NoHash, ZeroHash}, start : Int]

\* Every record of the index is of the kind its readers parse.
StoreTypeOK ==
  /\ DOMAIN utxo \subseteq Outpoint
  /\ utxo \in [DOMAIN utxo -> UtxoValue]
  /\ txindex \subseteq Outpoint
  /\ history \subseteq HistoryKey
  /\ DOMAIN header \subseteq Int
  /\ header \in [DOMAIN header -> Block]
  /\ DOMAIN txpos \subseteq Tx
  /\ txpos \in [DOMAIN txpos -> Int \X (Nat \ {0})]
  /\ DOMAIN txblob \subseteq Int
  /\ txblob \in [DOMAIN txblob -> Seq(Tx)]
  /\ DOMAIN undo \subseteq Int \X Block
  /\ \A k \in DOMAIN undo : UndoRecord(undo[k])
  /\ checkpoint \in Checkpoint

\* LoadCheckpoint's zero value, the sign of a fresh database.
FreshCheckpoint == [height |-> 0, hash |-> NoHash, start |-> 0]

EmptyMap == [x \in {} |-> x]

\* A database directory that has just been created.
EmptyStore ==
  /\ utxo = EmptyMap
  /\ txindex = {}
  /\ history = {}
  /\ header = EmptyMap
  /\ txpos = EmptyMap
  /\ txblob = EmptyMap
  /\ undo = EmptyMap
  /\ checkpoint = FreshCheckpoint

-----------------------------------------------------------------------------
(***************************************************************************)
(* IndexBlock.  Spent outputs are looked up in the database, never in the  *)
(* batch being built, so an output created in the same block is not found  *)
(* and the input is skipped.                                               *)
(***************************************************************************)
SpentBy(b) == Inputs(b) \cap txindex \cap DOMAIN utxo

\* The scripthashes transaction number i of block b touches, when its block
\* finds the outpoints of `spent` in the database.
Touched(b, i, spent) ==
  LET t == BlockTxs[b][i]
      ins == IF i = 1 THEN {} ELSE TxIn[t] \cap spent
  IN  {Script[o] : o \in ins \cup Indexable(t)}

\* A variant that forgets the coinbase.
HistoryOfSpends(b, h, spent) ==
  UNION {{<<sh, h, i>> : sh \in Touched(b, i, spent)} :
           i \in 2 .. Len(BlockTxs[b])}

HistoryOf(b, h, spent) ==
  UNION {{<<sh, h, i>> : sh \in Touched(b, i, spent)} :
           i \in 1 .. Len(BlockTxs[b])}

\* The place of transaction t in block b.
PlaceIn(b, t) == CHOOSE i \in 1 .. Len(BlockTxs[b]) : BlockTxs[b][i] = t

\* A variant that counts positions from zero ...
PositionsFromZero(b, h) ==
  LET mine == Range(BlockTxs[b])
  IN  [t \in DOMAIN txpos \cup mine |->
         IF t \in mine THEN <<h, PlaceIn(b, t) - 1>> ELSE txpos[t]]

\* ... and one that does not overwrite the position of an orphaned block.
PositionsKept(b, h) ==
  LET new == Range(BlockTxs[b]) \ DOMAIN txpos
  IN  [t \in DOMAIN txpos \cup new |->
         IF t \in new THEN <<h, PlaceIn(b, t)>> ELSE txpos[t]]

\* SaveTxPosInBatch for every transaction of the block.
Positions(b, h) ==
  LET mine == Range(BlockTxs[b])
  IN  [t \in DOMAIN txpos \cup mine |->
         IF t \in mine THEN <<h, PlaceIn(b, t)>> ELSE txpos[t]]

\* Map m with key k set to v.
Put(m, k, v) == [x \in DOMAIN m \cup {k} |-> IF x = k THEN v ELSE m[x]]

\* Map m without the keys in S.
Without(m, S) == Restrict(m, DOMAIN m \ S)

IndexBlock(b, h) ==
  LET spent == SpentBy(b)
      added == Created(b)
      hist  == HistoryOf(b, h, spent)
  IN  /\ utxo' = [o \in (DOMAIN utxo \cup added) \ spent |->
                    IF o \in added THEN [height |-> h, hash |-> b] ELSE utxo[o]]
      /\ txindex' = (txindex \cup added) \ spent
      /\ history' = history \cup hist
      /\ undo' = Put(undo, <<h, b>>, [created |-> added,
                                      spent   |-> Restrict(utxo, spent),
                                      history |-> hist])
      /\ header' = Put(header, h, b)
      /\ txpos' = Positions(b, h)
      /\ txblob' = Put(txblob, h, BlockTxs[b])
      /\ checkpoint' = [height |-> h, hash |-> b, start |-> checkpoint.start]

(***************************************************************************)
(* rollbackBlock: undoes what the undo record lists and deletes it.        *)
(* Positions, blobs and offsets are left behind, and so is the checkpoint. *)
(* The loops over created and spent outputs are RestoreOutputs.            *)
(***************************************************************************)

\* A variant that does not bring back what the block spent.
DeleteOutputs(u) ==
  /\ utxo' = Without(utxo, u.created)
  /\ txindex' = txindex \ u.created

RestoreOutputs(u) ==
  LET back == DOMAIN u.spent
  IN  /\ utxo' = [o \in (DOMAIN utxo \ u.created) \cup back |->
                    IF o \in back THEN u.spent[o] ELSE utxo[o]]
      /\ txindex' = (txindex \ u.created) \cup back

\* A variant that leaves the orphan's history behind.
KeepHistory(u) == history' = history

DeleteHistory(u) == history' = history \ u.history

\* A variant that leaves the undo record behind.
KeepUndo(h, b) == undo' = undo

DeleteUndo(h, b) == undo' = Without(undo, {<<h, b>>})

RollbackBlock(h, b) ==
  /\ <<h, b>> \in DOMAIN undo
  /\ RestoreOutputs(undo[<<h, b>>])
  /\ DeleteHistory(undo[<<h, b>>])
  /\ header' = Without(header, {h})
  /\ DeleteUndo(h, b)
  /\ UNCHANGED <<txpos, txblob, checkpoint>>

SaveCheckpoint(cp) ==
  /\ checkpoint' = cp
  /\ UNCHANGED <<utxo, txindex, history, header, txpos, txblob, undo>>

\* PruneUndoData deletes the undo records of heights below maxHeightToKeep.
PruneUndoData(maxHeightToKeep) ==
  /\ undo' = Without(undo, {k \in DOMAIN undo : k[1] < maxHeightToKeep})
  /\ UNCHANGED <<utxo, txindex, history, header, txpos, txblob, checkpoint>>

-----------------------------------------------------------------------------
(***************************************************************************)
(* What the Electrum handlers read.                                        *)
(***************************************************************************)

\* A variant that never reads the last transaction of a blob.
TxAtButLast(h, i) ==
  IF h \in DOMAIN txblob /\ i < Len(txblob[h]) THEN {txblob[h][i]} ELSE {}

\* Transaction number i of the blob at height h, cut out by its offsets.  The
\* answer is a set: empty when the handler fails.
TxAt(h, i) ==
  IF h \in DOMAIN txblob /\ i <= Len(txblob[h]) THEN {txblob[h][i]} ELSE {}

\* getTxFromDB: the stored position, then the transaction at that place.
LookupTx(t) ==
  IF t \in DOMAIN txpos THEN TxAt(txpos[t][1], txpos[t][2]) ELSE {}

\* GetScripthashHistory, confirmed part: a history key names a place in the
\* txid list of a height, whatever block is stored there.
HistoryTxs(sh) ==
  {BlockTxs[header[e[2]]][e[3]] :
     e \in {k \in history : /\ k[1] = sh
                            /\ k[2] \in DOMAIN header
                            /\ k[3] <= Len(BlockTxs[header[k[2]]])}}
=============================================================================
