-------------------------- MODULE IndexStoreProofs --------------------------
(***************************************************************************)
(* Lemmas about the batches of module IndexStore, for the proofs about the *)
(* modules that extend it: what each batch writes is of the kind its       *)
(* readers parse, and a height that is stored with a block stays that      *)
(* block's height.  The last part is about the block tree.                 *)
(***************************************************************************)
EXTENDS IndexStore, WellFoundedInduction, TLAPS

\* The outputs IndexBlock writes for a block are outpoints.
LEMMA CreatedType ==
  ASSUME NEW b \in Block
  PROVE  Created(b) \subseteq Outpoint
<1>1. BlockTxs[b] \in Seq(Tx)
  BY TxAssumption
<1>2. \A i \in 1 .. Len(BlockTxs[b]) : BlockTxs[b][i] \in Tx
  BY <1>1
<1> QED
  BY <1>2 DEF Created, Indexable, Outpoint

\* The inputs IndexBlock looks up for a block name outpoints.
LEMMA InputsType ==
  ASSUME NEW b \in Block
  PROVE  Inputs(b) \subseteq Outpoint
<1>1. BlockTxs[b] \in Seq(Tx)
  BY TxAssumption
<1>2. \A i \in 2 .. Len(BlockTxs[b]) : BlockTxs[b][i] \in Tx
  BY <1>1
<1>3. \A t \in Tx : TxIn[t] \subseteq Outpoint
  BY TxAssumption
<1> QED
  BY <1>2, <1>3 DEF Inputs

\* The history keys IndexBlock writes for a block are history keys.
LEMMA HistoryOfType ==
  ASSUME NEW b \in Block, NEW h \in Int, NEW spent \in SUBSET Outpoint
  PROVE  HistoryOf(b, h, spent) \subseteq HistoryKey
<1>1. BlockTxs[b] \in Seq(Tx)
  BY TxAssumption
<1>2. \A i \in 1 .. Len(BlockTxs[b]) : BlockTxs[b][i] \in Tx /\ i \in Nat \ {0}
  BY <1>1
<1>3. \A t \in Tx : Indexable(t) \subseteq Outpoint
  BY DEF Indexable, Outpoint
<1>4. \A i \in 1 .. Len(BlockTxs[b]) : Touched(b, i, spent) \subseteq Range(Script)
  BY <1>2, <1>3, TxAssumption DEF Touched, Range
<1> QED
  BY <1>2, <1>4 DEF HistoryOf, HistoryKey

\* Every transaction of a block has a place in it, counted from one, as
\* SaveTxPosInBatch stores it.
LEMMA PlaceType ==
  ASSUME NEW b \in Block
  PROVE  /\ Range(BlockTxs[b]) \subseteq Tx
         /\ \A t \in Range(BlockTxs[b]) : PlaceIn(b, t) \in Nat \ {0}
<1>1. BlockTxs[b] \in Seq(Tx)
  BY TxAssumption
<1>2. ASSUME NEW t \in Range(BlockTxs[b])
      PROVE  t \in Tx /\ \E i \in 1 .. Len(BlockTxs[b]) : BlockTxs[b][i] = t
  BY <1>1, <1>2 DEF Range
<1>3. ASSUME NEW t \in Range(BlockTxs[b])
      PROVE  PlaceIn(b, t) \in Nat \ {0}
  BY <1>1, <1>2, <1>3 DEF PlaceIn
<1> QED
  BY <1>2, <1>3

\* The place stored for the i-th transaction of a block is i, since no
\* transaction occurs twice in a block.
LEMMA PlaceExact ==
  ASSUME NEW b \in Block, NEW i \in 1 .. Len(BlockTxs[b])
  PROVE  BlockTxs[b][i] \in Range(BlockTxs[b]) /\ PlaceIn(b, BlockTxs[b][i]) = i
<1>1. BlockTxs[b] \in Seq(Tx)
  BY TxAssumption
<1>2. \A j \in 1 .. Len(BlockTxs[b]) : BlockTxs[b][j] = BlockTxs[b][i] => j = i
  BY <1>1, TxAssumption
<1>3. PlaceIn(b, BlockTxs[b][i]) = i
  BY <1>2 DEF PlaceIn
<1> QED
  BY <1>1, <1>3 DEF Range

\* Every history key IndexBlock writes has the height of its block, so the
\* keys of different blocks differ.
LEMMA HistoryOfHeight ==
  ASSUME NEW b, NEW h, NEW spent, NEW e \in HistoryOf(b, h, spent)
  PROVE  e[2] = h
BY DEF HistoryOf
-----------------------------------------------------------------------------
\* The batch of IndexBlock writes records of the kind their readers parse.
LEMMA IndexBlockType ==
  ASSUME StoreTypeOK, NEW b \in Block, NEW h \in Int, IndexBlock(b, h)
  PROVE  StoreTypeOK'
<1>1. /\ Created(b) \subseteq Outpoint
      /\ SpentBy(b) \subseteq Outpoint
      /\ SpentBy(b) \subseteq DOMAIN utxo
  BY CreatedType, InputsType DEF SpentBy
<1>2. /\ utxo' = [o \in (DOMAIN utxo \cup Created(b)) \ SpentBy(b) |->
                   IF o \in Created(b) THEN [height |-> h, hash |-> b] ELSE utxo[o]]
      /\ txindex' = (txindex \cup Created(b)) \ SpentBy(b)
      /\ history' = history \cup HistoryOf(b, h, SpentBy(b))
      /\ undo' = Put(undo, <<h, b>>, [created |-> Created(b),
                                     spent   |-> Restrict(utxo, SpentBy(b)),
                                     history |-> HistoryOf(b, h, SpentBy(b))])
      /\ header' = Put(header, h, b)
      /\ txpos' = Positions(b, h)
      /\ txblob' = Put(txblob, h, BlockTxs[b])
      /\ checkpoint' = [height |-> h, hash |-> b, start |-> checkpoint.start]
  BY DEF IndexBlock
<1>3. /\ DOMAIN utxo' \subseteq Outpoint
      /\ utxo' \in [DOMAIN utxo' -> UtxoValue]
      /\ txindex' \subseteq Outpoint
  BY <1>1, <1>2 DEF StoreTypeOK, UtxoValue
<1>4. history' \subseteq HistoryKey
  BY <1>1, <1>2, HistoryOfType DEF StoreTypeOK
<1>5. DOMAIN header' \subseteq Int /\ header' \in [DOMAIN header' -> Block]
  BY <1>2 DEF Put, StoreTypeOK
<1>6. DOMAIN txpos' \subseteq Tx /\ txpos' \in [DOMAIN txpos' -> Int \X (Nat \ {0})]
  <2>1. /\ Range(BlockTxs[b]) \subseteq Tx
        /\ \A t \in Range(BlockTxs[b]) : PlaceIn(b, t) \in Nat \ {0}
    BY PlaceType
  <2> QED
    BY <1>2, <2>1 DEF Positions, StoreTypeOK
<1>7. DOMAIN txblob' \subseteq Int /\ txblob' \in [DOMAIN txblob' -> Seq(Tx)]
  BY <1>2, TxAssumption DEF Put, StoreTypeOK
<1>8. DOMAIN undo' \subseteq Int \X Block /\ \A k \in DOMAIN undo' : UndoRecord(undo'[k])
  <2>1. UndoRecord([created |-> Created(b),
                    spent   |-> Restrict(utxo, SpentBy(b)),
                    history |-> HistoryOf(b, h, SpentBy(b))])
    BY <1>1, HistoryOfType DEF UndoRecord, Restrict, StoreTypeOK
  <2> QED
    BY <1>2, <2>1 DEF Put, StoreTypeOK
<1>9. checkpoint' \in Checkpoint
  BY <1>2 DEF StoreTypeOK, Checkpoint
<1> QED
  BY <1>3, <1>4, <1>5, <1>6, <1>7, <1>8, <1>9 DEF StoreTypeOK, UndoRecord

\* What rollbackBlock restores from an undo record is of the right kind.
LEMMA RollbackBlockType ==
  ASSUME StoreTypeOK, NEW b, NEW h, RollbackBlock(h, b)
  PROVE  StoreTypeOK'
<1> DEFINE u == undo[<<h, b>>]
<1>1. /\ <<h, b>> \in DOMAIN undo
      /\ header' = Without(header, {h})
      /\ undo' = Without(undo, {<<h, b>>})
      /\ utxo' = [o \in (DOMAIN utxo \ u.created) \cup DOMAIN u.spent |->
                   IF o \in DOMAIN u.spent THEN u.spent[o] ELSE utxo[o]]
      /\ txindex' = (txindex \ u.created) \cup DOMAIN u.spent
      /\ history' = history \ u.history
      /\ UNCHANGED <<txpos, txblob, checkpoint>>
  BY DEF RollbackBlock, RestoreOutputs, DeleteHistory, DeleteUndo
<1>2. /\ u.created \subseteq Outpoint
      /\ DOMAIN u.spent \subseteq Outpoint
      /\ u.spent \in [DOMAIN u.spent -> UtxoValue]
  BY <1>1 DEF StoreTypeOK, UndoRecord
<1> HIDE DEF u
<1>3. DOMAIN utxo' \subseteq Outpoint /\ txindex' \subseteq Outpoint /\ history' \subseteq HistoryKey
  BY <1>1, <1>2 DEF StoreTypeOK
<1>4. utxo' \in [DOMAIN utxo' -> UtxoValue]
  BY <1>1, <1>2 DEF StoreTypeOK
<1>5. DOMAIN header' \subseteq Int /\ header' \in [DOMAIN header' -> Block]
  BY <1>1 DEF StoreTypeOK, Without, Restrict
<1>6. DOMAIN undo' \subseteq Int \X Block /\ \A k \in DOMAIN undo' : UndoRecord(undo'[k])
  BY <1>1 DEF StoreTypeOK, Without, Restrict
<1> QED
  BY <1>1, <1>3, <1>4, <1>5, <1>6 DEF StoreTypeOK, UndoRecord

\* SaveCheckpoint of a well-formed checkpoint.
LEMMA SaveCheckpointType ==
  ASSUME StoreTypeOK, NEW cp \in Checkpoint, SaveCheckpoint(cp)
  PROVE  StoreTypeOK'
BY DEF StoreTypeOK, SaveCheckpoint, UndoRecord

\* PruneUndoData only removes records.
LEMMA PruneType ==
  ASSUME StoreTypeOK, NEW keep, PruneUndoData(keep)
  PROVE  StoreTypeOK'
<1>1. /\ UNCHANGED <<utxo, txindex, history, header, txpos, txblob, checkpoint>>
      /\ DOMAIN undo' \subseteq DOMAIN undo
      /\ \A k \in DOMAIN undo' : undo'[k] = undo[k]
  BY DEF PruneUndoData, Without, Restrict
<1> QED
  BY <1>1 DEF StoreTypeOK, UndoRecord

\* A step that leaves the index alone.
LEMMA SameStoreType ==
  ASSUME StoreTypeOK, UNCHANGED storeVars
  PROVE  StoreTypeOK'
BY DEF StoreTypeOK, UndoRecord, storeVars

-----------------------------------------------------------------------------
(***************************************************************************)
(* Heights.  Every record that names a block also names its height; these  *)
(* are the records of the index that do.                                   *)
(***************************************************************************)
StoreHeights ==
  /\ checkpoint.hash \in Block => Height[checkpoint.hash] = checkpoint.height
  /\ \A h \in DOMAIN header : Height[header[h]] = h
  /\ \A o \in DOMAIN utxo : Height[utxo[o].hash] = utxo[o].height
  /\ \A k \in DOMAIN undo :
       /\ Height[k[2]] = k[1]
       /\ \A o \in DOMAIN undo[k].spent :
            Height[undo[k].spent[o].hash] = undo[k].spent[o].height

\* A block indexed at its own height: the records it overwrites go into the
\* undo record with the heights they had.
LEMMA IndexBlockHeights ==
  ASSUME StoreTypeOK, StoreHeights, NEW b \in Block, NEW h, Height[b] = h, IndexBlock(b, h)
  PROVE  StoreHeights'
<1>1. /\ utxo' = [o \in (DOMAIN utxo \cup Created(b)) \ SpentBy(b) |->
                   IF o \in Created(b) THEN [height |-> h, hash |-> b] ELSE utxo[o]]
      /\ undo' = Put(undo, <<h, b>>, [created |-> Created(b),
                                     spent   |-> Restrict(utxo, SpentBy(b)),
                                     history |-> HistoryOf(b, h, SpentBy(b))])
      /\ header' = Put(header, h, b)
      /\ checkpoint' = [height |-> h, hash |-> b, start |-> checkpoint.start]
  BY DEF IndexBlock
<1>2. \A k \in DOMAIN header' : Height[header'[k]] = k
  BY <1>1 DEF Put, StoreHeights
<1>3. \A o \in DOMAIN utxo' : Height[utxo'[o].hash] = utxo'[o].height
  BY <1>1 DEF StoreHeights
<1>4. ASSUME NEW k \in DOMAIN undo'
      PROVE  /\ Height[k[2]] = k[1]
             /\ \A o \in DOMAIN undo'[k].spent :
                  Height[undo'[k].spent[o].hash] = undo'[k].spent[o].height
  <2>1. CASE k = <<h, b>>
    <3>1. undo'[k].spent = Restrict(utxo, SpentBy(b))
      BY <1>1, <2>1 DEF Put
    <3>2. /\ DOMAIN undo'[k].spent = SpentBy(b) /\ SpentBy(b) \subseteq DOMAIN utxo
          /\ \A o \in SpentBy(b) : undo'[k].spent[o] = utxo[o]
      BY <3>1 DEF Restrict, SpentBy
    <3> QED
      BY <2>1, <3>2 DEF StoreHeights
  <2>2. CASE k # <<h, b>>
    BY <1>1, <1>4, <2>2 DEF Put, StoreHeights
  <2> QED
    BY <2>1, <2>2
<1> QED
  BY <1>1, <1>2, <1>3, <1>4 DEF StoreHeights

\* What rollbackBlock brings back has the height it was spent with.
LEMMA RollbackBlockHeights ==
  ASSUME StoreHeights, NEW b, NEW h, RollbackBlock(h, b)
  PROVE  StoreHeights'
<1> DEFINE u == undo[<<h, b>>]
<1>1. /\ <<h, b>> \in DOMAIN undo
      /\ header' = Without(header, {h})
      /\ undo' = Without(undo, {<<h, b>>})
      /\ utxo' = [o \in (DOMAIN utxo \ u.created) \cup DOMAIN u.spent |->
                   IF o \in DOMAIN u.spent THEN u.spent[o] ELSE utxo[o]]
      /\ checkpoint' = checkpoint
  BY DEF RollbackBlock, RestoreOutputs, DeleteUndo
<1>2. \A o \in DOMAIN u.spent : Height[u.spent[o].hash] = u.spent[o].height
  BY <1>1 DEF StoreHeights
<1> HIDE DEF u
<1>3. \A k \in DOMAIN header' : Height[header'[k]] = k
  BY <1>1 DEF StoreHeights, Without, Restrict
<1>4. \A o \in DOMAIN utxo' : Height[utxo'[o].hash] = utxo'[o].height
  BY <1>1, <1>2 DEF StoreHeights
<1>5. DOMAIN undo' \subseteq DOMAIN undo /\ \A k \in DOMAIN undo' : undo'[k] = undo[k]
  BY <1>1 DEF Without, Restrict
<1>6. ASSUME NEW k \in DOMAIN undo'
      PROVE  /\ Height[k[2]] = k[1]
             /\ \A o \in DOMAIN undo'[k].spent :
                  Height[undo'[k].spent[o].hash] = undo'[k].spent[o].height
  BY <1>5, <1>6 DEF StoreHeights
<1>7. checkpoint'.hash \in Block => Height[checkpoint'.hash] = checkpoint'.height
  BY <1>1 DEF StoreHeights
<1> QED
  BY <1>3, <1>4, <1>6, <1>7 DEF StoreHeights

\* SaveCheckpoint of a block at its own height, or of none.
LEMMA SaveCheckpointHeights ==
  ASSUME StoreHeights, NEW cp, SaveCheckpoint(cp),
         cp.hash \in Block => Height[cp.hash] = cp.height
  PROVE  StoreHeights'
BY DEF StoreHeights, SaveCheckpoint

\* PruneUndoData only removes records.
LEMMA PruneHeightsTrue ==
  ASSUME StoreHeights, NEW keep, PruneUndoData(keep)
  PROVE  StoreHeights'
<1>1. /\ UNCHANGED <<utxo, header, checkpoint>>
      /\ DOMAIN undo' \subseteq DOMAIN undo
      /\ \A k \in DOMAIN undo' : undo'[k] = undo[k]
  BY DEF PruneUndoData, Without, Restrict
<1> QED
  BY <1>1 DEF StoreHeights

\* A step that leaves the index alone.
LEMMA SameStoreHeights ==
  ASSUME StoreHeights, UNCHANGED storeVars
  PROVE  StoreHeights'
BY DEF StoreHeights, storeVars

-----------------------------------------------------------------------------
(***************************************************************************)
(* The block tree.  Induction along a branch is an argument about the      *)
(* lowest block of a set, since the provers cannot instantiate an          *)
(* induction scheme with an operator parameter.                            *)
(***************************************************************************)

\* A set of heights has a lowest one.
LEMMA LeastNat ==
  ASSUME NEW S \in SUBSET Nat, S # {}
  PROVE  \E n \in S : \A m \in S : n <= m
<1> DEFINE R == {ss \in Nat \X Nat : ss[1] < ss[2]}
<1>1. IsWellFoundedOn(R, Nat)
  BY NatLessThanWellFounded DEF OpToRel
<1>2. \A m, n \in Nat : ~(<<m, n>> \in R) => n <= m
  OBVIOUS
<1> HIDE DEF R
<1>3. PICK n \in S : \A m \in S : ~(<<m, n>> \in R)
  BY <1>1, WFMin
<1> QED
  BY <1>2, <1>3

\* A set of blocks that has the predecessor of each of its blocks is empty:
\* there is no branch without a first block.
LEMMA BranchInduction ==
  ASSUME NEW bad \in SUBSET Block, \A b \in bad : Prev[b] \in bad
  PROVE  bad = {}
<1> SUFFICES ASSUME bad # {} PROVE FALSE
  OBVIOUS
<1> DEFINE S == {Height[b] : b \in bad}
<1>1. S \in SUBSET Nat /\ S # {}
  BY TreeAssumption
<1>2. PICK n \in S : \A m \in S : n <= m
  <2> HIDE DEF S
  <2> QED
    BY <1>1, LeastNat
<1>3. PICK b \in bad : Height[b] = n
  BY <1>2
<1>4. Prev[b] \in bad /\ Height[b] = Height[Prev[b]] + 1
  BY <1>3, TreeAssumption
<1>5. Height[Prev[b]] \in S /\ Height[Prev[b]] \in Nat
  BY <1>4, TreeAssumption
<1> HIDE DEF S
<1> QED
  BY <1>2, <1>3, <1>4, <1>5

\* The blocks below a block on its branch are lower, and so are those below
\* them, on the same branch.
LEMMA BranchBelow ==
  ASSUME NEW b \in Block, NEW a \in Anc[b]
  PROVE  a \in Block /\ Height[a] < Height[b] /\ Anc[a] \subseteq Anc[b]
<1> DEFINE Good(c) == \A d \in Anc[c] : Height[d] < Height[c] /\ Anc[d] \subseteq Anc[c]
           bad == {c \in Block : ~Good(c)}
<1>1. ASSUME NEW c \in bad PROVE Prev[c] \in bad
  <2>1. /\ Prev[c] \in Block /\ Height[c] = Height[Prev[c]] + 1
        /\ Anc[c] = Anc[Prev[c]] \cup {Prev[c]}
    BY TreeAssumption
  <2>2. SUFFICES ASSUME Good(Prev[c]) PROVE Good(c)
    BY <2>1
  <2>3. SUFFICES ASSUME NEW d \in Anc[c]
                 PROVE  Height[d] < Height[c] /\ Anc[d] \subseteq Anc[c]
    OBVIOUS
  <2>4. Height[Prev[c]] \in Nat /\ d \in Block /\ Height[d] \in Nat
    BY <2>1, TreeAssumption
  <2>5. CASE d = Prev[c]
    BY <2>1, <2>4, <2>5
  <2>6. CASE d \in Anc[Prev[c]]
    BY <2>1, <2>2, <2>4, <2>6
  <2> QED
    BY <2>1, <2>5, <2>6
<1>2. bad = {}
  <2>1. bad \in SUBSET Block
    OBVIOUS
  <2> HIDE DEF bad
  <2> QED
    BY <1>1, <2>1, BranchInduction
<1>3. Good(b)
  BY <1>2
<1> QED
  BY <1>3, TreeAssumption

\* A branch has one block at every height up to its tip.
LEMMA BranchComplete ==
  ASSUME NEW b \in Block, NEW h \in Nat, h <= Height[b]
  PROVE  \E a \in Anc[b] \cup {b} : Height[a] = h
<1> DEFINE bad == {c \in Block : h <= Height[c] /\ \A a \in Anc[c] \cup {c} : Height[a] # h}
<1>1. ASSUME NEW c \in bad PROVE Prev[c] \in bad
  <2>1. Height[c] \in Nat /\ Height[c] # h /\ Height[c] > h
    BY TreeAssumption
  <2>2. /\ Prev[c] \in Block /\ Height[c] = Height[Prev[c]] + 1
        /\ Anc[c] = Anc[Prev[c]] \cup {Prev[c]}
    BY <2>1, TreeAssumption
  <2>3. Height[Prev[c]] \in Nat
    BY <2>2, TreeAssumption
  <2> QED
    BY <2>1, <2>2, <2>3
<1>2. bad = {}
  <2>1. bad \in SUBSET Block
    OBVIOUS
  <2> HIDE DEF bad
  <2> QED
    BY <1>1, <2>1, BranchInduction
<1> QED
  BY <1>2

\* ... and no two.
LEMMA BranchUnique ==
  ASSUME NEW b \in Block, NEW x \in Anc[b] \cup {b}, NEW y \in Anc[b] \cup {b},
         Height[x] = Height[y]
  PROVE  x = y
<1> DEFINE Good(c) == \A u, v \in Anc[c] \cup {c} : Height[u] = Height[v] => u = v
           bad == {c \in Block : ~Good(c)}
<1>1. ASSUME NEW c \in bad PROVE Prev[c] \in bad
  <2>1. CASE Prev[c] = ZeroHash
    BY <2>1, TreeAssumption
  <2>2. CASE Prev[c] # ZeroHash
    <3>1. /\ Prev[c] \in Block /\ Anc[c] = Anc[Prev[c]] \cup {Prev[c]}
      BY <2>2, TreeAssumption
    <3>2. \A u \in Anc[c] : Height[u] # Height[c]
      <4> SUFFICES ASSUME NEW u \in Anc[c] PROVE Height[u] # Height[c]
        OBVIOUS
      <4>1. u \in Block /\ Height[u] < Height[c]
        BY BranchBelow
      <4>2. Height[u] \in Nat /\ Height[c] \in Nat
        BY <4>1, TreeAssumption
      <4> QED
        BY <4>1, <4>2
    <3>3. SUFFICES ASSUME Good(Prev[c]) PROVE Good(c)
      BY <3>1
    <3> QED
      BY <3>1, <3>2, <3>3
  <2> QED
    BY <2>1, <2>2
<1>2. bad = {}
  <2>1. bad \in SUBSET Block
    OBVIOUS
  <2> HIDE DEF bad
  <2> QED
    BY <1>1, <2>1, BranchInduction
<1> QED
  BY <1>2
=============================================================================
