------------------------- MODULE IndexLedgerProofs --------------------------
(***************************************************************************)
(* Proofs that IndexLedger keeps its promises for every block tree, every  *)
(* set of transactions and any number of steps.  Each batch of the indexer *)
(* has one lemma that says it preserves Inductive; the theorems at the end *)
(* follow.                                                                 *)
(***************************************************************************)
EXTENDS IndexLedger, IndexStoreProofs

-----------------------------------------------------------------------------
\* The inductive invariant: the properties the runs check, together, with the
\* positions that LookupExact follows from.
Inductive ==
  /\ TypeOK
  /\ HeadersLinked
  /\ UtxoExact
  /\ HistoryExact
  /\ UndoExact
  /\ PositionsExact

\* A new database: nothing is stored, so nothing is wrong.
LEMMA InitHolds == Init => Inductive
<1> SUFFICES ASSUME Init PROVE Inductive
  OBVIOUS
<1> USE DEF Init, EmptyStore, EmptyMap, FreshCheckpoint, Stored
<1>1. TypeOK
  BY DEF TypeOK, StoreTypeOK, Checkpoint
<1>2. HeadersLinked
  BY DEF HeadersLinked
<1>3. UtxoExact
  BY DEF UtxoExact
<1>4. HistoryExact
  BY DEF HistoryExact
<1>5. UndoExact
  BY DEF UndoExact
<1>6. PositionsExact
  BY DEF PositionsExact
<1> QED
  BY <1>1, <1>2, <1>3, <1>4, <1>5, <1>6 DEF Inductive

-----------------------------------------------------------------------------
\* What IndexBlock finds and leaves when the block connects to the
\* checkpoint: all stored blocks are below it on its own branch.
LEMMA AppendFacts ==
  ASSUME Inductive, NEW b \in Block, AppendBlock(b),
         NEW n, n = checkpoint.height + 1
  PROVE  /\ n \in Int /\ Stored \subseteq Int
         /\ Height[b] = n
         /\ \A h \in Stored : h < n
         /\ \A h \in Stored : header[h] \in Block /\ header[h] \in Anc[b]
         /\ Stored' = Stored \cup {n}
         /\ header'[n] = b
         /\ \A h \in Stored : header'[h] = header[h]
<1>1. checkpoint # FreshCheckpoint
  BY TreeAssumption DEF AppendBlock, FreshCheckpoint
<1>2. checkpoint.hash \in Block /\ Height[checkpoint.hash] = checkpoint.height
  BY <1>1 DEF Inductive, HeadersLinked
<1>3. Prev[b] = checkpoint.hash /\ TipStored
  BY DEF AppendBlock
<1>4. /\ Height[b] = n
      /\ Anc[b] = Anc[checkpoint.hash] \cup {checkpoint.hash}
  BY <1>2, <1>3, TreeAssumption
<1>5. /\ checkpoint.height \in Int
      /\ Stored \subseteq Int
      /\ \A h \in Stored : header[h] \in Block
  BY DEF Inductive, TypeOK, StoreTypeOK, Checkpoint, Stored
<1>6. \A h \in Stored : h < n
  BY <1>3, <1>5 DEF TipStored
<1>7. ASSUME NEW h \in Stored PROVE header[h] \in Anc[b]
  <2>1. /\ checkpoint.height \in Stored
        /\ header[checkpoint.height] = checkpoint.hash
    BY <1>3, <1>7 DEF TipStored, Inductive, HeadersLinked
  <2>2. CASE h = checkpoint.height
    BY <1>4, <2>1, <2>2
  <2>3. CASE h < checkpoint.height
    BY <1>4, <2>1, <2>3 DEF Inductive, HeadersLinked
  <2> QED
    BY <1>3, <1>5, <2>2, <2>3 DEF TipStored
<1>8. header' = Put(header, n, b)
  BY DEF AppendBlock, IndexBlock
<1> QED
  BY <1>4, <1>5, <1>6, <1>7, <1>8 DEF Put, Stored

\* The inputs IndexBlock finds in the database are those whose output a
\* stored block created: no other block of the branch has spent them.
LEMMA AppendFound ==
  ASSUME Inductive, NEW b \in Block, AppendBlock(b),
         NEW n, n = checkpoint.height + 1
  PROVE  /\ SpentBy(b) = {o \in Inputs(b) : \E k \in Stored : o \in Created(header[k])}
         /\ Found(n)' = SpentBy(b)
         /\ \A h \in Stored : Found(h)' = Found(h)
<1>1. /\ n \in Int /\ Stored \subseteq Int
      /\ \A h \in Stored : h < n
      /\ Stored' = Stored \cup {n}
      /\ header'[n] = b
      /\ \A h \in Stored : header'[h] = header[h]
      /\ \A h \in Stored : header[h] \in Block /\ header[h] \in Anc[b]
  BY AppendFacts
<1>2. \A h \in Stored : Inputs(header[h]) \cap Inputs(b) = {}
  BY <1>1, ConsensusAssumption
<1>3. SpentBy(b) = Inputs(b) \cap {o \in Outpoint : \E h \in Stored : Unspent(h, o)}
  BY DEF SpentBy, Inductive, UtxoExact
<1>4. SpentBy(b) = {o \in Inputs(b) : \E k \in Stored : o \in Created(header[k])}
  BY <1>2, <1>3, InputsType DEF Unspent
<1>5. Found(n)' = {o \in Inputs(b) : \E k \in Stored : o \in Created(header[k])}
  BY <1>1 DEF Found
<1>6. ASSUME NEW h \in Stored PROVE Found(h)' = Found(h)
  BY <1>1, <1>6 DEF Found
<1> QED
  BY <1>4, <1>5, <1>6

\* IndexBlock on top of the checkpoint keeps the invariant.
LEMMA AppendKeeps ==
  ASSUME Inductive, NEW b \in Block, AppendBlock(b)
  PROVE  Inductive'
<1> SUFFICES ASSUME NEW n, n = checkpoint.height + 1
             PROVE  Inductive'
  OBVIOUS
<1>1. /\ n \in Int /\ Stored \subseteq Int
      /\ Height[b] = n
      /\ \A h \in Stored : h < n
      /\ Stored' = Stored \cup {n}
      /\ header'[n] = b
      /\ \A h \in Stored : header'[h] = header[h]
      /\ \A h \in Stored : header[h] \in Block /\ header[h] \in Anc[b]
  BY AppendFacts
<1>2. /\ SpentBy(b) = {o \in Inputs(b) : \E k \in Stored : o \in Created(header[k])}
      /\ Found(n)' = SpentBy(b)
      /\ \A h \in Stored : Found(h)' = Found(h)
  BY AppendFound
<1>3. /\ Created(b) \subseteq Outpoint
      /\ SpentBy(b) \subseteq Outpoint
      /\ SpentBy(b) \subseteq DOMAIN utxo
  BY CreatedType, InputsType DEF SpentBy
<1>4. \A h \in Stored : /\ Created(header[h]) \cap Created(b) = {}
                        /\ Inputs(header[h]) \cap Created(b) = {}
                        /\ Range(BlockTxs[header[h]]) \cap Range(BlockTxs[b]) = {}
  BY <1>1, ConsensusAssumption
<1>5. /\ utxo' = [o \in (DOMAIN utxo \cup Created(b)) \ SpentBy(b) |->
                   IF o \in Created(b) THEN [height |-> n, hash |-> b] ELSE utxo[o]]
      /\ txindex' = (txindex \cup Created(b)) \ SpentBy(b)
      /\ history' = history \cup HistoryOf(b, n, SpentBy(b))
      /\ undo' = Put(undo, <<n, b>>, [created |-> Created(b),
                                     spent   |-> Restrict(utxo, SpentBy(b)),
                                     history |-> HistoryOf(b, n, SpentBy(b))])
      /\ header' = Put(header, n, b)
      /\ txpos' = Positions(b, n)
      /\ txblob' = Put(txblob, n, BlockTxs[b])
      /\ checkpoint' = [height |-> n, hash |-> b, start |-> checkpoint.start]
  BY DEF AppendBlock, IndexBlock
<1>6. TypeOK'
  <2>1. StoreTypeOK /\ IndexBlock(b, n)
    BY DEF Inductive, TypeOK, AppendBlock
  <2> QED
    BY <1>1, <2>1, IndexBlockType DEF TypeOK
<1>7. HeadersLinked'
  <2>1. /\ checkpoint'.height = n /\ checkpoint'.hash = b
        /\ checkpoint' # FreshCheckpoint
    BY <1>5, TreeAssumption DEF FreshCheckpoint
  <2>2. \A h, k \in Stored' : h < k => header'[h] \in Anc[header'[k]]
    <3> SUFFICES ASSUME NEW h \in Stored', NEW k \in Stored', h < k
                 PROVE  header'[h] \in Anc[header'[k]]
      OBVIOUS
    <3>1. h \in Stored
      <4>1. k <= n /\ k \in Int
        BY <1>1
      <4>2. h # n
        BY <1>1, <4>1
      <4> QED
        BY <1>1, <4>2
    <3>2. CASE k = n
      BY <1>1, <3>1, <3>2
    <3>3. CASE k \in Stored
      <4>1. header[h] \in Anc[header[k]]
        BY <3>1, <3>3 DEF Inductive, HeadersLinked
      <4> QED
        BY <1>1, <3>1, <3>3, <4>1
    <3> QED
      BY <1>1, <3>2, <3>3
  <2>3. \A h, k \in Stored' : \A m \in h .. k : m \in Stored'
    <3> SUFFICES ASSUME NEW h \in Stored', NEW k \in Stored', NEW m \in h .. k
                 PROVE  m \in Stored'
      OBVIOUS
    <3>1. CASE h \in Stored /\ k \in Stored
      BY <1>1, <3>1 DEF Inductive, HeadersLinked
    <3>2. CASE h = n
      BY <1>1, <3>2
    <3>3. CASE h \in Stored /\ k = n
      <4>1. n - 1 \in Stored
        BY <3>3 DEF AppendBlock, TipStored, Inductive, TypeOK, StoreTypeOK, Checkpoint
      <4>2. m = n \/ m \in h .. n - 1
        BY <1>1, <3>3
      <4> QED
        BY <1>1, <3>3, <4>1, <4>2 DEF Inductive, HeadersLinked
    <3> QED
      BY <1>1, <3>1, <3>2, <3>3
  <2>4. \A h \in Stored' : Height[header'[h]] = h /\ h <= n
    BY <1>1 DEF Inductive, HeadersLinked
  <2> QED
    BY <1>1, <2>1, <2>2, <2>3, <2>4 DEF HeadersLinked
<1>8. UtxoExact'
  <2>1. \A h \in Stored, o \in Outpoint :
          Unspent(h, o)' <=> Unspent(h, o) /\ o \notin Inputs(b)
    BY <1>1 DEF Unspent
  <2>2. \A o \in Outpoint : Unspent(n, o)' <=> o \in Created(b)
    BY <1>1 DEF Unspent
  <2>3. \A o \in DOMAIN utxo : o \in SpentBy(b) <=> o \in Inputs(b)
    BY DEF SpentBy, Inductive, UtxoExact
  <2>4. SpentBy(b) \cap Created(b) = {}
    BY <1>2, <1>4
  <2>5. DOMAIN utxo' = (DOMAIN utxo \cup Created(b)) \ SpentBy(b)
    BY <1>5
  <2>6. DOMAIN utxo' = {o \in Outpoint : \E h \in Stored' : Unspent(h, o)'}
    BY <1>1, <1>3, <2>1, <2>2, <2>3, <2>4, <2>5 DEF Inductive, UtxoExact
  <2>7. ASSUME NEW o \in DOMAIN utxo'
        PROVE  \E h \in Stored' : /\ Unspent(h, o)'
                                 /\ utxo'[o] = [height |-> h, hash |-> header'[h]]
    <3>1. CASE o \in Created(b)
      BY <1>1, <1>3, <1>5, <2>2, <3>1
    <3>2. CASE o \notin Created(b)
      <4>1. o \in DOMAIN utxo /\ o \notin Inputs(b) /\ utxo'[o] = utxo[o]
        BY <1>5, <2>3, <2>5, <2>7, <3>2
      <4>2. PICK h \in Stored : Unspent(h, o) /\ utxo[o] = [height |-> h, hash |-> header[h]]
        BY <4>1 DEF Inductive, UtxoExact
      <4>3. o \in Outpoint
        BY <4>1 DEF Inductive, TypeOK, StoreTypeOK
      <4> QED
        BY <1>1, <2>1, <4>1, <4>2, <4>3
    <3> QED
      BY <3>1, <3>2
  <2>8. txindex' = DOMAIN utxo'
    BY <1>5, <2>5 DEF Inductive, UtxoExact
  <2> QED
    BY <2>6, <2>7, <2>8 DEF UtxoExact
<1>9. HistoryExact'
  <2>1. \A h \in Stored : HistoryOf(header[h], h, Found(h))' = HistoryOf(header[h], h, Found(h))
    BY <1>1, <1>2 DEF HistoryOf, Touched
  <2>2. HistoryOf(header[n], n, Found(n))' = HistoryOf(b, n, SpentBy(b))
    BY <1>1, <1>2 DEF HistoryOf, Touched
  <2> QED
    BY <1>1, <1>5, <2>1, <2>2 DEF Inductive, HistoryExact
<1>10. UndoExact'
  <2> SUFFICES ASSUME NEW key \in DOMAIN undo'
               PROVE  /\ key[1] \in Stored'
                      /\ header'[key[1]] = key[2]
                      /\ undo'[key].created = Created(header'[key[1]])
                      /\ undo'[key].history =
                           HistoryOf(header'[key[1]], key[1], Found(key[1])')
                      /\ DOMAIN undo'[key].spent = Found(key[1])'
                      /\ \A o \in Found(key[1])' : \E k \in Stored' :
                           /\ k < key[1]
                           /\ o \in Created(header'[k])
                           /\ undo'[key].spent[o] = [height |-> k, hash |-> header'[k]]
    BY DEF UndoExact, HistoryOf, Touched
  <2>1. CASE key = <<n, b>>
    <3>1. undo'[key] = [created |-> Created(b),
                        spent   |-> Restrict(utxo, SpentBy(b)),
                        history |-> HistoryOf(b, n, SpentBy(b))]
      BY <1>5, <2>1 DEF Put
    <3>2. key[1] = n /\ key[2] = b
      BY <2>1
    <3>3. ASSUME NEW o \in SpentBy(b)
          PROVE  \E k \in Stored' :
                   /\ k < n
                   /\ o \in Created(header'[k])
                   /\ undo'[key].spent[o] = [height |-> k, hash |-> header'[k]]
      <4>1. PICK k \in Stored : /\ o \in Created(header[k])
                                /\ utxo[o] = [height |-> k, hash |-> header[k]]
        BY <1>3, <3>3 DEF Inductive, UtxoExact, Unspent
      <4>2. undo'[key].spent[o] = utxo[o]
        BY <3>1, <3>3 DEF Restrict
      <4> QED
        BY <1>1, <4>1, <4>2
    <3>4. DOMAIN undo'[key].spent = SpentBy(b)
      BY <3>1 DEF Restrict
    <3>5. /\ undo'[key].created = Created(b)
          /\ undo'[key].history = HistoryOf(b, n, SpentBy(b))
      BY <3>1
    <3>6. key[1] \in Stored' /\ header'[key[1]] = b
      BY <1>1, <3>2
    <3>7. Found(key[1])' = SpentBy(b)
      BY <1>2, <3>2
    <3> QED
      BY <3>2, <3>3, <3>4, <3>5, <3>6, <3>7
  <2>2. CASE key # <<n, b>>
    <3>1. key \in DOMAIN undo /\ undo'[key] = undo[key]
      BY <1>5, <2>2 DEF Put
    <3>2. /\ key[1] \in Stored
          /\ header[key[1]] = key[2]
          /\ undo[key].created = Created(header[key[1]])
          /\ undo[key].history = HistoryOf(header[key[1]], key[1], Found(key[1]))
          /\ DOMAIN undo[key].spent = Found(key[1])
          /\ \A o \in Found(key[1]) : \E k \in Stored :
               /\ k < key[1]
               /\ o \in Created(header[k])
               /\ undo[key].spent[o] = [height |-> k, hash |-> header[k]]
      BY <3>1 DEF Inductive, UndoExact
    <3>3. key[1] \in Stored' /\ header'[key[1]] = header[key[1]]
      BY <1>1, <3>2
    <3>4. Found(key[1])' = Found(key[1])
      BY <1>2, <3>2
    <3>5. ASSUME NEW o \in Found(key[1])
          PROVE  \E k \in Stored' :
                   /\ k < key[1]
                   /\ o \in Created(header'[k])
                   /\ undo'[key].spent[o] = [height |-> k, hash |-> header'[k]]
      <4>1. PICK k \in Stored : /\ k < key[1]
                                /\ o \in Created(header[k])
                                /\ undo[key].spent[o] = [height |-> k, hash |-> header[k]]
        BY <3>2, <3>5
      <4>2. k \in Stored' /\ header'[k] = header[k]
        BY <1>1
      <4> QED
        BY <3>1, <4>1, <4>2
    <3> QED
      BY <3>1, <3>2, <3>3, <3>4, <3>5
  <2> QED
    BY <2>1, <2>2
<1>11. PositionsExact'
  <2> SUFFICES ASSUME NEW h \in Stored'
               PROVE  /\ h \in DOMAIN txblob'
                      /\ txblob'[h] = BlockTxs[header'[h]]
                      /\ \A i \in 1 .. Len(BlockTxs[header'[h]]) :
                           /\ BlockTxs[header'[h]][i] \in DOMAIN txpos'
                           /\ txpos'[BlockTxs[header'[h]][i]] = <<h, i>>
    BY DEF PositionsExact
  <2>1. CASE h = n
    <3>3. n \in DOMAIN txblob' /\ txblob'[n] = BlockTxs[b]
      BY <1>5 DEF Put
    <3>4. \A t \in Range(BlockTxs[b]) :
            /\ t \in DOMAIN txpos'
            /\ txpos'[t] = <<n, PlaceIn(b, t)>>
      BY <1>5 DEF Positions
    <3>5. \A i \in 1 .. Len(BlockTxs[b]) :
            /\ BlockTxs[b][i] \in DOMAIN txpos'
            /\ txpos'[BlockTxs[b][i]] = <<n, i>>
      BY <3>4, PlaceExact
    <3> QED
      BY <1>1, <2>1, <3>3, <3>5
  <2>2. CASE h \in Stored
    <3>1. h # n /\ header'[h] = header[h]
      <4>1. h < n /\ h \in Int
        BY <1>1, <2>2
      <4> QED
        BY <1>1, <2>2, <4>1
    <3>4. h \in DOMAIN txblob /\ txblob[h] = BlockTxs[header[h]]
      BY <2>2 DEF Inductive, PositionsExact
    <3>2. BlockTxs[header[h]] \in Seq(Tx)
      BY <1>1, <2>2, TxAssumption
    <3>3. ASSUME NEW i \in 1 .. Len(BlockTxs[header[h]])
          PROVE  /\ BlockTxs[header[h]][i] \in DOMAIN txpos
                 /\ txpos[BlockTxs[header[h]][i]] = <<h, i>>
                 /\ BlockTxs[header[h]][i] \notin Range(BlockTxs[b])
      <4>1. BlockTxs[header[h]][i] \in Range(BlockTxs[header[h]])
        BY <3>2 DEF Range
      <4> QED
        BY <1>4, <2>2, <4>1 DEF Inductive, PositionsExact
    <3>5. h \in DOMAIN txblob' /\ txblob'[h] = txblob[h]
      BY <1>5, <3>1, <3>4 DEF Put
    <3>6. \A t \in DOMAIN txpos : t \notin Range(BlockTxs[b]) =>
            t \in DOMAIN txpos' /\ txpos'[t] = txpos[t]
      BY <1>5 DEF Positions
    <3> QED
      BY <3>1, <3>3, <3>4, <3>5, <3>6
  <2> QED
    BY <1>1, <2>1, <2>2
<1> QED
  BY <1>6, <1>7, <1>8, <1>9, <1>10, <1>11 DEF Inductive

-----------------------------------------------------------------------------
\* rollbackBlock of the highest stored block keeps the invariant: its undo
\* record is exactly the difference the block made.
LEMMA TakeOffKeeps ==
  ASSUME Inductive, NEW top \in Stored, TakeOff(top)
  PROVE  Inductive'
<1>1. /\ top \in Int /\ Stored \subseteq Int
      /\ \A h \in Stored : header[h] \in Block
      /\ \A h \in Stored : h <= top
  BY DEF TakeOff, IsTop, Inductive, TypeOK, StoreTypeOK, Stored
<1> SUFFICES ASSUME NEW b, b = header[top], NEW u, u = undo[<<top, b>>]
             PROVE  Inductive'
  OBVIOUS
<1>2. b \in Block /\ \A h \in Stored : h # top => header[h] \in Anc[b]
  BY <1>1 DEF Inductive, HeadersLinked
<1>3. \A h \in Stored : h # top =>
        /\ Created(header[h]) \cap Created(b) = {}
        /\ Inputs(header[h]) \cap Inputs(b) = {}
  BY <1>2, ConsensusAssumption
<1>4. /\ <<top, b>> \in DOMAIN undo
      /\ header' = Without(header, {top})
      /\ undo' = Without(undo, {<<top, b>>})
      /\ utxo' = [o \in (DOMAIN utxo \ u.created) \cup DOMAIN u.spent |->
                   IF o \in DOMAIN u.spent THEN u.spent[o] ELSE utxo[o]]
      /\ txindex' = (txindex \ u.created) \cup DOMAIN u.spent
      /\ history' = history \ u.history
      /\ UNCHANGED <<txpos, txblob, checkpoint>>
  BY DEF TakeOff, RollbackBlock, RestoreOutputs, DeleteHistory, DeleteUndo
<1>5. /\ Stored' = Stored \ {top}
      /\ \A h \in Stored' : header'[h] = header[h]
  BY <1>4 DEF Stored, Without, Restrict
<1>6. /\ u.created = Created(b)
      /\ u.history = HistoryOf(b, top, Found(top))
      /\ DOMAIN u.spent = Found(top)
      /\ \A o \in Found(top) : \E k \in Stored :
           /\ k < top
           /\ o \in Created(header[k])
           /\ u.spent[o] = [height |-> k, hash |-> header[k]]
  <2>1. <<top, b>>[1] = top
    OBVIOUS
  <2> QED
    BY <1>4, <2>1 DEF Inductive, UndoExact
<1>7. \A h \in Stored' : Found(h)' = Found(h)
  <2> SUFFICES ASSUME NEW h \in Stored' PROVE Found(h)' = Found(h)
    OBVIOUS
  <2>1. \A k \in Stored : k < h => k \in Stored' /\ header'[k] = header[k]
    BY <1>1, <1>5
  <2> QED
    BY <1>5, <2>1 DEF Found
<1>8. Found(top) \subseteq Outpoint
  BY <1>2, InputsType DEF Found
<1>9. TypeOK'
  <2>1. StoreTypeOK /\ RollbackBlock(top, b)
    BY DEF Inductive, TypeOK, TakeOff
  <2> QED
    BY <2>1, RollbackBlockType DEF TypeOK
<1>10. HeadersLinked'
  <2>1. \A h, k \in Stored' : \A m \in h .. k : m \in Stored'
    <3> SUFFICES ASSUME NEW h \in Stored', NEW k \in Stored', NEW m \in h .. k
                 PROVE  m \in Stored'
      OBVIOUS
    <3>1. h \in Stored /\ k \in Stored /\ k # top /\ k <= top
      BY <1>1, <1>5
    <3>2. m \in Stored
      BY <3>1 DEF Inductive, HeadersLinked
    <3>3. m # top
      BY <1>1, <3>1
    <3> QED
      BY <1>5, <3>2, <3>3
  <2>2. \A h \in Stored' : Height[header'[h]] = h /\ h <= checkpoint.height
    BY <1>5 DEF Inductive, HeadersLinked
  <2>3. \A h, k \in Stored' : h < k => header'[h] \in Anc[header'[k]]
    <3> SUFFICES ASSUME NEW h \in Stored', NEW k \in Stored', h < k
                 PROVE  header'[h] \in Anc[header'[k]]
      OBVIOUS
    <3>1. header[h] \in Anc[header[k]]
      BY <1>5 DEF Inductive, HeadersLinked
    <3> QED
      BY <1>5, <3>1
  <2> QED
    BY <1>4, <1>5, <2>1, <2>2, <2>3 DEF Inductive, HeadersLinked
<1>11. UtxoExact'
  <2>1. \A h \in Stored', o \in Outpoint :
          Unspent(h, o)' <=> /\ o \in Created(header[h])
                             /\ \A k \in Stored' : k > h => o \notin Inputs(header[k])
    BY <1>5 DEF Unspent
  <2>2. \A h \in Stored', o \in Outpoint : Unspent(h, o) => Unspent(h, o)'
    BY <1>5, <2>1 DEF Unspent
  <2>3. \A h \in Stored', o \in Outpoint :
          Unspent(h, o)' /\ o \notin Inputs(b) => Unspent(h, o)
    BY <1>5, <2>1 DEF Unspent
  <2>4. ASSUME NEW o \in Found(top), NEW k \in Stored, k < top, o \in Created(header[k])
        PROVE  k \in Stored' /\ Unspent(k, o)'
    <3>1. o \in Inputs(b) /\ o \in Outpoint
      BY <1>8, <2>4 DEF Found
    <3>2. k \in Stored'
      BY <1>1, <1>5, <2>4
    <3>3. \A j \in Stored' : o \notin Inputs(header[j])
      BY <1>3, <1>5, <3>1
    <3> QED
      BY <2>1, <2>4, <3>1, <3>2, <3>3
  <2>5. DOMAIN utxo' = (DOMAIN utxo \ Created(b)) \cup Found(top)
    BY <1>4, <1>6
  <2>6. ASSUME NEW o \in DOMAIN utxo'
        PROVE  /\ o \in Outpoint
               /\ \E h \in Stored' : /\ Unspent(h, o)'
                                    /\ utxo'[o] = [height |-> h, hash |-> header'[h]]
    <3>1. CASE o \in Found(top)
      <4>1. PICK k \in Stored : /\ k < top
                                /\ o \in Created(header[k])
                                /\ u.spent[o] = [height |-> k, hash |-> header[k]]
        BY <1>6, <3>1
      <4>2. utxo'[o] = u.spent[o]
        BY <1>4, <1>6, <3>1
      <4>3. k \in Stored' /\ Unspent(k, o)'
        BY <2>4, <3>1, <4>1
      <4> QED
        BY <1>5, <1>8, <3>1, <4>1, <4>2, <4>3
    <3>2. CASE o \notin Found(top)
      <4>1. o \in DOMAIN utxo /\ o \notin Created(b) /\ utxo'[o] = utxo[o]
        BY <1>4, <1>6, <2>5, <2>6, <3>2
      <4>2. PICK h \in Stored : Unspent(h, o) /\ utxo[o] = [height |-> h, hash |-> header[h]]
        BY <4>1 DEF Inductive, UtxoExact
      <4>3. h \in Stored'
        BY <1>5, <4>1, <4>2 DEF Unspent
      <4>4. o \in Outpoint
        BY <4>1 DEF Inductive, TypeOK, StoreTypeOK
      <4> QED
        BY <1>5, <2>2, <4>1, <4>2, <4>3, <4>4
    <3> QED
      BY <3>1, <3>2
  <2>7. ASSUME NEW o \in Outpoint, NEW h \in Stored', Unspent(h, o)'
        PROVE  o \in DOMAIN utxo'
    <3>0. h \in Stored /\ h # top
      BY <1>5
    <3>1. o \in Created(header[h]) /\ h \in Stored /\ h # top /\ h < top
      BY <1>1, <2>1, <2>7, <3>0
    <3>2. CASE o \in Inputs(b)
      BY <2>5, <3>1, <3>2 DEF Found
    <3>3. CASE o \notin Inputs(b)
      BY <1>3, <2>3, <2>5, <2>7, <3>1, <3>3 DEF Inductive, UtxoExact
    <3> QED
      BY <3>2, <3>3
  <2>8. txindex' = DOMAIN utxo'
    BY <1>4, <1>6, <2>5 DEF Inductive, UtxoExact
  <2> QED
    BY <2>6, <2>7, <2>8 DEF UtxoExact
<1>12. HistoryExact'
  <2>1. \A h \in Stored' : HistoryOf(header[h], h, Found(h))' = HistoryOf(header[h], h, Found(h))
    BY <1>5, <1>7 DEF HistoryOf, Touched
  <2>2. \A h \in Stored' :
          HistoryOf(header[h], h, Found(h)) \cap HistoryOf(b, top, Found(top)) = {}
    BY <1>5, HistoryOfHeight
  <2>3. history = UNION {HistoryOf(header[h], h, Found(h)) : h \in Stored}
    BY DEF Inductive, HistoryExact
  <2>4. history' = UNION {HistoryOf(header[h], h, Found(h)) : h \in Stored'}
    BY <1>4, <1>5, <1>6, <2>2, <2>3
  <2> QED
    BY <2>1, <2>4 DEF HistoryExact
<1>13. UndoExact'
  <2> SUFFICES ASSUME NEW key \in DOMAIN undo'
               PROVE  /\ key[1] \in Stored'
                      /\ header'[key[1]] = key[2]
                      /\ undo'[key].created = Created(header'[key[1]])
                      /\ undo'[key].history =
                           HistoryOf(header'[key[1]], key[1], Found(key[1])')
                      /\ DOMAIN undo'[key].spent = Found(key[1])'
                      /\ \A o \in Found(key[1])' : \E k \in Stored' :
                           /\ k < key[1]
                           /\ o \in Created(header'[k])
                           /\ undo'[key].spent[o] = [height |-> k, hash |-> header'[k]]
    BY DEF UndoExact, HistoryOf, Touched
  <2>1. key \in DOMAIN undo /\ key # <<top, b>> /\ undo'[key] = undo[key]
    BY <1>4 DEF Without, Restrict
  <2>2. /\ key[1] \in Stored
        /\ header[key[1]] = key[2]
        /\ undo[key].created = Created(header[key[1]])
        /\ undo[key].history = HistoryOf(header[key[1]], key[1], Found(key[1]))
        /\ DOMAIN undo[key].spent = Found(key[1])
        /\ \A o \in Found(key[1]) : \E k \in Stored :
             /\ k < key[1]
             /\ o \in Created(header[k])
             /\ undo[key].spent[o] = [height |-> k, hash |-> header[k]]
    BY <2>1 DEF Inductive, UndoExact
  <2>3. key[1] # top
    <3>1. key \in Int \X Block
      BY <2>1 DEF Inductive, TypeOK, StoreTypeOK
    <3>2. key = <<key[1], key[2]>>
      BY <3>1
    <3> QED
      BY <2>1, <2>2, <3>2
  <2>4. key[1] \in Stored' /\ header'[key[1]] = header[key[1]]
    BY <1>5, <2>2, <2>3
  <2>5. Found(key[1])' = Found(key[1])
    BY <1>7, <2>4
  <2>6. ASSUME NEW o \in Found(key[1])
        PROVE  \E k \in Stored' :
                 /\ k < key[1]
                 /\ o \in Created(header'[k])
                 /\ undo'[key].spent[o] = [height |-> k, hash |-> header'[k]]
    <3>1. PICK k \in Stored : /\ k < key[1]
                              /\ o \in Created(header[k])
                              /\ undo[key].spent[o] = [height |-> k, hash |-> header[k]]
      BY <2>2, <2>6
    <3>2. /\ k \in Int /\ top \in Int /\ key[1] \in Int
          /\ key[1] <= top
      BY <1>1, <2>2
    <3>3. k # top
      BY <3>1, <3>2
    <3>4. k \in Stored' /\ header'[k] = header[k]
      BY <1>5, <3>3
    <3> QED
      BY <2>1, <3>1, <3>4
  <2> QED
    BY <2>1, <2>2, <2>4, <2>5, <2>6
<1>14. PositionsExact'
  <2> SUFFICES ASSUME NEW h \in Stored'
               PROVE  /\ h \in DOMAIN txblob'
                      /\ txblob'[h] = BlockTxs[header'[h]]
                      /\ \A i \in 1 .. Len(BlockTxs[header'[h]]) :
                           /\ BlockTxs[header'[h]][i] \in DOMAIN txpos'
                           /\ txpos'[BlockTxs[header'[h]][i]] = <<h, i>>
    BY DEF PositionsExact
  <2>1. h \in Stored /\ header'[h] = header[h]
    BY <1>5
  <2>2. txblob' = txblob /\ txpos' = txpos
    BY <1>4
  <2> QED
    BY <2>1, <2>2 DEF Inductive, PositionsExact
<1> QED
  BY <1>9, <1>10, <1>11, <1>12, <1>13, <1>14 DEF Inductive

-----------------------------------------------------------------------------
\* A batch that writes neither headers nor any of the keys derived from the
\* chain (SaveCheckpoint, PruneUndoData) leaves what is said of them true.
LEMMA SameChain ==
  ASSUME Inductive,
         UNCHANGED <<utxo, txindex, history, header, txpos, txblob>>
  PROVE  /\ Stored' = Stored
         /\ \A h : Found(h)' = Found(h)
         /\ UtxoExact' /\ HistoryExact' /\ PositionsExact'
<1>1. /\ utxo' = utxo /\ txindex' = txindex /\ history' = history
      /\ header' = header /\ txpos' = txpos /\ txblob' = txblob
  OBVIOUS
<1>2. Stored' = Stored
  BY <1>1 DEF Stored
<1>3. \A h : Found(h)' = Found(h)
  BY <1>1, <1>2 DEF Found
<1>4. \A h, o : Unspent(h, o)' <=> Unspent(h, o)
  BY <1>1, <1>2 DEF Unspent
<1>5. UtxoExact'
  <2>1. DOMAIN utxo = {o \in Outpoint : \E h \in Stored : Unspent(h, o)'}
    BY <1>4 DEF Inductive, UtxoExact
  <2>2. \A o \in DOMAIN utxo : \E h \in Stored :
          Unspent(h, o)' /\ utxo[o] = [height |-> h, hash |-> header[h]]
    BY <1>4 DEF Inductive, UtxoExact
  <2>3. txindex = DOMAIN utxo
    BY DEF Inductive, UtxoExact
  <2> QED
    BY <1>1, <1>2, <2>1, <2>2, <2>3 DEF UtxoExact
<1>6. HistoryExact'
  <2>1. \A h : HistoryOf(header[h], h, Found(h))' = HistoryOf(header[h], h, Found(h))
    BY <1>1, <1>3 DEF HistoryOf, Touched
  <2> QED
    BY <1>1, <1>2, <2>1 DEF Inductive, HistoryExact
<1>7. PositionsExact'
  <2> SUFFICES ASSUME NEW h \in Stored'
               PROVE  /\ h \in DOMAIN txblob'
                      /\ txblob'[h] = BlockTxs[header'[h]]
                      /\ \A i \in 1 .. Len(BlockTxs[header'[h]]) :
                           /\ BlockTxs[header'[h]][i] \in DOMAIN txpos'
                           /\ txpos'[BlockTxs[header'[h]][i]] = <<h, i>>
    BY DEF PositionsExact
  <2>1. h \in Stored
    BY <1>2
  <2>2. /\ h \in DOMAIN txblob
        /\ txblob[h] = BlockTxs[header[h]]
        /\ \A i \in 1 .. Len(BlockTxs[header[h]]) :
             /\ BlockTxs[header[h]][i] \in DOMAIN txpos
             /\ txpos[BlockTxs[header[h]][i]] = <<h, i>>
    BY <2>1 DEF Inductive, PositionsExact
  <2> QED
    BY <1>1, <2>2, Zenon
<1> QED
  BY <1>2, <1>3, <1>5, <1>6, <1>7

\* Undo records that are kept, of a chain that is kept, stay exact.
LEMMA SameUndo ==
  ASSUME Inductive,
         UNCHANGED <<utxo, txindex, history, header, txpos, txblob>>,
         DOMAIN undo' \subseteq DOMAIN undo,
         \A key \in DOMAIN undo' : undo'[key] = undo[key]
  PROVE  UndoExact'
<1>1. Stored' = Stored /\ header' = header /\ \A h : Found(h)' = Found(h)
  BY SameChain
<1>2. \A h : HistoryOf(header[h], h, Found(h))' = HistoryOf(header[h], h, Found(h))
  BY <1>1 DEF HistoryOf, Touched
<1> SUFFICES ASSUME NEW key \in DOMAIN undo'
             PROVE  /\ key[1] \in Stored'
                    /\ header'[key[1]] = key[2]
                    /\ undo'[key].created = Created(header'[key[1]])
                    /\ undo'[key].history = HistoryOf(header[key[1]], key[1], Found(key[1]))'
                    /\ DOMAIN undo'[key].spent = Found(key[1])'
                    /\ \A o \in Found(key[1])' : \E k \in Stored' :
                         /\ k < key[1]
                         /\ o \in Created(header'[k])
                         /\ undo'[key].spent[o] = [height |-> k, hash |-> header'[k]]
  BY DEF UndoExact
<1>3. key \in DOMAIN undo /\ undo'[key] = undo[key]
  OBVIOUS
<1>4. /\ key[1] \in Stored
      /\ header[key[1]] = key[2]
      /\ undo[key].created = Created(header[key[1]])
      /\ undo[key].history = HistoryOf(header[key[1]], key[1], Found(key[1]))
      /\ DOMAIN undo[key].spent = Found(key[1])
      /\ \A o \in Found(key[1]) : \E k \in Stored :
           /\ k < key[1]
           /\ o \in Created(header[k])
           /\ undo[key].spent[o] = [height |-> k, hash |-> header[k]]
  BY <1>3 DEF Inductive, UndoExact
<1> QED
  BY <1>1, <1>2, <1>3, <1>4

\* Setting the start height and lowering the checkpoint at the end of
\* rollbackToHeight: the checkpoint still names the highest stored block.
LEMMA CheckpointKeeps ==
  ASSUME Inductive, NEW b \in Block, SetStart(b) \/ LowerCheckpoint(b)
  PROVE  Inductive'
<1>1. /\ UNCHANGED <<utxo, txindex, history, header, txpos, txblob, undo>>
      /\ checkpoint'.height = Height[b] /\ checkpoint'.hash = b
      /\ checkpoint' \in Checkpoint
  BY TreeAssumption DEF SetStart, LowerCheckpoint, SaveCheckpoint, Checkpoint
<1>2. checkpoint' # FreshCheckpoint
  BY <1>1, TreeAssumption DEF FreshCheckpoint
<1>3. \A h \in Stored : h <= Height[b] /\ (h = Height[b] => header[h] = b)
  <2>1. CASE SetStart(b)
    BY <2>1 DEF SetStart, Inductive, HeadersLinked
  <2>2. CASE LowerCheckpoint(b)
    BY <2>2 DEF LowerCheckpoint, IsTop
  <2> QED
    BY <2>1, <2>2
<1>4. TypeOK'
  BY <1>1 DEF Inductive, TypeOK, StoreTypeOK, UndoRecord
<1>5. HeadersLinked'
  BY <1>1, <1>2, <1>3 DEF Inductive, HeadersLinked, Stored
<1>6. UtxoExact' /\ HistoryExact' /\ PositionsExact'
  BY <1>1, SameChain
<1>7. UndoExact'
  BY <1>1, SameUndo
<1> QED
  BY <1>4, <1>5, <1>6, <1>7 DEF Inductive

\* PruneOldUndoData: undo records go, the others stay exact.
LEMMA PruneKeeps ==
  ASSUME Inductive, NEW keep, Prune(keep)
  PROVE  Inductive'
<1>1. /\ UNCHANGED <<utxo, txindex, history, header, txpos, txblob, checkpoint>>
      /\ DOMAIN undo' \subseteq DOMAIN undo
      /\ \A k \in DOMAIN undo' : undo'[k] = undo[k]
  BY DEF Prune, PruneUndoData, Without, Restrict
<1>2. TypeOK'
  BY <1>1 DEF Inductive, TypeOK, StoreTypeOK, UndoRecord
<1>3. HeadersLinked'
  BY <1>1 DEF Inductive, HeadersLinked, Stored
<1>4. UtxoExact' /\ HistoryExact' /\ PositionsExact'
  BY <1>1, SameChain
<1>5. UndoExact'
  BY <1>1, SameUndo
<1> QED
  BY <1>2, <1>3, <1>4, <1>5 DEF Inductive

\* A step that leaves the index alone keeps the invariant.
LEMMA StutterKeeps ==
  ASSUME Inductive, UNCHANGED storeVars
  PROVE  Inductive'
<1>1. UNCHANGED <<utxo, txindex, history, header, txpos, txblob, undo, checkpoint>>
  BY DEF storeVars
<1>2. TypeOK'
  BY <1>1 DEF Inductive, TypeOK, StoreTypeOK, UndoRecord
<1>3. HeadersLinked'
  BY <1>1 DEF Inductive, HeadersLinked, Stored
<1>4. UtxoExact' /\ HistoryExact' /\ PositionsExact'
  BY <1>1, SameChain
<1>5. UndoExact'
  BY <1>1, SameUndo
<1> QED
  BY <1>2, <1>3, <1>4, <1>5 DEF Inductive

\* Every step of the ledger keeps it.
LEMMA StepKeeps == Inductive /\ [Next]_storeVars => Inductive'
<1> SUFFICES ASSUME Inductive, [Next]_storeVars PROVE Inductive'
  OBVIOUS
<1>1. CASE \E b \in Block : AppendBlock(b)
  BY <1>1, AppendKeeps
<1>2. CASE \E b \in Block : SetStart(b) \/ LowerCheckpoint(b)
  BY <1>2, CheckpointKeeps
<1>3. CASE \E h \in Stored : TakeOff(h)
  BY <1>3, TakeOffKeeps
<1>4. CASE \E keep \in Range(Height) : Prune(keep)
  BY <1>4, PruneKeeps
<1>5. CASE UNCHANGED storeVars
  BY <1>5, StutterKeeps
<1> QED
  BY <1>1, <1>2, <1>3, <1>4, <1>5 DEF Next

-----------------------------------------------------------------------------
\* The conjunction of the ledger's invariants is inductive.  No one of them
\* is on its own: what rollbackBlock restores is right because the undo
\* record is, the record is because the UTXO keys were when IndexBlock wrote
\* it, and both because the stored headers are one branch.
THEOREM InductiveHolds == Spec => []Inductive
BY InitHolds, StepKeeps, PTL DEF Spec

\* Every record of the index is always of the kind its readers parse.
THEOREM TypeCorrect == Spec => []TypeOK
<1>1. Inductive => TypeOK
  BY DEF Inductive
<1> QED
  BY <1>1, InductiveHolds, PTL

\* The headers the index stores are always one unbroken piece of one branch,
\* whatever blocks IndexBlock has added and rollbackBlock has taken off.
THEOREM HeadersLinkedHolds == Spec => []HeadersLinked
<1>1. Inductive => HeadersLinked
  BY DEF Inductive
<1> QED
  BY <1>1, InductiveHolds, PTL

\* The UTXO keys are always the unspent outputs of the stored chain, after
\* any sequence of indexed and rolled back blocks.
THEOREM UtxoExactHolds == Spec => []UtxoExact
<1>1. Inductive => UtxoExact
  BY DEF Inductive
<1> QED
  BY <1>1, InductiveHolds, PTL

\* The history keys are always those of the stored chain.
THEOREM HistoryExactHolds == Spec => []HistoryExact
<1>1. Inductive => HistoryExact
  BY DEF Inductive
<1> QED
  BY <1>1, InductiveHolds, PTL

\* Every undo record is always what undoing its block takes.
THEOREM UndoExactHolds == Spec => []UndoExact
<1>1. Inductive => UndoExact
  BY DEF Inductive
<1> QED
  BY <1>1, InductiveHolds, PTL

\* A position and the blob it points into are those of the stored block.
LEMMA LookupFromPositions == Inductive => LookupExact
<1> SUFFICES ASSUME Inductive,
                    NEW h \in Stored, NEW t \in Range(BlockTxs[header[h]])
             PROVE  LookupTx(t) = {t}
  BY DEF LookupExact
<1>1. header[h] \in Block
  BY DEF Inductive, TypeOK, StoreTypeOK, Stored
<1>2. BlockTxs[header[h]] \in Seq(Tx)
  BY <1>1, TxAssumption
<1>3. PICK i \in 1 .. Len(BlockTxs[header[h]]) : BlockTxs[header[h]][i] = t
  BY <1>2 DEF Range
<1>4. t \in DOMAIN txpos /\ txpos[t] = <<h, i>>
  BY <1>3 DEF Inductive, PositionsExact
<1>5. h \in DOMAIN txblob /\ txblob[h] = BlockTxs[header[h]]
  BY DEF Inductive, PositionsExact
<1> QED
  BY <1>3, <1>4, <1>5 DEF LookupTx, TxAt

\* getTxFromDB always answers a transaction of the stored chain with itself,
\* although rollbackBlock leaves positions and blobs of orphans behind.
THEOREM LookupExactHolds == Spec => []LookupExact
BY LookupFromPositions, InductiveHolds, PTL

\* Positions and blobs of the stored chain are always that chain's own, also of
\* transactions an orphaned block had before.
THEOREM PositionsExactHolds == Spec => []PositionsExact
<1>1. Inductive => PositionsExact
  BY DEF Inductive
<1> QED
  BY <1>1, InductiveHolds, PTL

\* The history keys of the stored chain, read through its txid lists, always
\* give the transactions that touch a scripthash and no others.
THEOREM HistoryReadsExactHolds == Spec => []HistoryReadsExact
<1>1. Inductive => HistoryReadsExact
  <2> SUFFICES ASSUME Inductive, NEW sh \in Range(Script)
               PROVE  HistoryTxs(sh) =
                        {t \in Tx : \E h \in Stored : \E i \in 1 .. Len(BlockTxs[header[h]]) :
                           /\ BlockTxs[header[h]][i] = t
                           /\ sh \in Touched(header[h], i, Found(h))}
    BY DEF HistoryReadsExact
  <2>1. \A h \in Stored : header[h] \in Block
    BY DEF Inductive, TypeOK, StoreTypeOK, Stored
  <2>2. \A h \in Stored : \A i \in 1 .. Len(BlockTxs[header[h]]) : BlockTxs[header[h]][i] \in Tx
    <3>1. \A b \in Block : BlockTxs[b] \in Seq(Tx)
      BY TxAssumption
    <3>2. QED
      BY <2>1, <3>1
  <2>3. history = UNION {HistoryOf(header[h], h, Found(h)) : h \in Stored}
    BY DEF Inductive, HistoryExact
  <2>4. \A k : k \in history <=>
          \E h \in Stored : \E i \in 1 .. Len(BlockTxs[header[h]]) :
            \E x \in Touched(header[h], i, Found(h)) : k = <<x, h, i>>
    BY <2>3 DEF HistoryOf
  <2>5. ASSUME NEW t \in HistoryTxs(sh)
        PROVE  /\ t \in Tx
               /\ \E h \in Stored : \E i \in 1 .. Len(BlockTxs[header[h]]) :
                    BlockTxs[header[h]][i] = t /\ sh \in Touched(header[h], i, Found(h))
    <3>1. PICK k \in history : k[1] = sh /\ t = BlockTxs[header[k[2]]][k[3]]
      BY <2>5 DEF HistoryTxs
    <3>2. PICK h \in Stored : \E i \in 1 .. Len(BlockTxs[header[h]]) :
            \E x \in Touched(header[h], i, Found(h)) : k = <<x, h, i>>
      BY <2>4
    <3>3. PICK i \in 1 .. Len(BlockTxs[header[h]]) :
            \E x \in Touched(header[h], i, Found(h)) : k = <<x, h, i>>
      BY <3>2
    <3>4. sh \in Touched(header[h], i, Found(h)) /\ k[2] = h /\ k[3] = i
      BY <3>1, <3>3
    <3>5. QED
      BY <2>2, <3>1, <3>4
  <2>6. ASSUME NEW h \in Stored, NEW i \in 1 .. Len(BlockTxs[header[h]]),
               sh \in Touched(header[h], i, Found(h))
        PROVE  BlockTxs[header[h]][i] \in HistoryTxs(sh)
    <3> DEFINE k == <<sh, h, i>>
    <3>1. k \in history
      BY <2>4, <2>6
    <3>2. k[1] = sh /\ k[2] = h /\ k[3] = i
      OBVIOUS
    <3>3. h \in DOMAIN header /\ i <= Len(BlockTxs[header[h]])
      <4>1. BlockTxs[header[h]] \in Seq(Tx)
        BY <2>1, TxAssumption
      <4>2. QED
        BY <4>1 DEF Stored
    <3> HIDE DEF k
    <3>4. QED
      BY <3>1, <3>2, <3>3 DEF HistoryTxs
  <2>7. QED
    BY <2>5, <2>6
<1> QED
  BY <1>1, InductiveHolds, PTL
=============================================================================
