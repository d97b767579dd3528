------------------------ MODULE MempoolOverlayProofs ------------------------
(***************************************************************************)
(* Proofs about MempoolOverlay for every block tree, every set of          *)
(* transactions and every bound: its maps stay in step with each other and *)
(* with the disk, and a reconcile that nothing disturbs leaves precisely   *)
(* Core's mempool.  The index below the overlay moves by the steps of      *)
(* IndexLedger, so the lemmas of IndexLedgerProofs are used through an     *)
(* instance of that module.                                                *)
(***************************************************************************)
EXTENDS MempoolOverlay, IndexStoreProofs, TLAPS

Index == INSTANCE IndexLedgerProofs

-----------------------------------------------------------------------------
(***************************************************************************)
(* The parts of the inductive invariant.                                   *)
(***************************************************************************)

\* The overlay's share of TypeOK, with the map spentBy a function.
OverlayTypeOK ==
  /\ DOMAIN transactions \subseteq Tx
  /\ \A t \in DOMAIN transactions : transactions[t] \subseteq TxIn[t]
  /\ byScripthash \subseteq Range(Script) \X Tx
  /\ DOMAIN spentBy \subseteq Outpoint
  /\ spentBy \in [DOMAIN spentBy -> Tx]
  /\ DOMAIN outputs \subseteq Outpoint
  /\ outputs \in [DOMAIN outputs -> Tx \cup {NoTx}]
  /\ persisted \subseteq Outpoint \ Skipped

OverlayOK == OverlayTypeOK /\ IndexesAgree

\* An entry the overlay should have for a transaction, and has not, was taken
\* out on behalf of a block: its spends are spends of S, and a transaction an
\* output of which is missing is one of C.
Kept(S, C) ==
  \A t \in DOMAIN transactions :
    /\ \A o \in TxIn[t] : \/ o \in DOMAIN spentBy /\ spentBy[o] = t
                          \/ o \in InputsOf(S)
    /\ \A o \in Indexable(t) : o \in DOMAIN outputs \/ t \in C

\* The transactions the index has, or is about to have.
Indexed ==
  Confirmed(checkpoint.hash)
    \cup (IF ctl.at = "commit" THEN Range(BlockTxs[ctl.blk]) ELSE {})

\* The block a call holds.
CallInHand ==
  /\ ctl.at \in {"commit", "rollback"} => ctl.blk \in Block
  /\ ctl.at = "commit" => Prev[ctl.blk] = checkpoint.hash

\* The index is exact, the checkpoint names a block, and but for a rollback
\* that is the highest one stored.
IndexOK ==
  /\ Index!Inductive
  /\ checkpoint.hash \in Block
  /\ ctl.at # "rollback" => Index!TipStored

\* While nothing disturbs reconcileMempool: the overlay has nothing Core's
\* mempool has not, and what it lacks is still on the list.
BackfillSound ==
  ctl.at = "backfill" /\ steady =>
    /\ DOMAIN transactions \subseteq pool
    /\ ctl.todo \subseteq pool
    /\ pool \subseteq DOMAIN transactions \cup ctl.todo
    /\ DOMAIN outputs \subseteq OutputsOf(pool)

Inductive ==
  /\ TypeOK
  /\ OverlayOK
  /\ CallInHand
  /\ IndexOK
  /\ Admissible(pool, core)
  /\ Kept(Indexed, Confirmed(checkpoint.hash))
  /\ BackfillSound

-----------------------------------------------------------------------------
(***************************************************************************)
(* Outpoints, blocks and maps.                                             *)
(***************************************************************************)

\* ReconcileWith finds the creator of an output in its outpoint.
LEMMA OwnerExact ==
  ASSUME NEW t \in Tx, NEW o \in TxOut[t]
  PROVE  OwnerOf(o) = t
BY MempoolAssumption DEF OwnerOf

\* An outpoint has an owner.
LEMMA OwnerType ==
  ASSUME NEW o \in Outpoint
  PROVE  OwnerOf(o) \in Tx /\ o \in TxOut[OwnerOf(o)]
BY DEF OwnerOf, Outpoint

\* The outputs IndexBlock and AddTransaction write name outpoints, and so do
\* the inputs of a transaction.
LEMMA TxType ==
  ASSUME NEW t \in Tx
  PROVE  /\ Indexable(t) \subseteq Outpoint \ Skipped
         /\ Indexable(t) \subseteq TxOut[t]
         /\ TxIn[t] \subseteq Outpoint
BY TxAssumption DEF Indexable, Outpoint

\* The scripthashes a transaction is filed under.
LEMMA ScripthashesType ==
  ASSUME NEW t \in Tx, NEW ins \in SUBSET TxIn[t]
  PROVE  ScripthashesOf(t, ins) \subseteq Range(Script)
BY TxType, TxAssumption DEF ScripthashesOf, Range

\* Different transactions have no output in common.
LEMMA OutputsApart ==
  ASSUME NEW T \in SUBSET Tx, NEW t \in Tx \ T
  PROVE  Indexable(t) \cap OutputsOf(T) = {}
BY MempoolAssumption DEF OutputsOf, Indexable

\* The confirmed transactions of a block's branch: those of its predecessor's
\* branch and its own.
LEMMA ConfirmedType ==
  ASSUME NEW b \in Block
  PROVE  Confirmed(b) \subseteq Tx
<1>1. Chain(b) \subseteq Block
  BY TreeAssumption DEF Chain
<1> QED
  BY <1>1, PlaceType DEF Confirmed

\* ConfirmedNext: a block confirms what its predecessor does, and its own.
LEMMA ConfirmedNext ==
  ASSUME NEW b \in Block, Prev[b] \in Block
  PROVE  Confirmed(b) = Confirmed(Prev[b]) \cup Range(BlockTxs[b])
<1>1. Chain(b) = Chain(Prev[b]) \cup {b}
  BY TreeAssumption DEF Chain
<1> QED
  BY <1>1 DEF Confirmed

\* A map without the keys in S.
LEMMA WithoutMap ==
  ASSUME NEW m, NEW S
  PROVE  /\ DOMAIN Without(m, S) = DOMAIN m \ S
         /\ \A x \in DOMAIN m \ S : Without(m, S)[x] = m[x]
         /\ \A V : m \in [DOMAIN m -> V] => Without(m, S) \in [DOMAIN m \ S -> V]
BY DEF Without, Restrict

-----------------------------------------------------------------------------
(***************************************************************************)
(* The operations of the overlay.                                          *)
(***************************************************************************)

\* An overlay that is left alone.
LEMMA SameOverlay ==
  ASSUME OverlayOK, NEW S, NEW C, Kept(S, C), UNCHANGED overlayVars
  PROVE  OverlayOK' /\ Kept(S, C)'
<1>1. OverlayTypeOK'
  BY DEF OverlayOK, OverlayTypeOK, overlayVars
<1>2. IndexesAgree'
  BY DEF OverlayOK, IndexesAgree, overlayVars
<1>3. Kept(S, C)'
  BY DEF Kept, overlayVars
<1> QED
  BY <1>1, <1>2, <1>3 DEF OverlayOK

\* Empty maps, whatever the disk has: a crash, a rollback.
LEMMA EmptyOverlayOK ==
  ASSUME transactions' = EmptyMap, byScripthash' = {}, spentBy' = EmptyMap,
         outputs' = EmptyMap, persisted' \subseteq Outpoint \ Skipped, NEW S, NEW C
  PROVE  OverlayOK' /\ Kept(S, C)'
<1> USE DEF EmptyMap
<1>1. OverlayTypeOK'
  BY DEF OverlayTypeOK
<1>2. OutputsOf({}) = {}
  BY DEF OutputsOf
<1>3. IndexesAgree'
  BY <1>2 DEF IndexesAgree
<1>4. Kept(S, C)'
  BY DEF Kept
<1> QED
  BY <1>1, <1>3, <1>4 DEF OverlayOK

\* LoadFromDatabase: outputs and byScripthash come back from the disk, which
\* has no output that AddTransaction would have skipped.
LEMMA LoadKeeps ==
  ASSUME OverlayOK, LoadFromDatabase, NEW S, NEW C
  PROVE  OverlayOK' /\ Kept(S, C)'
<1> USE DEF EmptyMap
<1>1. /\ transactions' = EmptyMap /\ spentBy' = EmptyMap
      /\ byScripthash' = {<<Script[o], OwnerOf(o)>> : o \in persisted}
      /\ outputs' = [o \in persisted |-> NoTx]
      /\ persisted' = persisted
      /\ persisted \subseteq Outpoint \ Skipped
  BY DEF LoadFromDatabase, OverlayOK, OverlayTypeOK
<1>2. byScripthash' \subseteq Range(Script) \X Tx
  BY <1>1, OwnerType, TxAssumption DEF Range
<1>3. OverlayTypeOK'
  BY <1>1, <1>2 DEF OverlayTypeOK
<1>4. OutputsOf({}) = {}
  BY DEF OutputsOf
<1>5. IndexesAgree'
  BY <1>1, <1>4 DEF IndexesAgree
<1>6. Kept(S, C)'
  BY <1>1 DEF Kept
<1> QED
  BY <1>3, <1>5, <1>6 DEF OverlayOK

\* AddTransaction of a transaction that is really added.
LEMMA AddedFacts ==
  ASSUME NEW t \in Tx, AddTransaction(t), ~(t \in DOMAIN transactions \/ DoubleSpends(t))
  PROVE  /\ t \notin DOMAIN transactions
         /\ TxIn[t] \cap DOMAIN spentBy = {}
         /\ transactions' = Put(transactions, t, Resolved(t))
         /\ byScripthash' =
              byScripthash \cup (ScripthashesOf(t, Resolved(t)) \X {t})
         /\ spentBy' = [o \in DOMAIN spentBy \cup TxIn[t] |->
                          IF o \in TxIn[t] THEN t ELSE spentBy[o]]
         /\ outputs' = [o \in DOMAIN outputs \cup Indexable(t) |->
                          IF o \in Indexable(t) THEN NoTx
                          ELSE IF o \in TxIn[t] THEN t ELSE outputs[o]]
         /\ persisted' = persisted \cup Indexable(t)
         /\ Resolved(t) \subseteq TxIn[t]
BY DEF AddTransaction, DoubleSpends, Resolved, PersistTransaction

\* AddTransaction files a transaction everywhere or, when it is known or an
\* input of it is spent already, nowhere.
LEMMA AddKeeps ==
  ASSUME OverlayOK, NEW S, NEW C, Kept(S, C), NEW t \in Tx, AddTransaction(t)
  PROVE  OverlayOK' /\ Kept(S, C)'
<1>1. CASE t \in DOMAIN transactions \/ DoubleSpends(t)
  BY <1>1, SameOverlay DEF AddTransaction
<1>2. CASE ~(t \in DOMAIN transactions \/ DoubleSpends(t))
  <2>1. /\ t \notin DOMAIN transactions
        /\ TxIn[t] \cap DOMAIN spentBy = {}
        /\ transactions' = Put(transactions, t, Resolved(t))
        /\ byScripthash' =
             byScripthash \cup (ScripthashesOf(t, Resolved(t)) \X {t})
        /\ spentBy' = [o \in DOMAIN spentBy \cup TxIn[t] |->
                         IF o \in TxIn[t] THEN t ELSE spentBy[o]]
        /\ outputs' = [o \in DOMAIN outputs \cup Indexable(t) |->
                         IF o \in Indexable(t) THEN NoTx
                         ELSE IF o \in TxIn[t] THEN t ELSE outputs[o]]
        /\ persisted' = persisted \cup Indexable(t)
        /\ Resolved(t) \subseteq TxIn[t]
    BY <1>2, AddedFacts
  <2>2. /\ DOMAIN transactions' = DOMAIN transactions \cup {t}
        /\ transactions'[t] = Resolved(t)
        /\ \A u \in DOMAIN transactions : transactions'[u] = transactions[u]
    BY <2>1 DEF Put
  <2>3. /\ Indexable(t) \subseteq Outpoint \ Skipped
        /\ TxIn[t] \subseteq Outpoint
        /\ ScripthashesOf(t, Resolved(t)) \subseteq Range(Script)
    BY <2>1, TxType, ScripthashesType
  <2>4. OverlayTypeOK'
    <3>1. DOMAIN transactions' \subseteq Tx
      BY <2>2 DEF OverlayOK, OverlayTypeOK
    <3>2. \A u \in DOMAIN transactions' : transactions'[u] \subseteq TxIn[u]
      BY <2>1, <2>2 DEF OverlayOK, OverlayTypeOK
    <3>3. byScripthash' \subseteq Range(Script) \X Tx
      BY <2>1, <2>3 DEF OverlayOK, OverlayTypeOK
    <3>4. DOMAIN spentBy' \subseteq Outpoint /\ spentBy' \in [DOMAIN spentBy' -> Tx]
      BY <2>1, <2>3 DEF OverlayOK, OverlayTypeOK
    <3>5. DOMAIN outputs' \subseteq Outpoint /\ outputs' \in [DOMAIN outputs' -> Tx \cup {NoTx}]
      BY <2>1, <2>3 DEF OverlayOK, OverlayTypeOK
    <3>6. persisted' \subseteq Outpoint \ Skipped
      BY <2>1, <2>3 DEF OverlayOK, OverlayTypeOK
    <3> QED
      BY <3>1, <3>2, <3>3, <3>4, <3>5, <3>6 DEF OverlayTypeOK
  <2>5. IndexesAgree'
    <3>1. \A o \in DOMAIN spentBy' :
            spentBy'[o] \in DOMAIN transactions' /\ o \in TxIn[spentBy'[o]]
      BY <2>1, <2>2 DEF OverlayOK, IndexesAgree
    <3>2. \A u \in DOMAIN transactions' :
            ScripthashesOf(u, transactions'[u]) \X {u} \subseteq byScripthash'
      BY <2>1, <2>2 DEF OverlayOK, IndexesAgree
    <3>3. OutputsOf(DOMAIN transactions') = OutputsOf(DOMAIN transactions) \cup Indexable(t)
      BY <2>2 DEF OutputsOf
    <3>4. DOMAIN outputs' \cup OutputsOf(DOMAIN transactions') \subseteq persisted'
      BY <2>1, <3>3 DEF OverlayOK, IndexesAgree
    <3> QED
      BY <3>1, <3>2, <3>4 DEF IndexesAgree
  <2>6. Kept(S, C)'
    <3> SUFFICES ASSUME NEW u \in DOMAIN transactions'
                 PROVE  /\ \A o \in TxIn[u] : \/ o \in DOMAIN spentBy' /\ spentBy'[o] = u
                                              \/ o \in InputsOf(S)
                        /\ \A o \in Indexable(u) : o \in DOMAIN outputs' \/ u \in C
      BY DEF Kept
    <3>1. CASE u = t
      BY <2>1, <3>1
    <3>2. CASE u # t
      BY <2>1, <2>2, <3>2 DEF Kept
    <3> QED
      BY <3>1, <3>2
  <2> QED
    BY <2>4, <2>5, <2>6 DEF OverlayOK
<1> QED
  BY <1>1, <1>2

\* What removing transactions leaves, of the maps that change in the same way
\* in Remove and in ReconcileWith: `gone` are the transactions taken out, and P
\* the pairs of byScripthash.
LEMMA WithoutKeeps ==
  ASSUME OverlayOK, NEW gone \in SUBSET DOMAIN transactions, NEW P,
         transactions' = Without(transactions, gone),
         byScripthash' = byScripthash \ P,
         \A e \in P : \A u \in DOMAIN transactions \ gone : e[2] # u,
         persisted' = persisted \ OutputsOf(gone),
         DOMAIN outputs' \subseteq DOMAIN outputs \ OutputsOf(gone),
         \A o \in DOMAIN outputs' : outputs'[o] = outputs[o],
         outputs' = [o \in DOMAIN outputs' |-> outputs'[o]],
         DOMAIN spentBy' \subseteq DOMAIN spentBy,
         \A o \in DOMAIN spentBy' : spentBy'[o] = spentBy[o] /\ spentBy[o] \notin gone,
         spentBy' = [o \in DOMAIN spentBy' |-> spentBy'[o]]
  PROVE  OverlayOK'
<1>1. /\ DOMAIN transactions' = DOMAIN transactions \ gone
      /\ \A u \in DOMAIN transactions' : transactions'[u] = transactions[u]
      /\ DOMAIN transactions \subseteq Tx
  BY DEF Without, Restrict, OverlayOK, OverlayTypeOK
<1>2. OverlayTypeOK'
  <2>1. spentBy' \in [DOMAIN spentBy' -> Tx]
    BY DEF OverlayOK, OverlayTypeOK
  <2>2. outputs' \in [DOMAIN outputs' -> Tx \cup {NoTx}]
    BY DEF OverlayOK, OverlayTypeOK
  <2>3. byScripthash' \subseteq Range(Script) \X Tx
    BY DEF OverlayOK, OverlayTypeOK
  <2> QED
    BY <1>1, <2>1, <2>2, <2>3 DEF OverlayOK, OverlayTypeOK
<1>3. \A o \in DOMAIN spentBy' :
        spentBy'[o] \in DOMAIN transactions' /\ o \in TxIn[spentBy'[o]]
  BY <1>1 DEF OverlayOK, IndexesAgree
<1>4. ASSUME NEW u \in DOMAIN transactions'
      PROVE  ScripthashesOf(u, transactions'[u]) \X {u} \subseteq byScripthash'
  <2>1. ScripthashesOf(u, transactions[u]) \X {u} \subseteq byScripthash
    BY <1>1 DEF OverlayOK, IndexesAgree
  <2>2. \A e \in ScripthashesOf(u, transactions[u]) \X {u} : e[2] = u
    OBVIOUS
  <2> QED
    BY <1>1, <2>1, <2>2
<1>5. DOMAIN outputs' \cup OutputsOf(DOMAIN transactions') \subseteq persisted'
  <2>1. OutputsOf(DOMAIN transactions') \cap OutputsOf(gone) = {}
    <3> SUFFICES ASSUME NEW u \in DOMAIN transactions'
                 PROVE  Indexable(u) \cap OutputsOf(gone) = {}
      BY DEF OutputsOf
    <3> QED
      BY <1>1, OutputsApart
  <2>2. OutputsOf(DOMAIN transactions') \subseteq OutputsOf(DOMAIN transactions)
    BY <1>1 DEF OutputsOf
  <2> QED
    BY <2>1, <2>2 DEF OverlayOK, IndexesAgree
<1> QED
  BY <1>2, <1>3, <1>4, <1>5 DEF OverlayOK, IndexesAgree

\* Remove, called by IndexBlock with the block's transactions and the outputs
\* it spends: what goes missing of another transaction is a spend of the block
\* or an output of a transaction in C.
LEMMA RemoveKeeps ==
  ASSUME OverlayOK, NEW S, NEW C, Kept(S, C), NEW T, NEW O, Remove(T, O),
         NEW Z, S \cup T \subseteq Z, O \subseteq InputsOf(Z),
         \A u \in Tx : Indexable(u) \cap O # {} => u \in C
  PROVE  OverlayOK' /\ Kept(Z, C)'
<1> SUFFICES ASSUME NEW gone, gone = T \cap DOMAIN transactions,
                    NEW P, P = UNION {ScripthashesOf(t, transactions[t]) \X {t} : t \in gone}
             PROVE  OverlayOK' /\ Kept(Z, C)'
  OBVIOUS
<1>1. /\ transactions' = Without(transactions, gone)
      /\ byScripthash' = byScripthash \ P
      /\ spentBy' = Without(spentBy, InputsOf(gone) \cup O)
      /\ outputs' = Without(outputs, OutputsOf(gone) \cup O)
      /\ persisted' = persisted \ OutputsOf(gone)
  BY DEF Remove, UnpersistTransactions
<1>2. \A e \in P : \A u \in DOMAIN transactions \ gone : e[2] # u
  OBVIOUS
<1>3. gone \in SUBSET DOMAIN transactions /\ gone \subseteq T /\ DOMAIN transactions \subseteq Tx
  BY DEF OverlayOK, OverlayTypeOK
<1>4. /\ DOMAIN transactions' = DOMAIN transactions \ gone
      /\ DOMAIN spentBy' = DOMAIN spentBy \ (InputsOf(gone) \cup O)
      /\ \A o \in DOMAIN spentBy' : spentBy'[o] = spentBy[o]
      /\ DOMAIN outputs' = DOMAIN outputs \ (OutputsOf(gone) \cup O)
      /\ \A o \in DOMAIN outputs' : outputs'[o] = outputs[o]
      /\ spentBy' = [o \in DOMAIN spentBy' |-> spentBy'[o]]
      /\ outputs' = [o \in DOMAIN outputs' |-> outputs'[o]]
  BY <1>1 DEF Without, Restrict
<1>5. \A o \in DOMAIN spentBy' : spentBy[o] \notin gone
  BY <1>4 DEF OverlayOK, IndexesAgree, InputsOf
<1>6. OverlayOK'
  <2>1. /\ DOMAIN outputs' \subseteq DOMAIN outputs \ OutputsOf(gone)
        /\ DOMAIN spentBy' \subseteq DOMAIN spentBy
        /\ \A o \in DOMAIN spentBy' : spentBy'[o] = spentBy[o] /\ spentBy[o] \notin gone
    BY <1>4, <1>5
  <2>2. /\ \A o \in DOMAIN outputs' : outputs'[o] = outputs[o]
        /\ outputs' = [o \in DOMAIN outputs' |-> outputs'[o]]
        /\ spentBy' = [o \in DOMAIN spentBy' |-> spentBy'[o]]
    BY <1>4
  <2>3. /\ gone \in SUBSET DOMAIN transactions
        /\ transactions' = Without(transactions, gone)
        /\ byScripthash' = byScripthash \ P
        /\ persisted' = persisted \ OutputsOf(gone)
    BY <1>1, <1>3
  <2> QED
    BY ONLY OverlayOK, <1>2, <2>1, <2>2, <2>3, WithoutKeeps
<1>7. InputsOf(gone) \subseteq InputsOf(Z) /\ InputsOf(S) \subseteq InputsOf(Z)
  BY <1>3 DEF InputsOf
<1>8. ASSUME NEW u \in DOMAIN transactions', NEW o \in TxIn[u]
      PROVE  \/ o \in DOMAIN spentBy' /\ spentBy'[o] = u
             \/ o \in InputsOf(Z)
  BY <1>4, <1>7 DEF Kept
<1>9. ASSUME NEW u \in DOMAIN transactions', NEW o \in Indexable(u)
      PROVE  o \in DOMAIN outputs' \/ u \in C
  <2>1. u \in Tx \ gone /\ u \in DOMAIN transactions
    BY <1>3, <1>4
  <2>2. o \notin OutputsOf(gone)
    BY <1>3, <2>1, OutputsApart
  <2> QED
    BY <1>4, <2>1, <2>2 DEF Kept
<1> QED
  BY <1>6, <1>8, <1>9 DEF Kept

\* What ReconcileWith leaves has its transactions in `valid`; nothing of theirs
\* goes missing that was not missing before.
LEMMA ReconcileKeeps ==
  ASSUME OverlayOK, NEW S, NEW C, Kept(S, C), NEW valid, ReconcileWith(valid)
  PROVE  /\ OverlayOK' /\ Kept(S, C)'
         /\ DOMAIN transactions' \subseteq valid
         /\ DOMAIN outputs' \subseteq OutputsOf(valid)
<1> SUFFICES ASSUME NEW gone, gone = DOMAIN transactions \ valid,
                    NEW loose, loose = {o \in DOMAIN outputs : OwnerOf(o) \notin valid},
                    NEW P, P = (UNION {ScripthashesOf(t, transactions[t]) \X {t} : t \in gone})
                                 \cup {<<Script[o], OwnerOf(o)>> : o \in loose},
                    NEW held, held = {o \in DOMAIN spentBy \ InputsOf(gone) :
                                        spentBy[o] \in valid}
             PROVE  /\ OverlayOK' /\ Kept(S, C)'
                    /\ DOMAIN transactions' \subseteq valid
                    /\ DOMAIN outputs' \subseteq OutputsOf(valid)
  OBVIOUS
<1>1. /\ transactions' = Without(transactions, gone)
      /\ byScripthash' = byScripthash \ P
      /\ spentBy' = Restrict(spentBy, held)
      /\ outputs' = Without(outputs, loose)
      /\ persisted' = persisted \ OutputsOf(gone)
  BY DEF ReconcileWith, UnpersistTransactions
<1>2. /\ DOMAIN transactions' = DOMAIN transactions \ gone
      /\ DOMAIN spentBy' = held
      /\ \A o \in DOMAIN spentBy' : spentBy'[o] = spentBy[o]
      /\ DOMAIN outputs' = DOMAIN outputs \ loose
      /\ \A o \in DOMAIN outputs' : outputs'[o] = outputs[o]
      /\ spentBy' = [o \in DOMAIN spentBy' |-> spentBy'[o]]
      /\ outputs' = [o \in DOMAIN outputs' |-> outputs'[o]]
  BY <1>1 DEF Without, Restrict
<1>3. /\ gone \in SUBSET DOMAIN transactions
      /\ DOMAIN transactions \subseteq Tx
      /\ DOMAIN transactions \ gone \subseteq valid
      /\ DOMAIN outputs \subseteq Outpoint
      /\ DOMAIN outputs \cap Skipped = {}
  BY DEF OverlayOK, OverlayTypeOK, IndexesAgree
<1>4. \A e \in P : \A u \in DOMAIN transactions \ gone : e[2] # u
  <2>1. ASSUME NEW e \in P PROVE e[2] \in gone \/ e[2] \notin valid
    <3>1. CASE e \in UNION {ScripthashesOf(t, transactions[t]) \X {t} : t \in gone}
      BY <3>1
    <3>2. CASE e \in {<<Script[o], OwnerOf(o)>> : o \in loose}
      <4>1. PICK o \in loose : e = <<Script[o], OwnerOf(o)>>
        BY <3>2
      <4>2. e[2] = OwnerOf(o)
        BY <4>1
      <4> QED
        BY <4>2
    <3> QED
      BY <3>1, <3>2
  <2> QED
    BY <1>3, <2>1
<1>5. DOMAIN outputs \cap OutputsOf(gone) \subseteq loose
  <2> SUFFICES ASSUME NEW t \in gone, NEW o \in DOMAIN outputs, o \in Indexable(t)
               PROVE  o \in loose
    BY DEF OutputsOf
  <2>1. t \in Tx /\ t \notin valid /\ o \in TxOut[t]
    BY <1>3 DEF Indexable
  <2>2. OwnerOf(o) = t
    BY <2>1, OwnerExact
  <2> QED
    BY <2>1, <2>2
<1>6. \A o \in DOMAIN spentBy' : spentBy[o] \notin gone
  BY <1>2
<1>7. held \subseteq DOMAIN spentBy
  OBVIOUS
<1>8. OverlayOK'
  <2>1. /\ DOMAIN outputs' \subseteq DOMAIN outputs \ OutputsOf(gone)
        /\ DOMAIN spentBy' \subseteq DOMAIN spentBy
        /\ \A o \in DOMAIN spentBy' : spentBy'[o] = spentBy[o] /\ spentBy[o] \notin gone
    BY <1>2, <1>5, <1>6, <1>7
  <2>2. /\ \A o \in DOMAIN outputs' : outputs'[o] = outputs[o]
        /\ outputs' = [o \in DOMAIN outputs' |-> outputs'[o]]
        /\ spentBy' = [o \in DOMAIN spentBy' |-> spentBy'[o]]
    BY <1>2
  <2>3. /\ gone \in SUBSET DOMAIN transactions
        /\ transactions' = Without(transactions, gone)
        /\ byScripthash' = byScripthash \ P
        /\ persisted' = persisted \ OutputsOf(gone)
    BY <1>1, <1>3
  <2> QED
    BY ONLY OverlayOK, <1>4, <2>1, <2>2, <2>3, WithoutKeeps
<1>9. ASSUME NEW u \in DOMAIN transactions', NEW o \in TxIn[u]
      PROVE  \/ o \in DOMAIN spentBy' /\ spentBy'[o] = u
             \/ o \in InputsOf(S)
  <2>1. u \in valid /\ u \in DOMAIN transactions
    BY <1>2, <1>3
  <2>2. CASE o \in DOMAIN spentBy /\ spentBy[o] = u
    <3>1. CASE o \in InputsOf(gone)
      <4>1. PICK g \in gone : o \in TxIn[g]
        BY <3>1 DEF InputsOf
      <4>2. g # u /\ g \in DOMAIN transactions
        BY <2>1
      <4> QED
        BY <2>2, <4>1, <4>2 DEF Kept
    <3>2. CASE o \notin InputsOf(gone)
      BY <1>2, <2>1, <2>2, <3>2
    <3> QED
      BY <3>1, <3>2
  <2> QED
    BY <2>1, <2>2 DEF Kept
<1>10. ASSUME NEW u \in DOMAIN transactions', NEW o \in Indexable(u)
       PROVE  o \in DOMAIN outputs' \/ u \in C
  <2>1. u \in valid /\ u \in DOMAIN transactions /\ u \in Tx /\ o \in TxOut[u]
    BY <1>2, <1>3 DEF Indexable
  <2>2. OwnerOf(o) = u
    BY <2>1, OwnerExact
  <2> QED
    BY <1>2, <2>1, <2>2 DEF Kept
<1>11. ASSUME NEW o \in DOMAIN outputs' PROVE o \in OutputsOf(valid)
  <2>1. o \in Outpoint /\ o \notin Skipped /\ OwnerOf(o) \in valid
    BY <1>2, <1>3
  <2> QED
    BY <2>1, OwnerType DEF OutputsOf, Indexable
<1> QED
  BY <1>2, <1>3, <1>8, <1>9, <1>10, <1>11 DEF Kept

-----------------------------------------------------------------------------
(***************************************************************************)
(* The index below the overlay.  The instances Ledger and Index have the   *)
(* same definitions as IndexStore under other names; the first lemma is    *)
(* what the assumptions of the instance come to.                           *)
(***************************************************************************)

\* The block tree of the instance is this one.
LEMMA SameTree ==
  /\ TxIn \in [Tx -> SUBSET Index!Outpoint] /\ DOMAIN Script = Index!Outpoint
  /\ \A b \in Block : \A a \in Anc[b] :
       /\ Index!Created(a) \cap Index!Created(b) = {}
       /\ Index!Inputs(a) \cap Index!Inputs(b) = {}
       /\ Index!Inputs(a) \cap Index!Created(b) = {}
       /\ Index!Range(BlockTxs[a]) \cap Index!Range(BlockTxs[b]) = {}
<1>1. \A b \in Block : /\ Index!Created(b) = Created(b)
                       /\ Index!Inputs(b) = Inputs(b)
                       /\ Index!Range(BlockTxs[b]) = Range(BlockTxs[b])
  BY DEF Index!Created, Index!Indexable, Created, Indexable, Index!Inputs, Inputs,
         Index!Range, Range
<1>2. Index!Outpoint = Outpoint
  BY DEF Index!Outpoint, Outpoint
<1> QED
  BY <1>1, <1>2, TreeAssumption, TxAssumption, ConsensusAssumption

\* Every record of an exact index is of the kind its readers parse.
LEMMA IndexType ==
  ASSUME Index!Inductive
  PROVE  StoreTypeOK
BY DEF Index!Inductive, Index!TypeOK, Index!StoreTypeOK, StoreTypeOK,
       Index!UtxoValue, UtxoValue, Index!HistoryKey, HistoryKey,
       Index!UndoRecord, UndoRecord, Index!Checkpoint, Checkpoint,
       Index!Outpoint, Outpoint, Index!Range, Range

\* The state in which the server is started.
LEMMA IndexInit ==
  ASSUME Init
  PROVE  Index!Inductive /\ Index!TipStored /\ checkpoint.hash \in Block
<1> USE DEF Init, EmptyMap, Index!Stored
<1>1. /\ checkpoint = [height |-> Height[StartAt], hash |-> StartAt,
                       start |-> Height[StartAt] + 1]
      /\ StartAt \in Block /\ Height[StartAt] \in Int /\ Height[StartAt] + 1 \in Int
  BY MempoolAssumption, TreeAssumption
<1>2. checkpoint \in Index!Checkpoint /\ checkpoint # Index!FreshCheckpoint
  BY <1>1, TreeAssumption DEF Index!Checkpoint, Index!FreshCheckpoint
<1>3. Index!TypeOK
  BY <1>2 DEF Index!TypeOK, Index!StoreTypeOK
<1>4. Index!HeadersLinked
  BY <1>1, <1>2 DEF Index!HeadersLinked
<1>5. Index!UtxoExact
  BY DEF Index!UtxoExact
<1>6. Index!HistoryExact
  BY DEF Index!HistoryExact
<1>7. Index!UndoExact
  BY DEF Index!UndoExact
<1>8. Index!PositionsExact
  BY DEF Index!PositionsExact
<1>9. Index!TipStored
  BY DEF Index!TipStored
<1> QED
  BY <1>1, <1>3, <1>4, <1>5, <1>6, <1>7, <1>8, <1>9 DEF Index!Inductive

\* A step that leaves the index alone.
LEMMA IndexSame ==
  ASSUME Index!Inductive, UNCHANGED storeVars
  PROVE  Index!Inductive' /\ (Index!TipStored => Index!TipStored')
<1>1. UNCHANGED Index!storeVars
  BY DEF storeVars, Index!storeVars
<1>2. Index!TipStored => Index!TipStored'
  BY DEF Index!TipStored, Index!Stored, storeVars
<1> QED
  BY <1>1, <1>2, SameTree, TreeAssumption, TxAssumption, Index!StutterKeeps

\* The batch of IndexBlock.
LEMMA IndexAppend ==
  ASSUME Index!Inductive, NEW b \in Block, Ledger!AppendBlock(b)
  PROVE  /\ Index!Inductive' /\ Index!TipStored'
         /\ checkpoint'.hash = b
<1>1. Index!AppendBlock(b)
  BY DEF Ledger!AppendBlock, Index!AppendBlock, Ledger!TipStored, Index!TipStored,
         Ledger!Stored, Index!Stored, Ledger!Created, Index!Created,
         Ledger!Indexable, Index!Indexable, Ledger!Inputs, Index!Inputs,
         Ledger!Range, Index!Range, Ledger!IndexBlock, Index!IndexBlock,
         Ledger!SpentBy, Index!SpentBy, Ledger!HistoryOf, Index!HistoryOf,
         Ledger!Touched, Index!Touched, Ledger!Put, Index!Put,
         Ledger!Positions, Index!Positions, Ledger!PlaceIn, Index!PlaceIn,
         Ledger!Restrict, Index!Restrict
<1>2. Index!Inductive'
  BY <1>1, SameTree, TreeAssumption, TxAssumption, Index!AppendKeeps
<1>3. /\ checkpoint' = [height |-> checkpoint.height + 1, hash |-> b,
                        start |-> checkpoint.start]
      /\ header' = Put(header, checkpoint.height + 1, b)
  BY DEF Ledger!AppendBlock, Ledger!IndexBlock, Ledger!Put, Put
<1>4. \A h \in DOMAIN header' : h <= checkpoint'.height
  BY <1>2 DEF Index!Inductive, Index!HeadersLinked, Index!Stored
<1>5. Index!TipStored'
  BY <1>3, <1>4 DEF Index!TipStored, Index!Stored, Put
<1> QED
  BY <1>2, <1>3, <1>5

\* The batch of rollbackBlock.
LEMMA IndexTakeOff ==
  ASSUME Index!Inductive, NEW h \in DOMAIN header, Ledger!TakeOff(h)
  PROVE  Index!Inductive' /\ checkpoint' = checkpoint
<1>1. Index!TakeOff(h) /\ h \in Index!Stored
  BY DEF Ledger!TakeOff, Index!TakeOff, Ledger!IsTop, Index!IsTop,
         Ledger!Stored, Index!Stored, Ledger!RollbackBlock, Index!RollbackBlock,
         Ledger!RestoreOutputs, Index!RestoreOutputs,
         Ledger!DeleteHistory, Index!DeleteHistory,
         Ledger!DeleteUndo, Index!DeleteUndo, Ledger!Without, Index!Without,
         Ledger!Restrict, Index!Restrict
<1>2. checkpoint' = checkpoint
  BY DEF Ledger!TakeOff, Ledger!RollbackBlock
<1> QED
  BY <1>1, <1>2, SameTree, TreeAssumption, TxAssumption, Index!TakeOffKeeps

\* The end of rollbackToHeight.
LEMMA IndexLower ==
  ASSUME Index!Inductive, NEW b \in Block, Ledger!LowerCheckpoint(b)
  PROVE  /\ Index!Inductive' /\ Index!TipStored'
         /\ checkpoint'.hash = b
<1>1. Index!LowerCheckpoint(b)
  BY DEF Ledger!LowerCheckpoint, Index!LowerCheckpoint, Ledger!IsTop, Index!IsTop,
         Ledger!Stored, Index!Stored, Ledger!SaveCheckpoint, Index!SaveCheckpoint,
         Ledger!FreshCheckpoint, Index!FreshCheckpoint
<1>2. Index!Inductive'
  BY <1>1, SameTree, TreeAssumption, TxAssumption, Index!CheckpointKeeps
<1>3. /\ checkpoint' = [height |-> Height[b], hash |-> b, start |-> 0]
      /\ header' = header
      /\ Index!Stored # {} => Index!IsTop(Height[b])
  BY <1>1 DEF Index!LowerCheckpoint, Index!SaveCheckpoint
<1>4. Index!TipStored'
  BY <1>3 DEF Index!TipStored, Index!Stored, Index!IsTop
<1> QED
  BY <1>2, <1>3, <1>4

\* An output the index has was created by a transaction of the branch the
\* checkpoint names.
LEMMA IndexedOwner ==
  ASSUME Index!Inductive, Index!TipStored, checkpoint.hash \in Block,
         NEW t \in Tx, NEW o \in Indexable(t), o \in txindex
  PROVE  t \in Confirmed(checkpoint.hash)
<1>1. PICK h \in DOMAIN header : o \in Created(header[h])
  BY DEF Index!Inductive, Index!UtxoExact, Index!Unspent, Index!Stored,
         Index!Created, Created, Index!Indexable, Indexable
<1>2. /\ header[h] \in Block /\ h \in Int
      /\ \A k \in DOMAIN header : k \in Int
  BY IndexType DEF StoreTypeOK
<1>3. header[h] \in Chain(checkpoint.hash)
  <2>1. /\ h <= checkpoint.height /\ checkpoint.height \in DOMAIN header
        /\ header[checkpoint.height] = checkpoint.hash
    BY DEF Index!TipStored, Index!Stored, Index!Inductive, Index!HeadersLinked
  <2>2. CASE h = checkpoint.height
    BY <2>1, <2>2 DEF Chain
  <2>3. CASE h < checkpoint.height
    BY <2>1, <2>3 DEF Chain, Index!Stored, Index!Inductive, Index!HeadersLinked
  <2> QED
    BY <1>2, <2>1, <2>2, <2>3
<1>4. PICK i \in 1 .. Len(BlockTxs[header[h]]) : o \in Indexable(BlockTxs[header[h]][i])
  BY <1>1 DEF Created
<1>5. /\ BlockTxs[header[h]][i] \in Range(BlockTxs[header[h]])
      /\ BlockTxs[header[h]][i] \in Tx
  BY <1>2, PlaceExact, PlaceType
<1>6. BlockTxs[header[h]][i] = t
  BY <1>4, <1>5, MempoolAssumption DEF Indexable
<1> QED
  BY <1>3, <1>5, <1>6 DEF Confirmed

-----------------------------------------------------------------------------
(***************************************************************************)
(* The rest of TypeOK, and how the parts make the invariant.               *)
(***************************************************************************)
Control ==
  [at : Steps, blk : Block \cup {NoHash}, then : {"idle", "ready"}, todo : SUBSET Tx]

RestTypeOK ==
  /\ core \in Block /\ pool \subseteq Tx
  /\ feed \in Seq(Tx) /\ Len(feed) <= MaxFeed
  /\ ctl \in Control
  /\ steady \in BOOLEAN
  /\ moves \in 0 .. MaxMoves /\ crashes \in 0 .. MaxCrashes
  /\ faults \in 0 .. MaxFaults

\* TypeParts: the part of TypeOK that is not about index or overlay.
LEMMA TypeParts ==
  ASSUME TypeOK
  PROVE  RestTypeOK
BY DEF TypeOK, RestTypeOK, Control

\* Assemble: the parts, proved one by one for each action, make the invariant.
LEMMA Assemble ==
  /\ RestTypeOK /\ OverlayOK /\ CallInHand /\ IndexOK /\ Admissible(pool, core)
  /\ Kept(Indexed, Confirmed(checkpoint.hash)) /\ BackfillSound
  => Inductive
<1> SUFFICES ASSUME RestTypeOK, OverlayOK, CallInHand, IndexOK, Admissible(pool, core),
                    Kept(Indexed, Confirmed(checkpoint.hash)), BackfillSound
             PROVE  Inductive
  OBVIOUS
<1>1. Range(spentBy) \subseteq Tx /\ Range(outputs) \subseteq Tx \cup {NoTx}
  BY DEF OverlayOK, OverlayTypeOK, Range
<1>2. StoreTypeOK
  BY IndexType DEF IndexOK
<1>3. TypeOK
  BY <1>1, <1>2 DEF TypeOK, RestTypeOK, Control, OverlayOK, OverlayTypeOK, MempoolKey
<1> QED
  BY <1>3 DEF Inductive

\* The same, after a step.
LEMMA AssembleNext ==
  ASSUME RestTypeOK', OverlayOK', CallInHand', IndexOK', Admissible(pool, core)',
         Kept(Indexed, Confirmed(checkpoint.hash))', BackfillSound'
  PROVE  Inductive'
BY Assemble, PTL

\* The control state with which a call begins or ends.
LEMMA AtType ==
  ASSUME NEW step \in Steps
  PROVE  /\ At(step) \in Control
         /\ At(step).at = step
         /\ At(step).todo = {}
BY DEF At, Control

\* More blocks, more that may be missing.
LEMMA KeptMore ==
  ASSUME NEW S, NEW C, Kept(S, C), NEW Z, NEW D, S \subseteq Z, C \subseteq D
  PROVE  Kept(Z, D)
<1>1. InputsOf(S) \subseteq InputsOf(Z)
  BY DEF InputsOf
<1> QED
  BY <1>1 DEF Kept

\* A call that only moves on, outside IndexBlock, a rollback and the backfill.
LEMMA GotoKeeps ==
  ASSUME Inductive, UNCHANGED <<storeVars, overlayVars, core, pool>>,
         ctl.at \notin {"commit", "rollback"},
         ctl'.at \notin {"commit", "rollback", "backfill"}, RestTypeOK'
  PROVE  Inductive'
<1>1. checkpoint' = checkpoint /\ core' = core /\ pool' = pool
  BY DEF storeVars
<1>2. CallInHand' /\ BackfillSound'
  BY DEF CallInHand, BackfillSound
<1>3. IndexOK'
  BY <1>1, IndexSame DEF Inductive, IndexOK
<1>4. Admissible(pool, core)'
  BY <1>1 DEF Inductive, Admissible
<1>5. Indexed' = Indexed
  BY <1>1 DEF Indexed
<1>6. OverlayOK' /\ Kept(Indexed, Confirmed(checkpoint.hash))'
  <2> SUFFICES ASSUME NEW S, S = Indexed, NEW C, C = Confirmed(checkpoint.hash)
               PROVE  OverlayOK' /\ Kept(S, C)'
    BY <1>1, <1>5
  <2> QED
    BY SameOverlay DEF Inductive
<1> QED
  BY <1>2, <1>3, <1>4, <1>6, AssembleNext

-----------------------------------------------------------------------------
(***************************************************************************)
(* One lemma per action.                                                   *)
(***************************************************************************)

\* The server has not started, and the overlay and the disk are empty.
LEMMA InitHolds == Init => Inductive
<1> SUFFICES ASSUME Init PROVE Inductive
  OBVIOUS
<1>1. Index!Inductive /\ Index!TipStored /\ checkpoint.hash \in Block
  BY IndexInit
<1>2. ctl = At("down") /\ At("down") \in Control /\ ctl.at = "down"
  BY AtType DEF Init, Steps
<1>3. RestTypeOK
  <2>1. core \in Block /\ pool \subseteq Tx /\ feed \in Seq(Tx) /\ Len(feed) <= MaxFeed
    BY MempoolAssumption DEF Init
  <2>2. steady \in BOOLEAN
    BY DEF Init
  <2>3. /\ moves \in 0 .. MaxMoves /\ crashes \in 0 .. MaxCrashes
        /\ faults \in 0 .. MaxFaults
    BY MempoolAssumption DEF Init
  <2> QED
    BY <1>2, <2>1, <2>2, <2>3 DEF RestTypeOK
<1>4. OverlayTypeOK
  BY DEF Init, EmptyOverlay, EmptyMap, OverlayTypeOK
<1>5. IndexesAgree
  BY DEF Init, EmptyOverlay, EmptyMap, IndexesAgree, OutputsOf
<1>6. Kept(Indexed, Confirmed(checkpoint.hash))
  BY DEF Init, EmptyOverlay, EmptyMap, Kept
<1>7. Admissible(pool, core)
  BY DEF Init, Admissible
<1>8. CallInHand /\ BackfillSound
  BY <1>2 DEF CallInHand, BackfillSound
<1> QED
  BY <1>1, <1>3, <1>4, <1>5, <1>6, <1>7, <1>8, Assemble DEF OverlayOK, IndexOK

\* InitializeCleanKeeps: a start that finds nothing to undo only moves on.
LEMMA InitializeCleanKeeps ==
  ASSUME Inductive, InitializeClean
  PROVE  Inductive'
<1>1. ctl'.at = "ready" /\ ctl' \in Control
  BY AtType DEF InitializeClean, Steps
<1>2. RestTypeOK'
  BY <1>1, TypeParts DEF Inductive, RestTypeOK, InitializeClean, Elsewhere, coreVars
<1> QED
  BY <1>1, <1>2, GotoKeeps DEF InitializeClean, Elsewhere, coreVars

\* ReconcileDoneKeeps: so does reconcileMempool when it returns.
LEMMA ReconcileDoneKeeps ==
  ASSUME Inductive, ReconcileDone
  PROVE  Inductive'
<1>1. ctl'.at = "idle" /\ ctl' \in Control
  BY AtType DEF ReconcileDone, Steps
<1>2. RestTypeOK'
  BY <1>1, TypeParts DEF Inductive, RestTypeOK, ReconcileDone, Elsewhere, coreVars
<1> QED
  BY <1>1, <1>2, GotoKeeps DEF ReconcileDone, Elsewhere, coreVars

\* The overlay gives up the block's transactions and the outputs it spends.  An
\* output of another transaction is among them only when the index has it.
LEMMA IndexStartKeeps ==
  ASSUME Inductive, NEW b \in Block, IndexStart(b)
  PROVE  Inductive'
<1>1. /\ ctl.at = "idle" /\ Prev[b] = checkpoint.hash
      /\ Remove(Range(BlockTxs[b]), Inputs(b) \cap txindex)
      /\ ctl' = [At("commit") EXCEPT !.blk = b]
      /\ UNCHANGED <<storeVars, feed, steady, core, pool, moves, crashes, faults>>
  BY DEF IndexStart, Elsewhere, coreVars
<1>2. ctl' \in Control /\ ctl'.at = "commit" /\ ctl'.blk = b
  BY <1>1 DEF At, Control, Steps
<1>3. RestTypeOK'
  BY <1>1, <1>2, TypeParts DEF Inductive, RestTypeOK
<1>4. checkpoint' = checkpoint /\ checkpoint.hash \in Block
  BY <1>1 DEF storeVars, Inductive, IndexOK
<1>5. CallInHand' /\ BackfillSound'
  BY <1>1, <1>2, <1>4 DEF CallInHand, BackfillSound
<1>6. Index!TipStored
  BY <1>1 DEF Inductive, IndexOK
<1>7. IndexOK'
  BY <1>1, <1>4, <1>6, IndexSame DEF Inductive, IndexOK
<1>8. Admissible(pool, core)'
  BY <1>1 DEF Inductive, Admissible
<1>9. OverlayOK' /\ Kept(Indexed, Confirmed(checkpoint.hash))'
  <2> SUFFICES ASSUME NEW S, S = Indexed, NEW C, C = Confirmed(checkpoint.hash),
                      NEW T, T = Range(BlockTxs[b]), NEW O, O = Inputs(b) \cap txindex,
                      NEW Z, Z = S \cup T
               PROVE  OverlayOK' /\ Kept(Z, C)'
    BY <1>1, <1>2, <1>4 DEF Indexed
  <2>1. OverlayOK /\ Kept(S, C)
    BY DEF Inductive
  <2>2. O \subseteq InputsOf(Z)
    <3>1. ASSUME NEW i \in 2 .. Len(BlockTxs[b]) PROVE BlockTxs[b][i] \in T
      BY PlaceExact, TxAssumption
    <3> QED
      BY <3>1 DEF Inputs, InputsOf
  <2>3. \A u \in Tx : Indexable(u) \cap O # {} => u \in C
    BY <1>4, <1>6, IndexedOwner DEF Inductive, IndexOK
  <2>4. Remove(T, O) /\ S \cup T \subseteq Z
    BY <1>1
  <2> QED
    BY ONLY <2>1, <2>2, <2>3, <2>4, RemoveKeeps
<1> QED
  BY <1>3, <1>5, <1>7, <1>8, <1>9, AssembleNext

\* The block's batch commits, and what was about to be indexed is.
LEMMA IndexCommitKeeps ==
  ASSUME Inductive, IndexCommit
  PROVE  Inductive'
<1>1. /\ ctl.at = "commit" /\ ctl' = At("idle")
      /\ Ledger!AppendBlock(ctl.blk)
      /\ UNCHANGED <<overlayVars, feed, steady, core, pool, moves, crashes, faults>>
  BY DEF IndexCommit, Elsewhere, coreVars
<1>2. ctl' \in Control /\ ctl'.at = "idle"
  BY <1>1, AtType DEF Steps
<1>3. RestTypeOK'
  BY <1>1, <1>2, TypeParts DEF Inductive, RestTypeOK
<1>4. CallInHand' /\ BackfillSound'
  BY <1>2 DEF CallInHand, BackfillSound
<1>5. ctl.blk \in Block /\ Prev[ctl.blk] = checkpoint.hash /\ checkpoint.hash \in Block
  BY <1>1 DEF Inductive, CallInHand, IndexOK
<1>6. Index!Inductive' /\ Index!TipStored' /\ checkpoint'.hash = ctl.blk
  BY <1>1, <1>5, IndexAppend DEF Inductive, IndexOK
<1>7. IndexOK'
  BY <1>5, <1>6 DEF IndexOK
<1>8. Admissible(pool, core)'
  BY <1>1 DEF Inductive, Admissible
<1>9. OverlayOK' /\ Kept(Indexed, Confirmed(checkpoint.hash))'
  <2> SUFFICES ASSUME NEW S, S = Indexed, NEW C, C = Confirmed(checkpoint.hash),
                      NEW Z, Z = Indexed', NEW D, D = Confirmed(checkpoint.hash)'
               PROVE  OverlayOK' /\ Kept(Z, D)'
    OBVIOUS
  <2>1. Confirmed(ctl.blk) = Confirmed(checkpoint.hash) \cup Range(BlockTxs[ctl.blk])
    BY <1>5, ConfirmedNext
  <2>2. D = Confirmed(ctl.blk)
    BY <1>6 DEF Confirmed, Chain
  <2>3. S = D /\ Z = D /\ C \subseteq D
    BY <1>1, <1>2, <2>1, <2>2 DEF Indexed
  <2>4. Kept(Z, D)
    BY <2>3, KeptMore DEF Inductive
  <2> QED
    BY <1>1, <2>4, SameOverlay DEF Inductive
<1> QED
  BY <1>3, <1>4, <1>7, <1>8, <1>9, AssembleNext

\* CheckAndHandle decides to roll back.
LEMMA RollbackStartKeeps ==
  ASSUME Inductive, NEW h \in DOMAIN header, RollbackStart(h)
  PROVE  Inductive'
<1>1. /\ ctl.at \in {"boot", "idle"}
      /\ ctl' = [At("rollback") EXCEPT
                   !.blk = header[h],
                   !.then = IF ctl.at = "boot" THEN "ready" ELSE "idle"]
      /\ UNCHANGED <<storeVars, overlayVars, feed, steady, core, pool, moves, crashes, faults>>
  BY DEF RollbackStart, Elsewhere, coreVars
<1>2. header[h] \in Block
  BY DEF Inductive, TypeOK, StoreTypeOK
<1>3. ctl' \in Control /\ ctl'.at = "rollback" /\ ctl'.blk = header[h]
  BY <1>1, <1>2 DEF At, Control, Steps
<1>4. RestTypeOK'
  BY <1>1, <1>3, TypeParts DEF Inductive, RestTypeOK
<1>5. CallInHand' /\ BackfillSound'
  BY <1>2, <1>3 DEF CallInHand, BackfillSound
<1>6. checkpoint' = checkpoint
  BY <1>1 DEF storeVars
<1>7. IndexOK'
  BY <1>1, <1>3, <1>6, IndexSame DEF Inductive, IndexOK
<1>8. Admissible(pool, core)'
  BY <1>1 DEF Inductive, Admissible
<1>9. OverlayOK' /\ Kept(Indexed, Confirmed(checkpoint.hash))'
  <2> SUFFICES ASSUME NEW S, S = Indexed, NEW C, C = Confirmed(checkpoint.hash)
               PROVE  OverlayOK' /\ Kept(S, C)'
    BY <1>1, <1>3, <1>6 DEF Indexed
  <2> QED
    BY <1>1, SameOverlay DEF Inductive
<1> QED
  BY <1>4, <1>5, <1>7, <1>8, <1>9, AssembleNext

\* One block is taken off; the checkpoint stays.
LEMMA RollbackStepKeeps ==
  ASSUME Inductive, NEW h \in DOMAIN header, RollbackStep(h)
  PROVE  Inductive'
<1>1. /\ ctl.at = "rollback" /\ Ledger!TakeOff(h)
      /\ UNCHANGED <<overlayVars, feed, ctl, steady, core, pool, moves, crashes, faults>>
  BY DEF RollbackStep, Elsewhere, coreVars
<1>2. Index!Inductive' /\ checkpoint' = checkpoint
  BY <1>1, IndexTakeOff DEF Inductive, IndexOK
<1>3. RestTypeOK'
  BY <1>1, TypeParts DEF Inductive, RestTypeOK
<1>4. CallInHand' /\ BackfillSound' /\ IndexOK'
  BY <1>1, <1>2 DEF Inductive, CallInHand, BackfillSound, IndexOK
<1>5. Admissible(pool, core)'
  BY <1>1 DEF Inductive, Admissible
<1>6. OverlayOK' /\ Kept(Indexed, Confirmed(checkpoint.hash))'
  <2> SUFFICES ASSUME NEW S, S = Indexed, NEW C, C = Confirmed(checkpoint.hash)
               PROVE  OverlayOK' /\ Kept(S, C)'
    BY <1>1, <1>2 DEF Indexed
  <2> QED
    BY <1>1, SameOverlay DEF Inductive
<1> QED
  BY <1>3, <1>4, <1>5, <1>6, AssembleNext

\* The rollback ends: the checkpoint is lowered and the overlay cleared.
LEMMA RollbackDoneKeeps ==
  ASSUME Inductive, RollbackDone
  PROVE  Inductive'
<1>1. /\ ctl.at = "rollback" /\ Ledger!LowerCheckpoint(ctl.blk)
      /\ Clear /\ ctl' = At(ctl.then)
      /\ UNCHANGED <<feed, steady, core, pool, moves, crashes, faults>>
  BY DEF RollbackDone, Elsewhere, coreVars
<1>2. ctl.then \in {"idle", "ready"} /\ ctl.blk \in Block
  BY <1>1, TypeParts DEF Inductive, RestTypeOK, Control, CallInHand
<1>3. ctl' \in Control /\ ctl'.at \in {"idle", "ready"}
  BY <1>1, <1>2, AtType DEF Steps
<1>4. RestTypeOK'
  BY <1>1, <1>3, TypeParts DEF Inductive, RestTypeOK
<1>5. CallInHand' /\ BackfillSound'
  BY <1>3 DEF CallInHand, BackfillSound
<1>6. IndexOK'
  BY <1>1, <1>2, IndexLower DEF Inductive, IndexOK
<1>7. Admissible(pool, core)'
  BY <1>1 DEF Inductive, Admissible
<1>8. OverlayOK' /\ Kept(Indexed, Confirmed(checkpoint.hash))'
  <2> SUFFICES ASSUME NEW S, S = Indexed', NEW C, C = Confirmed(checkpoint.hash)'
               PROVE  OverlayOK' /\ Kept(S, C)'
    OBVIOUS
  <2> QED
    BY <1>1, EmptyOverlayOK DEF Clear, ClearPersistedData
<1> QED
  BY <1>4, <1>5, <1>6, <1>7, <1>8, AssembleNext

\* A rawtx message is added.
LEMMA TakeTxKeeps ==
  ASSUME Inductive, TakeTx
  PROVE  Inductive'
<1>1. /\ ctl.at = "idle" /\ feed # <<>>
      /\ AddTransaction(Head(feed)) /\ feed' = Tail(feed)
      /\ UNCHANGED <<storeVars, ctl, steady, core, pool, moves, crashes, faults>>
  BY DEF TakeTx, Elsewhere, coreVars
<1>2. RestTypeOK
  BY TypeParts DEF Inductive
<1>3. Head(feed) \in Tx /\ feed' \in Seq(Tx) /\ Len(feed') <= MaxFeed
  BY <1>1, <1>2, MempoolAssumption DEF RestTypeOK
<1>4. RestTypeOK'
  BY <1>1, <1>2, <1>3 DEF RestTypeOK
<1>5. checkpoint' = checkpoint
  BY <1>1 DEF storeVars
<1>6. CallInHand' /\ BackfillSound'
  BY <1>1 DEF CallInHand, BackfillSound
<1>7. IndexOK'
  BY <1>1, <1>5, IndexSame DEF Inductive, IndexOK
<1>8. Admissible(pool, core)'
  BY <1>1 DEF Inductive, Admissible
<1>9. OverlayOK' /\ Kept(Indexed, Confirmed(checkpoint.hash))'
  <2> SUFFICES ASSUME NEW S, S = Indexed, NEW C, C = Confirmed(checkpoint.hash),
                      NEW t, t = Head(feed)
               PROVE  OverlayOK' /\ Kept(S, C)'
    BY <1>1, <1>5 DEF Indexed
  <2> QED
    BY <1>1, <1>3, AddKeeps DEF Inductive
<1> QED
  BY <1>4, <1>6, <1>7, <1>8, <1>9, AssembleNext

\* reconcileMempool begins: what Core's mempool has not is dropped, and what it
\* has is listed.
LEMMA ReconcileActionKeeps ==
  ASSUME Inductive, Reconcile
  PROVE  Inductive'
<1>1. /\ ctl.at \in {"idle", "ready"} /\ ReconcileWith(pool)
      /\ ctl' = [At("backfill") EXCEPT !.todo = pool]
      /\ steady' = TRUE
      /\ UNCHANGED <<storeVars, feed, core, pool, moves, crashes, faults>>
  BY DEF Reconcile, Elsewhere, coreVars
<1>2. RestTypeOK
  BY TypeParts DEF Inductive
<1>3. ctl' \in Control /\ ctl'.at = "backfill" /\ ctl'.todo = pool
  BY <1>1, <1>2 DEF RestTypeOK, At, Control, Steps
<1>4. steady' \in BOOLEAN
  BY <1>1
<1>5. RestTypeOK'
  BY <1>1, <1>2, <1>3, <1>4 DEF RestTypeOK
<1>6. checkpoint' = checkpoint
  BY <1>1 DEF storeVars
<1>7. CallInHand'
  BY <1>3 DEF CallInHand
<1>8. IndexOK'
  BY <1>1, <1>3, <1>6, IndexSame DEF Inductive, IndexOK
<1>9. Admissible(pool, core)'
  BY <1>1 DEF Inductive, Admissible
<1>10. /\ OverlayOK' /\ Kept(Indexed, Confirmed(checkpoint.hash))'
       /\ DOMAIN transactions' \subseteq pool
       /\ DOMAIN outputs' \subseteq OutputsOf(pool)
  <2> SUFFICES ASSUME NEW S, S = Indexed, NEW C, C = Confirmed(checkpoint.hash),
                      NEW valid, valid = pool
               PROVE  /\ OverlayOK' /\ Kept(S, C)'
                      /\ DOMAIN transactions' \subseteq valid
                      /\ DOMAIN outputs' \subseteq OutputsOf(valid)
    BY <1>1, <1>3, <1>6 DEF Indexed
  <2>1. OverlayOK /\ Kept(S, C) /\ ReconcileWith(valid)
    BY <1>1 DEF Inductive
  <2> QED
    BY ONLY <2>1, ReconcileKeeps
<1>11. BackfillSound'
  BY <1>1, <1>3, <1>10 DEF BackfillSound, OutputsOf
<1> QED
  BY <1>5, <1>7, <1>8, <1>9, <1>10, <1>11, AssembleNext

\* One turn of the backfill loop.  While nothing has disturbed the call, every
\* listed transaction is in Core's mempool, and none of it conflicts with what
\* the overlay has: AddTransaction succeeds or has succeeded before.
LEMMA BackfillKeeps ==
  ASSUME Inductive, NEW t \in Tx, Backfill(t)
  PROVE  Inductive'
<1>1. /\ ctl.at = "backfill" /\ t \in ctl.todo
      /\ \/ t \in pool \cup Confirmed(core) /\ AddTransaction(t)
         \/ t \notin pool /\ UNCHANGED overlayVars
      /\ ctl' = [ctl EXCEPT !.todo = ctl.todo \ {t}]
      /\ UNCHANGED <<storeVars, feed, steady, core, pool, moves, crashes, faults>>
  BY DEF Backfill, Elsewhere, coreVars
<1>2. RestTypeOK
  BY TypeParts DEF Inductive
<1>3. ctl' \in Control /\ ctl'.at = "backfill" /\ ctl'.todo = ctl.todo \ {t}
  BY <1>1, <1>2 DEF RestTypeOK, Control
<1>4. RestTypeOK'
  BY <1>1, <1>2, <1>3 DEF RestTypeOK
<1>5. checkpoint' = checkpoint
  BY <1>1 DEF storeVars
<1>6. CallInHand'
  BY <1>3 DEF CallInHand
<1>7. IndexOK'
  BY <1>1, <1>3, <1>5, IndexSame DEF Inductive, IndexOK
<1>8. Admissible(pool, core)'
  BY <1>1 DEF Inductive, Admissible
<1>9. OverlayOK' /\ Kept(Indexed, Confirmed(checkpoint.hash))'
  <2> SUFFICES ASSUME NEW S, S = Indexed, NEW C, C = Confirmed(checkpoint.hash)
               PROVE  OverlayOK' /\ Kept(S, C)'
    BY <1>1, <1>3, <1>5 DEF Indexed
  <2>1. CASE AddTransaction(t)
    BY <2>1, AddKeeps DEF Inductive
  <2>2. CASE UNCHANGED overlayVars
    BY <2>2, SameOverlay DEF Inductive
  <2> QED
    BY <1>1, <2>1, <2>2
<1>10. BackfillSound'
  <2> SUFFICES ASSUME steady
               PROVE  /\ DOMAIN transactions' \subseteq pool
                      /\ ctl.todo \ {t} \subseteq pool
                      /\ pool \subseteq DOMAIN transactions' \cup (ctl.todo \ {t})
                      /\ DOMAIN outputs' \subseteq OutputsOf(pool)
    BY <1>1, <1>3 DEF BackfillSound, OutputsOf
  <2>1. /\ DOMAIN transactions \subseteq pool
        /\ ctl.todo \subseteq pool
        /\ pool \subseteq DOMAIN transactions \cup ctl.todo
        /\ DOMAIN outputs \subseteq OutputsOf(pool)
    BY <1>1 DEF Inductive, BackfillSound
  <2>2. t \in pool /\ AddTransaction(t)
    BY <1>1, <2>1
  <2>3. CASE t \in DOMAIN transactions
    BY <2>1, <2>2, <2>3 DEF AddTransaction, overlayVars
  <2>4. CASE t \notin DOMAIN transactions
    <3>1. ~DoubleSpends(t)
      <4> SUFFICES ASSUME NEW o \in TxIn[t], o \in DOMAIN spentBy PROVE FALSE
        BY DEF DoubleSpends
      <4>1. spentBy[o] \in DOMAIN transactions /\ o \in TxIn[spentBy[o]]
        BY DEF Inductive, OverlayOK, IndexesAgree
      <4>2. spentBy[o] \in pool \ {t}
        BY <2>1, <2>4, <4>1
      <4> QED
        BY <2>2, <4>1, <4>2 DEF Inductive, Admissible
    <3>2. /\ transactions' = Put(transactions, t, Resolved(t))
          /\ DOMAIN outputs' = DOMAIN outputs \cup Indexable(t)
      BY <2>2, <2>4, <3>1, AddedFacts
    <3>3. DOMAIN transactions' = DOMAIN transactions \cup {t}
      BY <3>2 DEF Put
    <3>4. Indexable(t) \subseteq OutputsOf(pool)
      BY <2>2 DEF OutputsOf
    <3> QED
      BY <2>1, <2>2, <3>2, <3>3, <3>4
  <2> QED
    BY <2>3, <2>4
<1> QED
  BY <1>4, <1>6, <1>7, <1>8, <1>9, <1>10, AssembleNext

\* An RPC fails.  The call is no longer one that nothing disturbed.
LEMMA RpcFailsKeeps ==
  ASSUME Inductive, RpcFails
  PROVE  Inductive'
<1>1. /\ faults < MaxFaults /\ faults' = faults + 1 /\ steady' = FALSE
      /\ UNCHANGED <<storeVars, overlayVars, core, pool, moves, feed, crashes>>
  BY DEF RpcFails, coreVars
<1>2. RestTypeOK
  BY TypeParts DEF Inductive
<1>3. steady' \in BOOLEAN /\ faults' \in 0 .. MaxFaults
  <2>1. steady' \in BOOLEAN
    BY <1>1
  <2>2. faults' \in 0 .. MaxFaults
    BY <1>1, <1>2, MempoolAssumption DEF RestTypeOK
  <2> QED
    BY <2>1, <2>2
<1>4. CASE ctl.at = "ready" /\ ctl' = At("idle")
  <2>1. ctl' \in Control /\ ctl'.at = "idle"
    BY <1>4, AtType DEF Steps
  <2>2. RestTypeOK'
    BY <1>1, <1>2, <1>3, <2>1 DEF RestTypeOK
  <2> QED
    BY <1>1, <1>4, <2>1, <2>2, GotoKeeps
<1>5. CASE \E t \in ctl.todo : /\ t \notin DOMAIN transactions
                               /\ ctl' = [ctl EXCEPT !.todo = @ \ {t}]
  <2>1. PICK t \in ctl.todo : ctl' = [ctl EXCEPT !.todo = ctl.todo \ {t}]
    BY <1>5
  <2>2. ctl' \in Control /\ ctl'.at = ctl.at /\ ctl'.blk = ctl.blk
    BY <1>2, <2>1 DEF RestTypeOK, Control
  <2>3. RestTypeOK'
    BY <1>1, <1>2, <1>3, <2>2 DEF RestTypeOK
  <2>4. checkpoint' = checkpoint
    BY <1>1 DEF storeVars
  <2>5. CallInHand' /\ BackfillSound'
    BY <1>1, <2>2, <2>4 DEF Inductive, CallInHand, BackfillSound
  <2>6. IndexOK'
    BY <1>1, <2>2, <2>4, IndexSame DEF Inductive, IndexOK
  <2>7. Admissible(pool, core)'
    BY <1>1 DEF Inductive, Admissible
  <2>8. OverlayOK' /\ Kept(Indexed, Confirmed(checkpoint.hash))'
    <3> SUFFICES ASSUME NEW S, S = Indexed, NEW C, C = Confirmed(checkpoint.hash)
                 PROVE  OverlayOK' /\ Kept(S, C)'
      BY <2>2, <2>4 DEF Indexed
    <3> QED
      BY <1>1, SameOverlay DEF Inductive
  <2> QED
    BY <2>3, <2>5, <2>6, <2>7, <2>8, AssembleNext
<1> QED
  BY <1>4, <1>5 DEF RpcFails

\* The process dies, or comes back with what the disk has.
LEMMA RestartKeeps ==
  ASSUME Inductive, Crash \/ StartServer
  PROVE  Inductive'
<1>1. /\ ctl.at # "rollback"
      /\ UNCHANGED <<storeVars, core, pool, moves, steady, faults>>
  BY DEF Crash, StartServer, Elsewhere, coreVars
<1>2. RestTypeOK
  BY TypeParts DEF Inductive
<1>3. ctl' \in Control /\ ctl'.at \in {"down", "boot"}
  BY AtType DEF Crash, StartServer, Steps
<1>4. /\ feed' \in Seq(Tx) /\ Len(feed') <= MaxFeed
      /\ crashes' \in 0 .. MaxCrashes
  <2>1. CASE Crash
    <3>1. feed' = <<>> /\ crashes' = crashes + 1 /\ crashes < MaxCrashes
      BY <2>1 DEF Crash
    <3>2. <<>> \in Seq(Tx) /\ Len(<<>>) = 0
      OBVIOUS
    <3> QED
      BY <1>2, <3>1, <3>2, MempoolAssumption DEF RestTypeOK
  <2>2. CASE StartServer
    BY <1>2, <2>2 DEF StartServer, Elsewhere, RestTypeOK
  <2> QED
    BY <2>1, <2>2
<1>5. RestTypeOK'
  BY <1>1, <1>2, <1>3, <1>4 DEF RestTypeOK
<1>6. CallInHand' /\ BackfillSound'
  BY <1>3 DEF CallInHand, BackfillSound
<1>7. IndexOK'
  <2>1. checkpoint' = checkpoint
    BY <1>1 DEF storeVars
  <2> QED
    BY <1>1, <2>1, IndexSame DEF Inductive, IndexOK
<1>8. Admissible(pool, core)'
  BY <1>1 DEF Inductive, Admissible
<1>9. OverlayOK' /\ Kept(Indexed, Confirmed(checkpoint.hash))'
  <2> SUFFICES ASSUME NEW S, S = Indexed', NEW C, C = Confirmed(checkpoint.hash)'
               PROVE  OverlayOK' /\ Kept(S, C)'
    OBVIOUS
  <2>1. CASE Crash
    BY <2>1, EmptyOverlayOK DEF Crash, Inductive, OverlayOK, OverlayTypeOK
  <2>2. CASE StartServer
    BY <2>2, LoadKeeps DEF StartServer, Inductive
  <2> QED
    BY <2>1, <2>2
<1> QED
  BY <1>5, <1>6, <1>7, <1>8, <1>9, AssembleNext

\* Core's mempool or best block changes: the server's own state does not, and
\* a reconcile under way is no longer undisturbed.
LEMMA CoreKeeps ==
  ASSUME Inductive, CoreMoves, core' \in Block, pool' \subseteq Tx,
         Admissible(pool', core'), feed' \in Seq(Tx), Len(feed') <= MaxFeed
  PROVE  Inductive'
<1>1. /\ moves < MaxMoves /\ moves' = moves + 1 /\ steady' = FALSE
      /\ UNCHANGED <<storeVars, overlayVars, ctl, crashes, faults>>
  BY DEF CoreMoves
<1>2. RestTypeOK
  BY TypeParts DEF Inductive
<1>3. steady' \in BOOLEAN
  BY <1>1
<1>4. moves' \in 0 .. MaxMoves
  BY <1>1, <1>2, MempoolAssumption DEF RestTypeOK
<1>5. RestTypeOK'
  BY <1>1, <1>2, <1>3, <1>4 DEF RestTypeOK
<1>6. checkpoint' = checkpoint
  BY <1>1 DEF storeVars
<1>7. CallInHand' /\ BackfillSound'
  BY <1>1, <1>6 DEF Inductive, CallInHand, BackfillSound
<1>8. IndexOK'
  BY <1>1, <1>6, IndexSame DEF Inductive, IndexOK
<1>9. OverlayOK' /\ Kept(Indexed, Confirmed(checkpoint.hash))'
  <2> SUFFICES ASSUME NEW S, S = Indexed, NEW C, C = Confirmed(checkpoint.hash)
               PROVE  OverlayOK' /\ Kept(S, C)'
    BY <1>1, <1>6 DEF Indexed
  <2> QED
    BY <1>1, SameOverlay DEF Inductive
<1> QED
  BY <1>5, <1>7, <1>8, <1>9, AssembleNext

\* What is published for a transaction or a block is published whole or not at
\* all, and never beyond the room there is.
LEMMA PublishType ==
  ASSUME RestTypeOK, NEW txs \in Seq(Tx), Publish(txs)
  PROVE  feed' \in Seq(Tx) /\ Len(feed') <= MaxFeed
<1>1. feed' = feed \/ (feed' = feed \o txs /\ Len(feed') <= MaxFeed)
  BY DEF Publish
<1>2. feed \in Seq(Tx) /\ feed \o txs \in Seq(Tx) /\ Len(feed) <= MaxFeed
  BY DEF RestTypeOK
<1> QED
  BY <1>1, <1>2

\* CoreAcceptsKeeps: a transaction enters Core's mempool.
LEMMA CoreAcceptsKeeps ==
  ASSUME Inductive, NEW t \in Tx, CoreAccepts(t)
  PROVE  Inductive'
<1>1. RestTypeOK
  BY TypeParts DEF Inductive
<1>2. feed' \in Seq(Tx) /\ Len(feed') <= MaxFeed
  <2>1. <<t>> \in Seq(Tx) /\ Publish(<<t>>)
    BY DEF CoreAccepts
  <2> QED
    BY <1>1, <2>1, PublishType
<1>3. core' \in Block /\ pool' \subseteq Tx /\ Admissible(pool', core') /\ CoreMoves
  BY <1>1 DEF CoreAccepts, RestTypeOK
<1> QED
  BY <1>2, <1>3, CoreKeeps

\* CoreAdoptsKeeps: Core's best block changes.
LEMMA CoreAdoptsKeeps ==
  ASSUME Inductive, NEW b \in Block, CoreAdopts(b)
  PROVE  Inductive'
<1>1. RestTypeOK
  BY TypeParts DEF Inductive
<1>2. feed' \in Seq(Tx) /\ Len(feed') <= MaxFeed
  <2>1. BlockTxs[b] \in Seq(Tx) /\ Publish(BlockTxs[b])
    BY TxAssumption DEF CoreAdopts
  <2> QED
    BY <1>1, <2>1, PublishType
<1>3. core' \in Block /\ pool' \subseteq Tx /\ Admissible(pool', core') /\ CoreMoves
  BY <1>1, ConfirmedType DEF CoreAdopts, RestTypeOK
<1> QED
  BY <1>2, <1>3, CoreKeeps

\* A step of another part of the system.
LEMMA StutterKeeps ==
  ASSUME Inductive, UNCHANGED vars
  PROVE  Inductive'
<1>1. UNCHANGED <<storeVars, overlayVars, core, pool, feed, ctl, steady, moves, crashes, faults>>
  BY DEF vars, coreVars
<1>2. checkpoint' = checkpoint
  BY <1>1 DEF storeVars
<1>3. RestTypeOK'
  BY <1>1, TypeParts DEF Inductive, RestTypeOK
<1>4. CallInHand'
  BY <1>1, <1>2 DEF Inductive, CallInHand
<1>5. BackfillSound'
  BY <1>1 DEF Inductive, BackfillSound, OutputsOf, overlayVars
<1>6. IndexOK'
  BY <1>1, <1>2, IndexSame DEF Inductive, IndexOK
<1>7. Admissible(pool, core)'
  BY <1>1 DEF Inductive, Admissible
<1>8. OverlayOK' /\ Kept(Indexed, Confirmed(checkpoint.hash))'
  <2> SUFFICES ASSUME NEW S, S = Indexed, NEW C, C = Confirmed(checkpoint.hash)
               PROVE  OverlayOK' /\ Kept(S, C)'
    BY <1>1, <1>2 DEF Indexed
  <2> QED
    BY <1>1, SameOverlay DEF Inductive
<1> QED
  BY <1>3, <1>4, <1>5, <1>6, <1>7, <1>8, AssembleNext

-----------------------------------------------------------------------------
\* Inductive is an invariant: whatever order messages, blocks, rollbacks,
\* crashes and failing calls come in, an entry missing from the overlay is one
\* that IndexBlock took out for a block of the branch the checkpoint names.
THEOREM InductiveHolds == Spec => []Inductive
<1>1. Inductive /\ [Next]_vars => Inductive'
  <2> SUFFICES ASSUME Inductive, [Next]_vars PROVE Inductive'
    OBVIOUS
  <2>1. CASE Call
    BY <2>1, InitializeCleanKeeps, IndexCommitKeeps, RollbackStepKeeps,
       RollbackDoneKeeps, BackfillKeeps, ReconcileDoneKeeps DEF Call
  <2>2. CASE StartServer \/ Crash
    BY <2>2, RestartKeeps
  <2>3. CASE \E b \in Block : IndexStart(b)
    BY <2>3, IndexStartKeeps
  <2>4. CASE \E h \in DOMAIN header : RollbackStart(h)
    BY <2>4, RollbackStartKeeps
  <2>5. CASE TakeTx
    BY <2>5, TakeTxKeeps
  <2>6. CASE Reconcile
    BY <2>6, ReconcileActionKeeps
  <2>7. CASE RpcFails
    BY <2>7, RpcFailsKeeps
  <2>8. CASE \E t \in Tx : CoreAccepts(t)
    BY <2>8, CoreAcceptsKeeps
  <2>9. CASE \E b \in Block : CoreAdopts(b)
    BY <2>9, CoreAdoptsKeeps
  <2>10. CASE UNCHANGED vars
    BY <2>10, StutterKeeps
  <2> QED
    BY <2>1, <2>2, <2>3, <2>4, <2>5, <2>6, <2>7, <2>8, <2>9, <2>10 DEF Next
<1> QED
  BY <1>1, InitHolds, PTL DEF Spec

\* TypeOK: the index, the overlay, Core and the main goroutine's control state
\* keep their types.
THEOREM TypeCorrect == Spec => []TypeOK
<1>1. Inductive => TypeOK
  BY DEF Inductive
<1> QED
  BY <1>1, InductiveHolds, PTL

\* IndexesAgree: an outpoint AddTransaction marked as spent names a transaction
\* that is still there, a transaction is found under each scripthash it was
\* entered for, and the disk has every output a restart must find again.
THEOREM IndexesAgreeHolds == Spec => []IndexesAgree
<1>1. Inductive => IndexesAgree
  BY DEF Inductive, OverlayOK
<1> QED
  BY <1>1, InductiveHolds, PTL

\* At the end of an undisturbed reconcile, with Core's best block indexed,
\* nothing is missing: a spend that is missing would be one of Core's chain,
\* and a transaction with a missing output would be in it, while Core's
\* mempool has neither.
LEMMA DoneHoldsPool ==
  ASSUME Inductive, ReconcileDone, steady, checkpoint.hash = core
  PROVE  HoldsPool
<1>1. ctl.at = "backfill" /\ ctl.todo = {}
  BY DEF ReconcileDone
<1>2. /\ DOMAIN transactions = pool
      /\ DOMAIN outputs \subseteq OutputsOf(pool)
  BY <1>1 DEF Inductive, BackfillSound
<1>3. Indexed = Confirmed(core)
  BY <1>1 DEF Indexed
<1>4. pool \subseteq Tx
  BY DEF Inductive, TypeOK
<1>5. ASSUME NEW t \in pool, NEW o \in TxIn[t]
      PROVE  o \in DOMAIN spentBy /\ spentBy[o] = t
  BY <1>2, <1>3 DEF Inductive, Kept, Admissible
<1>6. spentBy = [o \in InputsOf(pool) |-> CHOOSE t \in pool : o \in TxIn[t]]
  <2>1. DOMAIN spentBy = InputsOf(pool)
    BY <1>2, <1>5 DEF Inductive, OverlayOK, IndexesAgree, InputsOf
  <2>2. ASSUME NEW o \in InputsOf(pool)
        PROVE  spentBy[o] = CHOOSE t \in pool : o \in TxIn[t]
    <3>1. PICK t \in pool : o \in TxIn[t]
      BY DEF InputsOf
    <3>2. (CHOOSE u \in pool : o \in TxIn[u]) \in {u \in pool : o \in TxIn[u]}
      BY <3>1
    <3> QED
      BY <1>5, <3>2
  <2>3. spentBy = [o \in DOMAIN spentBy |-> spentBy[o]]
    BY DEF Inductive, OverlayOK, OverlayTypeOK
  <2> QED
    BY <2>1, <2>2, <2>3
<1>7. DOMAIN outputs = OutputsOf(pool)
  <2> SUFFICES ASSUME NEW t \in pool, NEW o \in Indexable(t) PROVE o \in DOMAIN outputs
    BY <1>2 DEF OutputsOf
  <2>1. t \notin Confirmed(core)
    BY DEF Inductive, Admissible
  <2> QED
    BY <1>2, <2>1 DEF Inductive, Kept
<1>8. ASSUME NEW t \in pool, NEW o \in Indexable(t)
      PROVE  t \in ScripthashHistory(Script[o])
  <2>1. Script[o] \in ScripthashesOf(t, transactions[t])
    BY DEF ScripthashesOf
  <2>2. <<Script[o], t>> \in byScripthash
    BY <1>2, <2>1 DEF Inductive, OverlayOK, IndexesAgree
  <2> QED
    BY <1>4, <2>2 DEF ScripthashHistory
<1> QED
  BY <1>2, <1>6, <1>7, <1>8 DEF HoldsPool

\* ReconcileExact: when reconcileMempool returns, no call of it having failed
\* and Core not having changed meanwhile, with Core's best block indexed, the
\* overlay holds Core's mempool, whatever stale, conflicting or half-restored
\* state it found.
THEOREM ReconcileExactHolds == Spec => ReconcileExact
<1>1. Inductive /\ [Next]_vars
        => [ReconcileDone /\ steady /\ checkpoint.hash = core => HoldsPool]_vars
  BY DoneHoldsPool
<1> QED
  BY <1>1, InductiveHolds, PTL DEF Spec, ReconcileExact

\* The index below the overlay stays a function of the chain it has stored:
\* what the overlay reads of it is what IndexLedger promises.
THEOREM IndexBelowExact ==
  Spec => [](Ledger!HeadersLinked /\ Ledger!UtxoExact)
<1>1. Inductive => Ledger!HeadersLinked /\ Ledger!UtxoExact
  <2> SUFFICES ASSUME Inductive
               PROVE  Ledger!HeadersLinked /\ Ledger!UtxoExact
    OBVIOUS
  <2>1. Ledger!HeadersLinked
    BY DEF Inductive, IndexOK, Index!Inductive, Index!HeadersLinked, Ledger!HeadersLinked,
           Index!Stored, Ledger!Stored, Index!FreshCheckpoint, Ledger!FreshCheckpoint
  <2>2. Ledger!UtxoExact
    BY DEF Inductive, IndexOK, Index!Inductive, Index!UtxoExact, Ledger!UtxoExact,
           Index!Stored, Ledger!Stored, Index!Unspent, Ledger!Unspent,
           Index!Created, Ledger!Created, Index!Inputs, Ledger!Inputs,
           Index!Indexable, Ledger!Indexable, Index!Outpoint, Ledger!Outpoint
  <2> QED
    BY <2>1, <2>2
<1> QED
  BY <1>1, InductiveHolds, PTL

=============================================================================
