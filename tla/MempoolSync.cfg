SPECIFICATION FairSpec
CONSTANTS
  Block <- AllBlocks
  Prev <- PrevOf
  Height <- HeightOf
  Anc <- AncOf
  Tx <- AllTxs
  BlockTxs <- TxsOf
  TxIn <- InOf
  TxOut <- OutOf
  Skipped = {}
  Script <- ScriptOf
  NoHash = NoHash
  ZeroHash = "zero"
  StartAt = "g"
  FirstTip = "a1"
  Value <- ValueOf
  NoTx = NoTx
  MaxMoves = 4
  MaxFeed = 2
  MaxCrashes = 1
  MaxFaults = 1
INVARIANTS
  TypeOK
  IndexesAgree
PROPERTIES
  ReconcileExact
  BalanceAgrees
  PoolReached
