SPECIFICATION FairSpec
CONSTANTS
  Block <- AllBlocks
  Prev <- PrevOf
  Height <- HeightOf
  Anc <- AncOf
  Tx <- AllTxs
  BlockTxs <- TxsOf
  TxIn <- InOf
  TxOut <- OutOf
  Skipped <- SkippedOutputs
  Script <- ScriptOf
  NoHash = NoHash
  ZeroHash = "zero"
  Genesis = "g"
  HashRank <- Rank
  ConfigStart = 1
  MaxReorgDepth = 3
  PruneHeights = {2, 4}
  MempoolTx = {"p"}
  CoreStart = {"a2"}
  Orderly = TRUE
  Lossy = FALSE
  CrashAt <- NotInRollback
  MaxCrashes = 1
  MaxFaults = 0
  MaxQueue = 2
  Work <- HeightOf
INVARIANTS
  IndexExact
  UndoAvailable
PROPERTIES
  LedgerSpec
  EventuallySettled
CHECK_DEADLOCK FALSE
