SPECIFICATION Spec
CONSTANTS
  Block <- AllBlocks
  Prev <- PrevOf
  Height <- HeightOf
  Anc <- AncOf
  Tx <- AllTxs
  BlockTxs <- TxsOf
  TxIn <- InOf
  TxOut <- OutOf
  Skipped <- SkippedOutputs
  Script <- ScriptOf
  NoHash = NoHash
  ZeroHash = "zero"
  Genesis = "g"
  HashRank <- Rank
  ConfigStart = 1
  MaxReorgDepth = 3
  PruneHeights = {}
  MempoolTx = {}
  CoreStart = {"a2"}
  Orderly = FALSE
  Lossy = FALSE
  CrashAt = {}
  MaxCrashes = 0
  MaxFaults = 0
  MaxQueue = 2
  Work <- HeightOf
INVARIANTS
  ReorgSafe
