SPECIFICATION Spec
CONSTANTS
  Block <- AllBlocks
  Prev <- PrevOf
  Height <- HeightOf
  Anc <- AncOf
  Tx <- AllTxs
  BlockTxs <- TxsOf
  TxIn <- InOf
  TxOut <- OutOf
  Skipped <- SkippedOutputs
  Script <- ScriptOf
  NoHash = NoHash
  ZeroHash = "zero"
  Genesis = "g"
  HashRank <- Rank
  ConfigStart = 1
  MaxReorgDepth = 3
  PruneHeights = {}
  MempoolTx = {}
  CoreStart = {"a2"}
  Orderly = FALSE
  Lossy = TRUE
  CrashAt <- Steps
  MaxCrashes = 1
  MaxFaults = 1
  MaxQueue = 1
  Work <- Weight
INVARIANTS
  TypeOK
  MemoryAgrees
  HeightsTrue
