SPECIFICATION Spec
CONSTANTS
  Block <- AllBlocks
  Prev <- PrevOf
  Height <- HeightOf
  Anc <- AncOf
  Tx <- AllTxs
  BlockTxs <- TxsOf
  TxIn <- InOf
  TxOut <- OutOf
  Skipped <- SkippedOutputs
  Script <- ScriptOf
  NoHash = NoHash
  ZeroHash = "zero"
INVARIANTS
  TypeOK
  HeadersLinked
  UtxoExact
  HistoryExact
  UndoExact
  PositionsExact
  LookupExact
  HistoryReadsExact
