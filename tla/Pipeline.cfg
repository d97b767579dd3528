SPECIFICATION FairSpec
CONSTANTS
  Width = 3
  FirstSeq = 1
  ChanSize = 1
  GapSize = 1
  JobSize = 1
  MaxSent = 3
  MaxFaults = 1
INVARIANTS
  TypeOK
  NoSendOnClosed
  CallAnswered
  OneIndexer
PROPERTIES
  FeedSpec
  LossRecovered
  ShutdownEnds
CHECK_DEADLOCK FALSE
