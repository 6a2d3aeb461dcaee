CONSTANTS
  Streams <- TwoStreams
  Sizes <- SmallSizes
  Limit = 2
  MaxChunks = 2
SPECIFICATION FairSpec
CHECK_DEADLOCK FALSE
INVARIANTS
  TypeOK
  OrderKept
  NothingElseIsLost
PROPERTY BufferIsReplayed
