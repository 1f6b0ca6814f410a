CONSTANTS
  ReadSize = 3
  HandshakeSize = 1
  TimeBytes = 1
  LengthBytes = 1
  StreamBytes = 1
  ExtBytes = 1
  ExtTime = 5
  MessageMax = 4
  InitChunkSize = 2
  SizeLength = 2
  ChunkIds = {3, 4, 260}
  Lengths = {0, 4, 5}
  Times = {1, 5}
  Deltas = {}
  ChunkSizes = {3}
  Unusual = {"ext", "abort", "resize", "refused"}
  MaxSent = 2
  MaxAhead = 1
SPECIFICATION FairSpec
INVARIANT MisreadExplained
PROPERTY SilentAfterClose
PROPERTY EventuallyDispatched
