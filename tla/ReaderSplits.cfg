CONSTANTS
  ReadSize = 5
  HandshakeSize = 2
  TimeBytes = 1
  LengthBytes = 1
  StreamBytes = 1
  ExtBytes = 1
  ExtTime = 5
  MessageMax = 6
  InitChunkSize = 2
  SizeLength = 2
  ChunkIds = {2, 330}
  Lengths = {0, 3}
  Times = {1}
  Deltas = {2}
  ChunkSizes = {3}
  Unusual = {}
  MaxSent = 3
  MaxAhead = 1
SPECIFICATION Spec
INVARIANT TypeOK
INVARIANT InOrderIntact
INVARIANT TimestampDrift
INVARIANT Prompt
INVARIANT BuffersBalanced
INVARIANT EchoIntact
PROPERTY EveryCallProgresses
