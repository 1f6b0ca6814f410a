CONSTANTS
  Conns = {c1, c2}
  InitChunkSize = 128
  NewChunkSize = 2048
  FrameTime = 41
  ExtTime = 100
  Pools = {16, 32, 64, 128, 256, 512, 1024, 2048, 4096, 8192}
  Lengths = {0, 1, 128, 2048, 4084, 4085}
  Times = {0, 100}
  MaxCalls = 3
SPECIFICATION Spec
INVARIANT WithinBuffer
INVARIANT InStep
INVARIANT SizesAgree
INVARIANT ClockSplit
