CONSTANTS
  Conns = {c1}
  InitChunkSize = 128
  NewChunkSize = 2048
  FrameTime = 41
  ExtTime = 16777215
  Pools = {16, 32, 64, 128, 256, 512, 1024, 2048, 4096, 8192, 16384, 32768, 65536, 131072, 262144, 524288, 1048576, 2097152}
  Lengths = {2096117, 2096118, 2097152}
  Times = {0}
  MaxCalls = 2
SPECIFICATION Spec
INVARIANT AcceptedFits
