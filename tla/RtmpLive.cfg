CONSTANTS
  Conns = {l1, l2}
  Names = {n1}
  Channels = {c1}
  Payloads = {p1, p2}
  MsgBufs <- MCMsgBufs
  BodyBufs <- MCBodyBufs
  MaxMsgs = 4
  MaxBodies = 3
  MaxQueue = 2
  SingleRole = TRUE
  NoConn = NoConn
  NoName = NoName
  NoChan = NoChan
  Garbage = Garbage
SPECIFICATION FairSpec
PROPERTY StopDrains
PROPERTY QueuesDrain
PROPERTY ImplementsPubSub
