CONSTANTS
  Conns = {l1, l2}
  Names = {n1}
  Channels = {c1}
  Payloads = {p1}
  MsgBufs <- MCMsgBufs
  BodyBufs <- MCBodyBufs
  MaxMsgs = 3
  MaxBodies = 2
  MaxQueue = 1
  SingleRole = TRUE
  NoConn = NoConn
  NoName = NoName
  NoChan = NoChan
  Garbage = Garbage
SPECIFICATION Spec
INVARIANT SendsReleased
