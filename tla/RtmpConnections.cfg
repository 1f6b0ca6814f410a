CONSTANTS
  Conns = {l1, l2, l3}
  Names = {n1, n2}
  Channels = {c1, c2}
  Payloads = {p1, p2}
  MsgBufs <- MCMsgBufs
  BodyBufs <- MCBodyBufs
  MaxMsgs = 5
  MaxBodies = 2
  MaxQueue = 1
  SingleRole = TRUE
  NoConn = NoConn
  NoName = NoName
  NoChan = NoChan
  Garbage = Garbage
SPECIFICATION Spec
SYMMETRY Symmetry
INVARIANT TypeOK
INVARIANT ChannelsMatchConnections
INVARIANT MapExact
 
INVARIANT StopReachesAll
INVARIANT CountsExact
INVARIANT BodyExclusive
INVARIANT NoLostWakeup
 
PROPERTY ImplementsPubSub
