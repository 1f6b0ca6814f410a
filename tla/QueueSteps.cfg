SPECIFICATION Spec
CONSTANTS
  Threads = {t1, t2, t3}
  Data = {d1, d2}
  None = none
  Nodes = {n1, n2, n3}
  First = first
  Null = null
  Nobody = nobody
  MaxItems = 3
INVARIANT ListSound
INVARIANT NoStaleNode
PROPERTY ImplementsFifo
