CONSTANTS
  c1 = c1
  c2 = c2
  m1 = m1
  m2 = m2
  u1 = u1
  p1 = p1
  Null = Null
  Sockets = {c1, c2}
  DeviceIds = {u1}
  PushIds = {p1}
  Messages <- MCMessages
  Snapshots <- MCSnapshots
  MaxSpread = 3
SPECIFICATION Spec
INVARIANTS TypeOK SocketsAccounted FeedExact
PROPERTIES ImplementsFeed EveryMessageArrives
CHECK_DEADLOCK FALSE
