CONSTANTS
  s1 = s1
  c1 = c1
  u1 = u1
  p1 = p1
  NoStatus = NoStatus
  Null = Null
  Absent = Absent
  Truncated = Truncated
  Garbled = Garbled
  MaxHistoricData = 2
  Services = {s1}
  Sockets = {c1}
  DeviceIds = {u1}
  PushIds = {p1}
  MaxEvents = 4
  MaxSpread = 4
  MaxWrites = 1
  MaxCrashes = 1
  Reports <- AllReports
SPECIFICATION Spec
INVARIANTS TypeOK AlertsExact StreamOrdered BehindOnlyByPendingGap
CHECK_DEADLOCK FALSE
