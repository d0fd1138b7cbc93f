CONSTANTS
  u1 = u1
  u2 = u2
  p1 = p1
  p2 = p2
  Null = Null
  Absent = Absent
  Truncated = Truncated
  Garbled = Garbled
  DeviceIds = {u1, u2}
  PushIds = {p1, p2}
  MaxWrites = 3
  MaxCrashes = 2
SPECIFICATION Spec
INVARIANTS TypeOK FileIsPastTable PersistedWhenIdle UnparsableOnlyMidWrite
PROPERTIES RestartForgetsAtMostOne
CHECK_DEADLOCK FALSE
