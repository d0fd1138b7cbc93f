CONSTANTS
  s1 = s1
  u1 = u1
  p1 = p1
  here = here
  NoStatus = NoStatus
  Null = Null
  Absent = Absent
  Truncated = Truncated
  Garbled = Garbled
  MaxHistoricData = 1
  Services = {s1}
  DeviceUUID = u1
  DeviceIds = {u1}
  PushIds = {p1}
  Addresses = {here}
  ServerAddress = here
  MaxSockets = 2
  Sockets = {1, 2}
  MaxRuns = 3
  MaxEvents = 2
  MaxSpread = 2
  MaxWrites = 1
  MaxCrashes = 1
  Reports <- OneReport
SPECIFICATION DogzSpec
INVARIANTS DogzTypeOK RegisteredExactlyWhenEarly
PROPERTIES PhoneNeverGoesBack EarlyIdsAreStored
CHECK_DEADLOCK FALSE
