CONSTANTS
  s1 = s1
  s2 = s2
  NoStatus = NoStatus
  Services = {s1, s2}
  Reports <- MCReports
  MaxHistoricData = 2
  MaxEvents = 4
SPECIFICATION Spec
INVARIANTS TypeOK HistoryIsWindow
CHECK_DEADLOCK FALSE
