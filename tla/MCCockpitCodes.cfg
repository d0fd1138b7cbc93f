CONSTANTS
  Services <- TwoServices
  HostOf <- MCHostOf
  Checks <- OkAndUnknownState
  NoEvent = NoEvent
  MaxHistoricData = 3
  GraphWidth = 10
  MaxEntries = 2
  Tabs <- OverviewTab
  MaxResults = 3
  MaxEvents = 3
  MaxTrail = 2
  MaxSeconds = 2
SPECIFICATION Spec
INVARIANTS HistoryCodesKnown
CHECK_DEADLOCK FALSE
