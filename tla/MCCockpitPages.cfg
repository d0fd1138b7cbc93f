CONSTANTS
  Services <- ThreeServices
  HostOf <- MCHostOf
  Checks <- Problems
  NoEvent = NoEvent
  MaxHistoricData = 3
  GraphWidth = 10
  MaxEntries = 2
  Tabs <- AllTabs
  MaxResults = 2
  MaxEvents = 3
  MaxTrail = 4
  MaxSeconds = 0
SPECIFICATION Spec
INVARIANTS HostPageCleared DetailsShowTheirEvent OpenChartCurrent EvolutionInView
CHECK_DEADLOCK FALSE
