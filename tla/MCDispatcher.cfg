CONSTANTS
  MaxChecks = 5
  MaxPipe = 2
  NullText = NullText
SPECIFICATION Spec
INVARIANTS TypeOK HeardInOrder OnlyOverrunsMissed NoSocketLeftBehind
PROPERTIES DeinitWaitsOnlyForReader
CHECK_DEADLOCK FALSE
