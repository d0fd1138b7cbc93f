CONSTANTS
  MaxChecks = 5
  MaxPipe = 2
  NullText = NullText
SPECIFICATION Spec
INVARIANTS ClaimedMeansBound
CHECK_DEADLOCK FALSE
