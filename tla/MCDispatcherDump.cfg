CONSTANTS
  MaxChecks = 5
  MaxPipe = 2
  NullText = NullText
SPECIFICATION Spec
INVARIANTS UndumpedNotPublished
CHECK_DEADLOCK FALSE
