SPECIFICATION Spec
CONSTANTS
  Element = {e1, e2, e3}
  MaxLength = 5
INVARIANTS PrefixCounted ReturnsRuns GroupedGivesTotals
CHECK_DEADLOCK FALSE
