SPECIFICATION Spec
CHECK_DEADLOCK FALSE
CONSTANTS
  Contents <- MCContents
  Formatted <- MCFormatted
  Clean <- MCClean
  Conflicting <- MCConflicting
  Empty = "empty"
  Missing = "missing"
  MaxConflicts = 2
INVARIANTS MergesFormatted EachVersionTried ZeroMeansResolved
PROPERTIES MergedOnlyFormatted
