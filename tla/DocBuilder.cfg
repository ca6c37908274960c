SPECIFICATION Spec
CONSTANTS
  MaxCalls = 4
  UsedSpacings <- MCSpacings
  UsedGroups <- MCGroups
  UsedTrivia <- MCTrivia
  UsedStrings <- MCStrings
INVARIANTS NormalForm TextPreserved IndentationBaked StringLinesKept
CHECK_DEADLOCK FALSE
