SPECIFICATION Spec
CHECK_DEADLOCK FALSE
CONSTANTS
  Sources <- MCSources
  Outer = 2
  Width = 2
  MaxPasses = 4
  MaxLine = 5
  MaxLines = 4
INVARIANTS ValueKept Idempotent
