SPECIFICATION Spec
CHECK_DEADLOCK FALSE
CONSTANTS
  IndentWidth = 2
  MaxPasses = 4
  MaxItems = 4
  MaxLines = 3
  Sources <- MCSources
INVARIANTS WordsKept PrintedIsLegal RelativeIndentKept Idempotent
