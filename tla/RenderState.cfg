SPECIFICATION MCSpec
CONSTANTS
  IndentWidth = 1
  Cells = {x}
  MaxOut = 2
  MaxMarkers = 1
  MaxSaved = 2
INVARIANTS IndentStackOK CheckpointsArePrefixes
