SPECIFICATION Spec
CHECK_DEADLOCK FALSE
CONSTANTS
  MaxPasses = 2
  Reading <- File
  Writing <- Printed
  MaxLength = 7
  Sources <- MCSources
INVARIANTS ReadsBack TextKept ItemsWhole PathsBeforeOperators
