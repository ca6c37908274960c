SPECIFICATION Spec
CHECK_DEADLOCK FALSE
CONSTANTS
  MaxPasses = 2
  Reading <- File
  Writing <- Printed
  MaxLength = 4
  Sources <- Colons
INVARIANT ItemsWhole
