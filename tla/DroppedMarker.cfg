SPECIFICATION Spec
CONSTANTS
  Sources <- Commas
INVARIANT MarkersInTree
