SPECIFICATION Spec
CONSTANTS
  Sources <- Marked
INVARIANTS RecordedAreReal MarkersInTree RegionsWellFormed
