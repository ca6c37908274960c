SPECIFICATION Spec
CONSTANTS
  Docs <- MCSelections
  TargetWidth = 5
  IndentWidth = 2
  LeavesOf <- Leaves
  LevelsOf <- Levels
  FixedUp <- FixupDoc
  LineFits <- FirstLineFits
  IndentAhead <- NextIndent
  SpacingDropped <- DropLeadingSpacing
  TrialsOf <- Candidates
INVARIANT WidthLeftAtSoftbreak
