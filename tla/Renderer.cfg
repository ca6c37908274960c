SPECIFICATION Spec
CONSTANTS
  Docs <- MCDocs
  TargetWidth = 5
  IndentWidth = 2
  LeavesOf <- Leaves
  LevelsOf <- Levels
  FixedUp <- FixupDoc
  LineFits <- FirstLineFits
  IndentAhead <- NextIndent
  SpacingDropped <- DropLeadingSpacing
  TrialsOf <- Candidates
INVARIANTS TrialsEnd DemandedExactlyOnce SilentInRegion FlatLinesFit HardBreaksExact IndentationFollowsNesting
PROPERTIES KeepsPromises
