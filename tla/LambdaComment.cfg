SPECIFICATION Spec
CONSTANTS
  Trees <- MovedTrees
  SourcesOf <- MovedTexts
  Emitted <- EmitFile
  LeavesOf <- Leaves
  LevelsOf <- Levels
  FixedUp <- FixupDoc
  LineFits <- FirstLineFits
  IndentAhead <- NextIndent
  SpacingDropped <- DropLeadingSpacing
  TrialsOf <- Candidates
  TargetWidth = 12
  IndentWidth = 2
  InterpolationLimit = 6
  Reach = 3
INVARIANT Idempotent
