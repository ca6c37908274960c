SPECIFICATION FairSpec
CONSTANTS
  Threads = {t1, t2}
  Paths = {"a", "b"}
  Empty = "empty"
  WalkError = "error"
  Contents <- MCContents
  Formatted <- MCFormatted
  Walks <- MCWalks
INVARIANTS FilesDone StatusTells
PROPERTIES OnlyStaleTouched WalkEnds
