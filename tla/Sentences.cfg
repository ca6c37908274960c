SPECIFICATION Spec
CHECK_DEADLOCK FALSE
CONSTANTS
  Starts <- MCStarts
  Reading <- ParseFile
  Growths <- MCGrowths
  Seeds <- MCSeeds
  MaxDepth = 2
INVARIANTS TokensKept ReadAsLegal LegalIsRead
