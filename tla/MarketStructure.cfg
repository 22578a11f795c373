SPECIFICATION Spec
CONSTANTS
  Bars <- MCBars
  PivotLen = 1
  LiquidityLen = 1
  Resample = 2
  MaxAge = 5
  MemoryLen = 2
  MaxBars = 7
INVARIANTS TypeOK BreaksAreFirstCloses CharacterAlternates MemoryFollowsTrend
PROPERTIES HindsightIsBounded NoRepaint
CHECK_DEADLOCK FALSE
