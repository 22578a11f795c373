SPECIFICATION ZoneSpec
CONSTANTS
  Bars <- MCBars
  PivotLen = 1
  LiquidityLen = 1
  Resample = 2
  MaxAge = 5
  MemoryLen = 2
  MaxBars = 6
  Candle = 2
  Supersede = TRUE
  Pierce = 0
  Needed = 2
  RequireRetest = TRUE
  Extension = 1
  MinLifetime = 2
  RetestAge = 3
  Lookback = 2
  MinTouches = 3
  MinInversionAge = 3
  Gates = {TRUE, FALSE}
  ReversesBias = TRUE
  MinSweepWidth = 1
  DayLength = 4
  RangeStart = 0
  RangeLength = 2
  RangeLookback = 2
  SpringBreak = 0
  Ticks <- MCTicks
INVARIANT ScanFindsFirstRun
PROPERTIES DeadZonesStayDead InversionIsKept
  RangeEntriesAreCausal BackdatedEntries InverseEntriesAreFinal
CHECK_DEADLOCK FALSE
