SPECIFICATION Spec
CONSTANTS
  Bars <- MCBars
  Zones <- MCZones
  Sizes <- MCSizes
  SniperMode = TRUE
  RankSkip = TRUE
  NumLayers = 2
  Lifetime = 2
  MaxAge = 1
  RegimeGate = TRUE
  MinWidth = 2
  SlMult = 1
  TpMult = 2
  InvTrades = TRUE
  MaxPer = 1
  Grace = 1
  IgnoreAligned = TRUE
  Buffer = 0
  RenkoBuffer = 1
  Brick = 1
  MinBricks = 2
  Decay <- MCDecay
  TrailBy = 0
  TrailFrom = 0
  TieBreak = "sl_first"
  MaxBars = 5
INVARIANTS TypeOK SnipersSettle EntriesFollowOrders InverseTradesCapped 
PROPERTY StopNeverLoosens
CHECK_DEADLOCK FALSE
