SPECIFICATION FairSpec
CONSTANTS
  c1 = c1
  c2 = c2
  c3 = c3
  s1 = s1
  s2 = s2
  Calls = {c1, c2, c3}
  Snipers = {s1, s2}
  SniperOf <- MCSniperOf
  MaxOpenTrades = 2
  Attempts = 3
  Faults = {"transient", "network"}
  Concurrency = 1
  MaxRestarts = 0
INVARIANTS
  OpenMeansPosition
  LegsFollowFill
PROPERTIES
  FilledIsFinal
  HandlerReturns
CHECK_DEADLOCK FALSE
