SPECIFICATION Spec
CONSTANTS
  c1 = c1
  c2 = c2
  c3 = c3
  s1 = s1
  s2 = s2
  Calls = {c1, c2, c3}
  Snipers = {s1, s2}
  SniperOf <- MCSniperOf
  MaxOpenTrades = 1
  Attempts = 3
  Faults = {}
  Concurrency = 2
  MaxRestarts = 0
INVARIANTS
  PositionsWithinCap
CHECK_DEADLOCK FALSE
