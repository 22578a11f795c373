SPECIFICATION Spec
CONSTANTS
  c1 = c1
  c2 = c2
  c3 = c3
  s1 = s1
  s2 = s2
  Calls = {c1, c2, c3}
  Snipers = {s1, s2}
  SniperOf <- MCSniperOf
  MaxOpenTrades = 1
  Attempts = 2
  Faults = {"transient", "network"}
  Concurrency = 2
  MaxRestarts = 1
INVARIANTS
  TypeOK
  RecordedBeforeBroker
  FilledIsReal
  UntrackedIsExplained
  UnprotectedIsOnRecord
PROPERTIES
  LedgerImplemented
CHECK_DEADLOCK FALSE
