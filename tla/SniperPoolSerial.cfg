SPECIFICATION Spec
CONSTANTS
  bull = bull
  bear = bear
  Directions = {bull, bear}
  w1 = w1
  w2 = w2
  Walks = {w1}
  MaxZone = 2
  MaxSniper = 2
  MaxRestarts = 1
INVARIANTS
  FiresOnce
  FiresAgainstItsZone
PROPERTY
  FateIsFinal
CHECK_DEADLOCK FALSE
