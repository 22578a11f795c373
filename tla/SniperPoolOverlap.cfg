SPECIFICATION FairSpec
CONSTANTS
  bull = bull
  bear = bear
  Directions = {bull}
  w1 = w1
  w2 = w2
  Walks = {w1, w2}
  MaxZone = 2
  MaxSniper = 2
  MaxRestarts = 0
INVARIANTS
  TypeOK
  NoLostSniper
PROPERTY
  AllSettled
CHECK_DEADLOCK FALSE
