CONSTANTS
  w1 = w1
  w2 = w2
  w3 = w3
  s1 = s1
  s2 = s2
  Workers = {w1, w2, w3}
  Updaters = {w1, w2}
  Initializers = {w3}
  Collectors = {w2, w3}
  Sensors = {s1}
  Data = {{s1}}
  MaxFaults = 1
SPECIFICATION MFairSpec
INVARIANTS MapTypeOK LockHoldsAlone NullWriteNeedsRestart
PROPERTIES EveryoneGetsIn MapSettles
CHECK_DEADLOCK FALSE
