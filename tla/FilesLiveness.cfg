SPECIFICATION FairSpec
CONSTANTS
  Runs = {r1, r2}
  Workers = {w1, w2}
  MaxAttempts = 2
  BatchSize = 2
  PutsEnd = TRUE
  MaxDeletes = 0
  MaxRetries = 0
  MaxFaults = 1
  NoRun = NoRun
  Nobody = Nobody
PROPERTIES DeletionSettles
CHECK_DEADLOCK FALSE
