SPECIFICATION Spec
CONSTANTS
  Runs = {r1, r2}
  Workers = {w1, w2}
  MaxAttempts = 2
  BatchSize = 1
  PutsEnd = TRUE
  MaxDeletes = 2
  MaxRetries = 1
  MaxFaults = 2
  NoRun = NoRun
  Nobody = Nobody
INVARIANTS TypeOK DeletedStays NothingLeft OneHolder
SYMMETRY Symmetry
CHECK_DEADLOCK FALSE
