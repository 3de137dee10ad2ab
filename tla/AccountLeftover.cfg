SPECIFICATION Spec
CONSTANTS
  Projects = {p1}
  MaxTries = 1
  Workers = {w1}
  Creators = {c1}
  Pollers = {}
  Trashers = {}
  Deleters = {}
  Withdrawers = {x1}
  MaxFaults = 0
  SnapshotReads = TRUE
  MaxClaims = 1
  Ghost = Ghost
  NoOne = NoOne
  NoRequest = NoRequest
  NoProject = NoProject
INVARIANTS NoWorkAfterWithdrawal
CHECK_DEADLOCK FALSE
