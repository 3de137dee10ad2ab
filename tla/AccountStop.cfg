SPECIFICATION Spec
CONSTANTS
  Projects = {p1}
  MaxTries = 2
  Workers = {w1, w2}
  Creators = {c1}
  Pollers = {o1}
  Trashers = {}
  Deleters = {d1}
  Withdrawers = {x1}
  MaxFaults = 1
  SnapshotReads = TRUE
  MaxClaims = 1
  Ghost = Ghost
  NoOne = NoOne
  NoRequest = NoRequest
  NoProject = NoProject
INVARIANTS TypeOK CancelHolds
PROPERTIES WithdrawalLeavesNothing
SYMMETRY Symmetry
CHECK_DEADLOCK FALSE
