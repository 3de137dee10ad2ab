SPECIFICATION Spec
CONSTANTS
  Projects = {p1, p2}
  MaxTries = 1
  Workers = {w1}
  Creators = {c1, c2}
  Pollers = {}
  Trashers = {t1}
  Deleters = {}
  Withdrawers = {}
  MaxFaults = 0
  SnapshotReads = TRUE
  MaxClaims = 1
  Ghost = Ghost
  NoOne = NoOne
  NoRequest = NoRequest
  NoProject = NoProject
INVARIANTS OneActive
PROPERTIES WorkSpec
CHECK_DEADLOCK FALSE
