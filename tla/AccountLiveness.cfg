SPECIFICATION FairSpec
CONSTANTS
  Projects = {p1}
  MaxTries = 1
  Workers = {w1, w2}
  Creators = {c1}
  Pollers = {}
  Trashers = {}
  Deleters = {}
  Withdrawers = {x1}
  MaxFaults = 1
  SnapshotReads = TRUE
  MaxClaims = 1
  Ghost = Ghost
  NoOne = NoOne
  NoRequest = NoRequest
  NoProject = NoProject
PROPERTIES WithdrawalEnds RequestLeaves
CHECK_DEADLOCK FALSE
