SPECIFICATION Spec
CONSTANTS
  Listed = {k1, k2, k3, k4, k5}
  Others = {b1, b2, b3}
  PageSize = 2
  MaxRuns = 2
  MaxChanges = 2
  MaxFaults = 1
CHECK_DEADLOCK FALSE
CONSTRAINT FewSnapshots
SYMMETRY Symmetry
INVARIANTS TypeOK
PROPERTIES RowFollowsNewestList ClosedOnlyIfGone RunMirrorsServer
