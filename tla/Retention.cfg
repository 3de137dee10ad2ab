SPECIFICATION MCSpec
CONSTANTS
  Runs = {r1, r2}
  Requests = {q1}
  Workers = {w1, w2}
  Withdrawals = {x1}
  Users = {u1}
  Nobody = Nobody
  NoRun = NoRun
  BatchSize = 1
  MaxVisits = 1
  MaxFaults = 1
INVARIANTS TypeOK RecordsCountedOnce
PROPERTIES OldRecordsLeave FinishedJobIsComplete JobHasOneEnd
