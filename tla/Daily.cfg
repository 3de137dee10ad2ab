SPECIFICATION MCSpec
CONSTANTS
  Notices = {1, 2}
  MaxVersion = 2
  MaxFaults = 1
  GiveUp = 1
  DailyLimit = 1
  MaxFailures = 2
CHECK_DEADLOCK FALSE
INVARIANTS TypeOK UploadedFilesAreWhole CallsWithinLimit
PROPERTIES NothingPaidTwice DailyCatchesUp
