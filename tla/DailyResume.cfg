SPECIFICATION FairSpec
CONSTANTS
  Notices = {1}
  MaxVersion = 1
  MaxFaults = 1
  GiveUp = 1
  DailyLimit = 1
  MaxFailures = 1
CHECK_DEADLOCK FALSE
PROPERTIES TextsGoOn
