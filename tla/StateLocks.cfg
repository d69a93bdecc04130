SPECIFICATION FairSpec
CONSTANTS
  Slots = {t1, t2, t3}
  MaxTasks = 3
CHECK_DEADLOCK FALSE
PROPERTY DriverGoesOn
