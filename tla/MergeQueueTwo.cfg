CONSTANTS
  Runner = {r1, r2}
  Task = {t1, t2}
  Dev = Dev
  Conflicts <- NoConflicts
  NoTask = NoTask
  NoCommit = NoCommit
  NoRunner = NoRunner
  Gone = Gone
  MaxAttempts = 2
  MaxVersion = 1
  MaxDev = 0
  MaxCrash = 1
  MaxFault = 0
SPECIFICATION FairSpec
PROPERTIES QueueDrains
CHECK_DEADLOCK FALSE
