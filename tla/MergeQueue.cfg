CONSTANTS
  Runner = {r1, r2}
  Task = {t1}
  Dev = Dev
  Conflicts <- DevConflicts
  NoTask = NoTask
  NoCommit = NoCommit
  NoRunner = NoRunner
  Gone = Gone
  MaxAttempts = 2
  MaxVersion = 3
  MaxDev = 1
  MaxCrash = 1
  MaxFault = 1
SPECIFICATION Spec
SYMMETRY Symmetry
INVARIANTS TypeOK OnlyReviewedLands LandsOnce
PROPERTY ImplementsTrunk
CHECK_DEADLOCK FALSE
