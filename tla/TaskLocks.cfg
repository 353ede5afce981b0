\* Three runners race for one task; owners crash.
CONSTANTS
  Runner = {r1, r2, r3}
  Task = {t1}
  Timeout = 2
  NoLock = NoLock
  NoTask = NoTask
SPECIFICATION FairSpec
INVARIANT TypeOK
INVARIANT ExclusiveLease
PROPERTY ImplementsLease
PROPERTY CrashedLockIsFreed
