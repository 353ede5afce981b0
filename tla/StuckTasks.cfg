CONSTANTS
  Task = {t1, t2}
  Runner = {r1, r2}
  Nobody = Nobody
  Gone = Gone
  Reviewers = 1
  Pooled = FALSE
  MaxRecoveryAttempts = 2
  MaxRevivals = 1
  MaxIncidents = 1
  MaxFaults = 1
  MaxOwed = 2
SPECIFICATION FairHealthSpec
INVARIANT HealthTypeOK
INVARIANT FailuresAreAttempts
INVARIANT WorkersAreKnown
PROPERTY TasksEnd
CHECK_DEADLOCK FALSE
