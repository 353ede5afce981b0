\* One runner, two reviewers, one rare event.
CONSTANTS
  Runner = {r1}
  Nobody = Nobody
  NoSha = NoSha
  Reviewers = 2
  Cap = 4
  MaxFailures = 2
  MaxRejections = 2
  MaxRetries = 2
  MaxUnclear = 2
  MaxContract = 2
  MaxRecovery = 3
  MaxRevivals = 1
  Thresholds = {1}
  MaxCommits = 1
  Amid = 1
  MaxFaults = 1
SPECIFICATION LoopSpec
CHECK_DEADLOCK FALSE
INVARIANT ApprovedByEveryReviewer
