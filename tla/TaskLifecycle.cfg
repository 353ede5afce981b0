\* Two runners, one reviewer, one rare event; where it is an edit of somebody
\* else, one runner.
CONSTANTS
  Runner = {r1, r2}
  Nobody = Nobody
  NoSha = NoSha
  Reviewers = 1
  Cap = 3
  MaxFailures = 2
  MaxRejections = 2
  MaxRetries = 2
  MaxUnclear = 2
  MaxContract = 2
  MaxRecovery = 3
  MaxRevivals = 1
  Thresholds = {1}
  MaxCommits = 1
  Amid = 1
  MaxFaults = 1
SPECIFICATION EditsSpec
INVARIANT EditsTypeOK
INVARIANT LoopApprovesWhatWasReviewed
INVARIANT InvocationsBounded
PROPERTY SettlesForGood
CHECK_DEADLOCK FALSE
