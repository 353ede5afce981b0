CONSTANTS
  Runner = {r1, r2}
  Task = {a, b}
  None = None
  MaxIdle = 1
  Slots = 3
  MaxCommits = 1
  MaxClaims = 4
  Disturbances = {"crash", "late", "gap", "long"}
  MaxDisturbed = 1
SPECIFICATION FairSpec
INVARIANT TypeOK
INVARIANT SlotExclusive
INVARIANT RowMatchesClone
INVARIANT SubmissionDurable
PROPERTY SlotsComeBack
CHECK_DEADLOCK FALSE
