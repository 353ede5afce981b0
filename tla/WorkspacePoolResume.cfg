CONSTANTS
  Runner = {r1}
  Task = {a}
  None = None
  MaxIdle = 1
  Slots = 1
  MaxCommits = 1
  MaxClaims = 3
  Disturbances = {}
  MaxDisturbed = 0
SPECIFICATION Spec
INVARIANT CoderContinues
CHECK_DEADLOCK FALSE
