CONSTANTS
  a = a
  b = b
  c = c
  Process = {r, w}
  Wakeups = {w}
  Task = {a, b, c}
  Section = {a, b}
  Intake = {a}
  NextOf <- NextTask
  None = None
  Disturbances = {"crash", "reset", "gh", "fail"}
  MaxDisturbed = 1
SPECIFICATION FairSpec
INVARIANT TypeOK
INVARIANT SectionAnnounced
 
PROPERTY RetriesSpare
PROPERTY EffectsSettle
CHECK_DEADLOCK FALSE
