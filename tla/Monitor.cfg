\* Two anomalies, and one thing that goes wrong or that a person does.
CONSTANTS
  Anomaly = {a, b}
  Responder = {f1, f2}
  Wakeup = {w1}
  Person = Person
  MaxRemediations = 1
  Disturbances = {"crash", "fail", "slow", "run", "investigate", "clear"}
  MaxDisturbed = 1
SPECIFICATION FairSpec
INVARIANT TypeOK
INVARIANT OneResponder
PROPERTY TakenUp
PROPERTY RunsSettle
CHECK_DEADLOCK FALSE
