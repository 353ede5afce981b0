CONSTANTS
    Issue = {i1, i2}
    Wakeup = {w1}
    PageSize = 1
    None = None
    ListsGates = FALSE
    Disturbances = {"poll", "gate", "lost", "crash", "webhook", "patch"}
    MaxUpdates = 4
    MaxDisturbed = 1
SPECIFICATION FairSpec
INVARIANT TypeOK
INVARIANT NothingSkipped
INVARIANT OneTriageTask
PROPERTY ReportsArrive
PROPERTY DecisionActed
