CONSTANTS
    Section = {1, 2, 3}
    Runner = {r1, r2}
    Launcher = {l1}
    Session = {1, 2, 3, 4}
    MaxClones = 2
    RecoveryCap = 2
    None = None
    Disturbances = {"by_hand", "crash", "late", "fail", "task_reset", "project_reset", "early"}
    MaxDisturbed = 1
    Upstream <- SecondWaits
SPECIFICATION FairSpec
INVARIANT TypeOK
INVARIANT OneSessionRuns
PROPERTY NotGivenUpUnderWork
PROPERTY WorkIsServed
