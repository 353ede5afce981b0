--------------------------- MODULE MCTaskLifecycle ---------------------------
(* Small instances of TaskLifecycle for TLC. *)
EXTENDS TaskEdits, TLC

Symmetry == Permutations(Runner)

\* A row of every kind the program writes.
AuditRows ==
    {Row("pending", "in_progress", "orchestrator", "plain", NoSha),
     Row("in_progress", "in_progress", "orchestrator", "retry", NoSha),
     Row("in_progress", "in_progress", "orchestrator", "checklist", NoSha),
     Row("in_progress", "in_progress", "orchestrator", "rejection_response", NoSha),
     Row("in_progress", "in_progress", "coordinator", "plain", NoSha),
     Row("in_progress", "failed", "orchestrator", "checklist", NoSha),
     Row("in_progress", "review", "orchestrator", "noop", 1),
     Row("in_progress", "review", "orchestrator", "plain", 2),
     Row("review", "review", "orchestrator", "unclear", NoSha),
     Row("review", "review", "orchestrator", "decision", NoSha),
     Row("review", "in_progress", "orchestrator", "recovery", NoSha),
     Row("review", "in_progress", "model", "plain", 1),
     Row("in_progress", "disputed", "orchestrator", "recovery", NoSha),
     Row("failed", "pending", "orchestrator", "revival", NoSha),
     Row("review", "merge_pending", "orchestrator", "plain", 1)}

\* The summary the specification keeps agrees with the scans of the trail.
ASSUME SummaryAssumption == SummaryIsExact(AuditRows, 4)
==============================================================================
