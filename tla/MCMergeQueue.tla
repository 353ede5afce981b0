--------------------------- MODULE MCMergeQueue ---------------------------
(* Small instances of MergeQueue for TLC. *)
EXTENDS MergeQueue, TLC

NoConflicts == {}
DevConflicts == {Dev} \X Task
AllConflicts == (Task \cup {Dev}) \X Task

Symmetry == Permutations(Runner)
============================================================================
