------------------------- MODULE MCParallelSessions -------------------------
(* Small instances of ParallelSessions for TLC. *)
EXTENDS ParallelSessions, TLC

\* The second section waits for the first; the others are free.
SecondWaits == [x \in Section |-> IF x = 2 THEN {1} ELSE {}]

Symmetry == Permutations(Runner)
=============================================================================
