------------------------- MODULE MCApprovalEffects -------------------------
(* Small instances of ApprovalEffects for TLC. *)
EXTENDS ApprovalEffects, TLC

CONSTANTS a, b, c

NextTask == [t \in {a} |-> c]
=============================================================================
