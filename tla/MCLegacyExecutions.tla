------------------------- MODULE MCLegacyExecutions -------------------------
(* Instances of LegacyExecutions for TLC. *)
EXTENDS LegacyExecutions, TLC

CONSTANTS wf1, e1, e2, s1, s2, r1, r2

OneWorkflowOf == [e \in Executions |-> wf1]

Symmetry == Permutations(Executions) \cup Permutations(Slots) \cup Permutations(Requests)
=============================================================================
