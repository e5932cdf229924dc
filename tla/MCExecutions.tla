---------------------------- MODULE MCExecutions ----------------------------
(***************************************************************************)
(* Small instances of Executions for TLC.                                   *)
(***************************************************************************)
EXTENDS ExecutionRefinement, TLC

CONSTANTS t1, wf1, l1, l2, l3, w1, w2, r1, r2

\* One tenant; every execution belongs to the first workflow.
OneTenantOf == [w \in Workflows |-> t1]
OneWorkflowOf == [l \in Logs |-> wf1]

Symmetry == Permutations(Logs) \cup Permutations(Workers) \cup Permutations(Requests)
=============================================================================
