------------------------ MODULE ExecutionRefinement ------------------------
(***************************************************************************)
(* Executions implements ExecutionLifecycle when clients neither retry nor  *)
(* cancel.  The refinement mapping reads the lifecycle off the logs table.  *)
(***************************************************************************)
EXTENDS Executions

\* The id of an execution is taken before its row is inserted.
BeingInserted(l) ==
    \E r \in Requests :
        /\ request[r].op = "webhook"
        /\ request[r].pc = "commit"
        /\ request[r].log = l

phaseOf ==
    [l \in Logs |->
        IF l \in rows THEN log[l].status
        ELSE IF l \notin born \/ BeingInserted(l) THEN "absent"
        ELSE "removed"]

Lifecycle == INSTANCE ExecutionLifecycle WITH
    Executions <- Logs,
    TenantOfExecution <- [l \in Logs |-> LogTenant(l)],
    MaxAttempts <- MaxRetries + 1,
    phase <- phaseOf,
    tries <- [l \in Logs |-> log[l].attempts],
    results <- [t \in Tenants |-> finished[t].ok + finished[t].failed]

\* The table goes through the lifecycle of tasks.py's happy and failing paths,
\* also when workers and handlers crash and workflows change and are deleted;
\* without faults it carries every accepted execution to its end.
ImplementsLifecycle ==
    /\ Lifecycle!Spec
    /\ [](faults = 0) => Lifecycle!Fairness
=============================================================================
