SPECIFICATION FairSpec
CONSTANTS
    wf1 = wf1
    e1 = e1
    e2 = e2
    s1 = s1
    s2 = s2
    r1 = r1
    r2 = r2
    NoExecution = NoExecution
    Workflows = {wf1}
    Executions = {e1, e2}
    WorkflowOf <- OneWorkflowOf
    Slots = {s1}
    Requests = {r1}
    MaxActions = 1
    Attempts = 2
    MaxStalledCount = 1
    Operations = {"cancel", "retry", "update", "delete"}
    Disruptions = {"crash", "shutdown", "database", "api"}
    MaxDisruptions = 1
PROPERTIES
    EveryJobEnds
CHECK_DEADLOCK FALSE
