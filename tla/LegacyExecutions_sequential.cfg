SPECIFICATION Spec
CONSTANTS
    wf1 = wf1
    e1 = e1
    e2 = e2
    s1 = s1
    s2 = s2
    r1 = r1
    r2 = r2
    NoExecution = NoExecution
    Workflows = {wf1}
    Executions = {e1}
    WorkflowOf <- OneWorkflowOf
    Slots = {s1}
    Requests = {r1}
    MaxActions = 1
    Attempts = 3
    MaxStalledCount = 1
    Operations = {}
    Disruptions = {}
    MaxDisruptions = 0
INVARIANTS
    ActionsAreSequential
CHECK_DEADLOCK FALSE
