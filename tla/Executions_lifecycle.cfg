SPECIFICATION FairSpec
CONSTANTS
    t1 = t1
    wf1 = wf1
    l1 = l1
    l2 = l2
    l3 = l3
    w1 = w1
    w2 = w2
    r1 = r1
    r2 = r2
    NoLog = NoLog
    Tenants = {t1}
    Workflows = {wf1}
    Logs = {l1, l2}
    TenantOf <- OneTenantOf
    WorkflowOf <- OneWorkflowOf
    Registered = {t1}
    Workers = {w1, w2}
    Requests = {r1, r2}
    Operations = {"update", "delete"}
    MaxRetries = 3
    FreePlanLimit = 2
    MaxManualRetries = 0
    MaxFaults = 1
PROPERTIES
    ImplementsLifecycle
CHECK_DEADLOCK FALSE
