SPECIFICATION FairSpec
CONSTANTS
    t1 = t1
    wf1 = wf1
    l1 = l1
    l2 = l2
    l3 = l3
    w1 = w1
    w2 = w2
    r1 = r1
    r2 = r2
    NoLog = NoLog
    Tenants = {t1}
    Workflows = {wf1}
    Logs = {l1}
    TenantOf <- OneTenantOf
    WorkflowOf <- OneWorkflowOf
    Registered = {}
    Workers = {w1, w2}
    Requests = {r1}
    Operations = {"retry", "cancel", "delete"}
    MaxRetries = 1
    FreePlanLimit = 2
    MaxManualRetries = 1
    MaxFaults = 1
INVARIANTS
    UsageNeverOvercounts
PROPERTIES
    EveryExecutionSettles
CHECK_DEADLOCK FALSE
