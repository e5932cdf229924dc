SPECIFICATION Spec
CONSTANTS
    e1 = e1
    p1 = p1
    p2 = p2
    b1 = b1
    b2 = b2
    h1 = h1
    h2 = h2
    t1 = t1
    t2 = t2
    r1 = r1
    u1 = u1
    u2 = u2
    o1 = o1
    o2 = o2
    o3 = o3
    k1 = k1
    k2 = k2
    w1 = w1
    w2 = w2
    x1 = x1
    x2 = x2
    None = None
    Handlers = {h1, h2}
    Emails = {e1}
    Passwords = {p1, p2}
    Browsers = {b1, b2}
    RefreshIds = {t1, t2}
    ResetIds = {r1}
    AuthorEmails = {}
    MaxAccounts = 2
    MaxRequests = 5
    Users = {u1, u2}
    Organizations = {o1, o2, o3}
    Keys = {k1, k2}
    Starts <- Start
    Seeded = u2
    Authors = {}
    Workloads <- Workload
    MaxChanges = 3
    Workflows = {w1, w2}
    Executions = {x1, x2}
    WorkflowOf <- WorkflowOfExecution
    FreeRuns = 1
    FreeTokens = 1
    FreeCalls = 1
    ProRuns = 2
    ProTokens = 3
    ProPrice = 5
    EnterprisePrice = 9
    PageSize = 1
    DaysPerMonth = 2
    LastDay = 3
    TokensOfRun = {1, 2}
    MaxCharges = 3
SYMMETRY Symmetry
INVARIANTS
    ResetTokensAreOneTime
CHECK_DEADLOCK FALSE
