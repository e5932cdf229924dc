SPECIFICATION Spec
CONSTANTS
    h1 = h1
    h2 = h2
    p1 = p1
    p2 = p2
    seed = seed
    e1 = e1
    t1 = t1
    t2 = t2
    f1 = f1
    f2 = f2
    workspace = workspace
    platform = platform
    Nobody = Nobody
    Nothing = Nothing
    Requests = {h1, h2}
    Processes = {p1, p2}
    Emails = {seed, e1}
    SeedEmail = seed
    Names = {workspace, platform}
    PlatformName = platform
    MaxSuffix = 2
    TokenIds = {1, 2}
    KeyIds = {1, 2}
    MaxPassword = 2
    Workloads <- Workload
    Tabs = {t1, t2}
    Calls = {1, 2}
    Sessions = {1, 2}
    AccessTokens = {1, 2, 3}
    MaxVisits = 3
    Fetches = {f1, f2}
    LastPage = 3
    MaxVersion = 1
    MaxTurns = 3
    MaxFailures = 1
INVARIANTS
    AccountsTypeOK
    TenantsAreWhole
    AdminsBelongToThePlatform
    OldSessionsWereOvertaken
    RegeneratedKeysAreRevoked
    ClientTypeOK
    StorageFollowsCookie
PROPERTIES
    ClientSettles
    PageSettles
CHECK_DEADLOCK FALSE
