CONSTANTS
    m1 = m1
    m2 = m2
    o1 = o1
    r1 = r1
    w1 = w1
    i1 = i1
    i2 = i2
    a1 = a1
    a2 = a2
    None = None
    Calls = {m1, m2, o1, r1}
    Subscribers = {w1}
    Identities = {i1, i2}
    IdentityOf <- TwoKeys
    Workspaces = {}
    Agents = {a1, a2}
    Plan <- SharedAgent
    Receipts <- OldReceipts
    Existing = {}
    TornClaims = FALSE
    MaxCrashes = 1
    MaxFailures = 1
    Key = i1
    Mine = {m1, m2}
    Watches = {w1}
    MaxDrops = 1
    MaxFaults = 1
SPECIFICATION ClientFairSpec
CHECK_DEADLOCK FALSE
INVARIANTS
    ClientTypeOK
    ResourceHasOneOwner
    LegacyNeverRuns
PROPERTIES
    EveryCallAnswered
    OperationSettles
    SubscriptionIsAuthoritative
