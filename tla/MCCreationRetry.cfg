CONSTANTS
    c1 = c1
    c2 = c2
    c3 = c3
    s1 = s1
    i1 = i1
    w1 = w1
    a1 = a1
    None = None
    Calls = {c1, c2, c3}
    Subscribers = {s1}
    Identities = {i1}
    IdentityOf <- OneKey
    Workspaces = {w1}
    Agents = {a1}
    Plan <- SameRequest
    Receipts <- NoReceipt
    Existing = {}
    TornClaims = FALSE
    MaxCrashes = 2
    MaxFailures = 1
SPECIFICATION Spec
CHECK_DEADLOCK FALSE
SYMMETRY CallSymmetry
INVARIANTS
    AtMostOnce
    JournalTellsTruth
    OneRunner
    ObserverIsCurrent
PROPERTY
    RecordOnlyGrows
