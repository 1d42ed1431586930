\* one user on two devices
SPECIFICATION Spec
CONSTANTS
    b1 = b1
    b2 = b2
    p1 = p1
    p2 = p2
    u1 = u1
    e1 = e1
    e2 = e2
    Users = {u1}
    Browsers = {b1, b2}
    Pages = {p1, p2}
    BrowserOf <- OneEach
    Entries = {e1, e2}
    Example = e1
    SeedAge = 1
    Faults = {"fail"}
    Uses <- Habits
    MaxNow = 2
    MaxVisits = 4
    MaxCalls = 2
    None = None
INVARIANTS TypeOK LatestIsRecorded QuietMeansSaved
PROPERTIES HistoryKept ShownEditsReachTheCloud
\* every edit may have been made and every visit ended
CHECK_DEADLOCK FALSE
