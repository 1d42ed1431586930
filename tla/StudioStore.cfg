\* one process with every call, two processes without mutate
SPECIFICATION Spec
CONSTANTS
    p1 = p1
    p2 = p2
    m1 = m1
    m2 = m2
    g1 = g1
    g2 = g2
    s1 = s1
    Procs = {p1, p2}
    Writes = {m1, m2, g1, g2, s1}
    Whole = {m1, m2}
    Saves = {s1}
    RecordOf <- FourRecords
    Setups <- CarefulSetups
    Nobody = Nobody
INVARIANT CacheFollowsTable
PROPERTY KeepsStoreContract
\* all calls may have ended
CHECK_DEADLOCK FALSE
