\* one machine whose operations may overlap, and every fault the code reports
SPECIFICATION Spec
CONSTANTS
    m1 = m1
    m2 = m2
    a1 = a1
    a2 = a2
    b1 = b1
    r1 = r1
    r2 = r2
    c1 = c1
    c2 = c2
    Rows = {r1, r2}
    Codes = {c1}
    Panels = {p1}
    Machines = {m1}
    Slots = {a1, a2}
    Home <- OneHome
    Contents <- TwoContents
    Attempts = 2
    Faults = {"server", "reply", "reload", "quit"}
    PairLimit = 2
    ScanLimit = 1
    SyncLimit = 2
    None = None
    Torn = Torn
INVARIANTS TypeOK RecordedSyncIsStored PairedAsAnswered OverviewAgrees NoStrayDevices
SYMMETRY Alike
