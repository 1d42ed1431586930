SPECIFICATION FairSpec
CONSTANTS
    Ids <- TwoRows
    PrintOf <- ProbeRows
    Prints = {"probe"}
    Crons = {c1}
    Hooks = {}
    Operators = {o1}
    Callbacks = {}
    Recipes = {"view", "ack", "escalate"}
    OpenAfter = 2
    ResolveAfter = 2
    Lookback = 2
    Faults = {}
INVARIANTS TypeOK AnnouncedOnce RemediatesOnce
PROPERTIES OutageIsShown RecoveryIsShown
