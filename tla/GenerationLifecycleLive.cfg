\* one process that may crash or be shut down, with a broker that fails, maintenance and sweep, fairness
SPECIFICATION FairSpec
CONSTANTS
    Tokens = {t1, t2, t3}
    AttemptLimit = 2
    Reserve = 2
    Costs = {0, 2}
    Jobs = {j1}
    Web = {p}
    Renderers = {p}
    Funds = 2
    Capacity = 1
    Aged = {j1}
    Slow = {j1}
    Faults = {"crash", "shutdown", "outage"}
    Current = Current
INVARIANTS TokenOnlyWhileRunning SettledIsCharged
PROPERTIES EveryJobEnds
\* nothing has to happen when all jobs have ended
CHECK_DEADLOCK FALSE
