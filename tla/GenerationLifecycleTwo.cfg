\* two jobs compete for the credits of one account; a web process and a worker, each with its own cache
SPECIFICATION Spec
CONSTANTS
    Tokens = {t1, t2}
    AttemptLimit = 1
    Reserve = 2
    Costs = {2}
    Jobs = {j1, j2}
    Web = {web}
    Renderers = {w1}
    Funds = 2
    Capacity = 1
    Aged = {}
    Slow = {j1}
    Faults = {}
    Current = Current
INVARIANTS TypeOK LedgerExplainsBalance
SYMMETRY Claimants
\* nothing has to happen when all jobs have ended
CHECK_DEADLOCK FALSE
