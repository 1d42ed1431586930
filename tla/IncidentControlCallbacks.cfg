SPECIFICATION Spec
CONSTANTS
    Ids <- TwoRows
    PrintOf <- CallbackRows
    Prints = {"probe", "verify", "bundle"}
    Crons = {}
    Hooks = {h1}
    Operators = {o1}
    Callbacks = {"verify", "bundle"}
    Recipes = {"dispatch"}
    OpenAfter = 1
    ResolveAfter = 1
    Lookback = 1
    Faults = {"reply"}
INVARIANT AnnouncedOnce
