SPECIFICATION FairSpec
CONSTANTS
    Requests = {r}
    Warmers = {w}
    Reapers = {x}
    Stoppers = {s}
    Configs = {k1}
    Entries = {e1, e2}
    N = 2
    ReleaseMayFail = FALSE
    NoEntry = NoEntry
    Nobody = Nobody
PROPERTIES StopReturns UsersLetGo ExpiredModelsGo RemovedModelsAreReleased
