SPECIFICATION Spec
CONSTANTS
    Requests = {r}
    Warmers = {w1, w2}
    Reapers = {x}
    Stoppers = {s}
    Configs = {k1, k2}
    Entries = {e1, e2}
    N = 2
    ReleaseMayFail = TRUE
    NoEntry = NoEntry
    Nobody = Nobody
SYMMETRY Symmetry
INVARIANTS TypeOK NoUseAfterRelease OneCustodian EvictionSparesUsers OneWarmup
PROPERTIES PoolsKeepTheirPromise
