SPECIFICATION FairSpec
CONSTANTS
    Clients = {c1, c2}
    Warmers = {w}
    Tenants = {A}
    Anonymous = Anonymous
    NoAffinity = NoAffinity
    Nobody = Nobody
    N = 2
    MaxQueue = 2
PROPERTIES EveryCallReturns WarmupEnds CloseReturns
