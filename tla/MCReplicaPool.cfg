SPECIFICATION Spec
CONSTANTS
    Clients = {c1, c2, c3}
    Warmers = {w}
    Tenants = {A, B}
    Anonymous = Anonymous
    NoAffinity = NoAffinity
    Nobody = Nobody
    N = 2
    MaxQueue = 2
SYMMETRY Symmetry
INVARIANTS TypeOK LeaseOwnership QueueMatchesCalls ClosedPoolIsDrained
PROPERTIES ImplementsAllocator HeadBypassedOnce TenantFIFO TenantsAlternate
