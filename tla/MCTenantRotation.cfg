SPECIFICATION RotationSpec
CONSTANTS
    Clients = {c1, c2, c3, c4, c5}
    Warmers = {}
    Tenants = {A, B, C}
    Anonymous = Anonymous
    NoAffinity = NoAffinity
    Nobody = Nobody
    N = 1
    MaxQueue = 4
SYMMETRY Symmetry
PROPERTY QueueRotatesBetweenTenants
