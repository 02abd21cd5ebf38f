SPECIFICATION Spec
CONSTANTS
    \* RequestLifecycle
    Threads = {t1, t2}
    Ids = {i}
    Principals = {a, b}
    Admins = {a}
    MaxConcurrent = 1
    PerMinute = 2
    Window = 1
    MaxTime = 2
    MaxCalls = 3
    \* ProviderBudget
    Callers = {c1, c2}
    Providers = {1, 2}
    Uncapped = {2}
    Budgets = {1}
    NoBudget = NoBudget
    MaxCost = 1
    MaxMonth = 2
    MaxSpent = 2
    MaxChanges = 2
    \* ChatDelivery, StreamBlocks, ToolTextStream
    MaxPieces = 2
    MaxCallbacks = 4
    MaxText = 5
    MaxChunk = 2
    \* HostPool
    Requests = {r1, r2}
    Hosts = {1, 2}
    Loads = {0}
    ProbeTtl = 0
    Cooldown = 1
    MaxCooldown = 2
    MaxHostTime = 1
    NoProbe = NoProbe
    Nowhere = Nowhere
    \* GenerationRun
    MaxPrompt = 3
    MaxAnswer = 3
    Contexts = {0, 3}
    Limits = {0, 2}
    Keeps = {0, 1}
    ModelWindow = 5
    MaxRunTime = 1
INVARIANTS SpendingIsBounded OneAnswer  
PROPERTIES RequestsAreAccounted 
