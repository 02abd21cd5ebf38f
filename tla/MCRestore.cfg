SPECIFICATION Spec
CONSTANTS
    \* TeamTraces
    Writers = {w}
    TraceAdmins = {a1, a2}
    Limits = {1, 3}
    Sizes = {2, 3}
    Days = {1}
    MaxTime = 2
    MaxTraces = 2
    MaxUpdates = 2
    \* TeamRegister
    Callers = {c1, c2}
    Keys = {k1, k2}
    Devices = {d}
    Models = {m1, m2}
    MaxAsked = 2
    MaxCount = 1
    \* WorkspaceIndex
    Files = {f1, f2}
    Readers = {s}
    MaxEdits = 3
    MaxIndexes = 2
    MaxCrashes = 1
    \* TeamMemory
    Requests = {r}
    Employees = {e1, e2}
    Admins = {a}
    MaxRevision = 1
    MaxRecords = 1
    MaxPuts = 2
    Team = Team
    Nobody = Nobody
    \* ModelDownloads
    Shards = {a}
    DraftShards = {a}
    MaxPulls = 1
    \* DesktopProfiles
    MaxUserEdits = 2
    MaxCommands = 4
    MaxKills = 2
    \* DaemonStart
    Launchers = {l1, l2}
    MaxStops = 1
    \* Extensions
    Handlers = {h1, h2}
    Ids = {s1, s2}
    SkillIds = {i}
    ExtensionNames = {1, 2}
    Secrets = {k}
    Tools = {1, 3}
    FoundLimits = {1}
    Nothing = Nothing
    MaxCalls = 2
INVARIANT RestoreKeepsPreviousValues
