SPECIFICATION Spec
CONSTANTS
    \* PromptCache
    Tokens = {x, y}
    MaxLength = 3
    MaxDraft = 2
    MaxEntries = 1
    MaxRuns = 2
    \* ThinkingStream
    MaxText = 5
    MaxChunk = 2
    \* BufferedStream
    MaxBuffered = 2
    MaxAnswer = 4
    \* VisionCache
    Files = {f}
    Pictures = {p, q}
    MaxSize = 1
    MaxImageEdits = 3
    \* VideoFrames (and the commands of Connections)
    Commands = {c1, c2}
    Frames = 4
    MaxScore = 1
    MaxKept = 2
    \* VisionTokens
    MaxHeight = 3
    MaxWidth = 3
    Ratios = {10, 25, 35, 60}
    Buckets = {0, 2, 3}
    \* CorpusSpeculation
    MaxCorpus = 3
    PromptLength = 1
    NGram = 1
    MaxSuffix = 2
    Limit = 2
    MaxNew = 3
    DraftSweep = {1, 3}
    InitialDraft = 2
    MinDraft = 1
    DraftStep = 1
    Anchors = 1
    MaxSpeed = 1
    \* Transcripts
    Tools = {1, 2, 3, 4}
    Core = {1}
    ToolLimit = 3
    Few = 2
    Subjects = {{}, {3, 4}}
    Recent = 2
    Budgets = {2, 3, 4, 6}
    MaxParallel = 1
    MaxItems = 6
    MaxCompactions = 1
    \* ChatLoop
    Images = {i}
    Contents = {a, b}
    MaxMessages = 3
    MaxCalls = 2
    MaxToolRounds = 2
    MaxChanges = 2
    \* Connections
    Clients = {u}
    Names = {n}
    Endpoints = {e1, e2}
    Local = Local
    Nobody = Nobody
    MaxIds = 2
    MaxStarts = 2
    MaxKills = 1
INVARIANTS CachesAreFaithful   DraftsAreBest
