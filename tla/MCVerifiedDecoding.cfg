SPECIFICATION FairSpec
CONSTANTS
    Tokens = {a, b}
    End = End
    NoToken = NoToken
    MaxTokens = 3
    MaxDraft = 2
    Limit = 2
    Probes = 1
INVARIANTS TypeOK EmitsGreedyOutput
PROPERTIES ImplementsGreedy Terminates
\* generate returns.
CHECK_DEADLOCK FALSE
