SPECIFICATION Spec
CONSTANTS
    Tools = {1, 2}
    Core = {1}
    ToolLimit = 2
    Few = 2
    Subjects = {{}, {2}}
    Recent = 2
    Budgets = {6}
    MaxParallel = 1
    MaxItems = 6
    MaxCompactions = 0
INVARIANTS RepeatsAreOfThisTurn
