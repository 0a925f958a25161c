\* One process over one midnight.
SPECIFICATION BudgetSpec
CONSTANTS
    Routers = {r1}
    Limit = 2
    MaxTokens = 2
    MaxCalls = 3
    MaxStarts = 1
    MaxDay = 1
    MaxUnseen = 0
PROPERTIES RefusedWhenSpent
CHECK_DEADLOCK FALSE
