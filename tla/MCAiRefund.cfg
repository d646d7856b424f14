\* Two calls of 1 from a budget of 2: one settles, and its handler throws.
SPECIFICATION AiSpec
CONSTANTS
    AiCall = {c1, c2}
    AiSession = {"s"}
    CallPrice = {1}
    BudgetCap = {2}
    MaxOpenings = 1
INVARIANT SettledNotRefunded
CHECK_DEADLOCK FALSE
