\* Three calls of a dollar, of which one fits in a day; calls of 1 and 2 from a budget of
\* 2; requests, and handlers of the page, have the instances' names and metered calls the
\* calls', so that one symmetry permutes them; one allowance from elsewhere, there when the
\* page loads or approved meanwhile.
SPECIFICATION MCSpec
CONSTANTS
    Call = {c1, c2, c3}
    Instance = {i1, i2}
    NoInstance = NoInstance
    Amount = {1}
    CAP = 1
    MaxDay = 2
    MaxFaults = 1
    AiCall = {c1, c2, c3}
    AiSession = {"s"}
    CallPrice = {1, 2}
    BudgetCap = {2}
    MaxOpenings = 2
    Request = {i1, i2}
    MaxTrialCalls = 3
    Token = {usdc, weth}
    NoToken = NoToken
    Task = {i1, i2}
    Price = {1, 2}
    Leftover = {2}
    MaxSwitches = 1
    MaxElsewhere = 1
SYMMETRY Alike
INVARIANTS BudgetHolds RowIsExact InstanceCeiling BudgetTracksCalls OneRail ChargedAsQuoted
CHECK_DEADLOCK FALSE
