\* Two instances and two calls, one restart or failed statement; an account that names
\* an agent, a human under each gate.
SPECIFICATION MCSpec
CONSTANTS
    Instance = {i1, i2}
    Key = {u1, u2, "agent1"}
    User = {u1, u2}
    Agent = {"agent1"}
    NoAgent = NoAgent
    Slot = {"g", "h", "a"}
    GateOf <- MCGateOf
    AgentOf <- MCAgentOf
    OpenMethod = {"onchain"}
    Call = {c1, c2}
    NoSlot = NoSlot
    NoUser = NoUser
    Absent = Absent
    Gone = Gone
    MaxWrites = 2
    MaxFaults = 1
    Run = {c1, c2}
    NoRun = NoRun
    Order = {"o1", "o2"}
    Absence = Absence
    Shop = Shop
SYMMETRY Alike
INVARIANTS OneProofOneProfile CasinoBacked ReceiptOfItsOrder EventNotMissed SortsByCreation
PROPERTY ExpiryFinal
CHECK_DEADLOCK FALSE
