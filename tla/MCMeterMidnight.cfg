\* Nothing fails: only a midnight between a reservation and its refund.
SPECIFICATION Spec
CONSTANTS
    Call = {c1, c2, c3}
    Instance = {i1, i2}
    NoInstance = NoInstance
    Amount = {1}
    CAP = 1
    MaxDay = 2
    MaxFaults = 0
SYMMETRY Alike
INVARIANT CapEnforcedGlobally
CHECK_DEADLOCK FALSE
