SPECIFICATION Spec
CONSTANTS
    Owner = {alice}
    Counterfactual = {}
    NoAddress = NoAddress
    Self = Self
    Plan = {pro}
    Price = {1}
    Period = {1}
    Cap = {3}
    Expiry = {3}
    Threshold = {2}
    Outages = {"funds", "quote", "router"}
    MaxSubs = 1
    MaxIntents = 0
    MaxNonce = 1
    MaxGrants = 0
    MaxTime = 4
INVARIANTS DunnedWhenDeclined
CHECK_DEADLOCK FALSE
