\* A subscriber that only signs two grants and two intents, on two plans to mistake
\* for one another, whose periods change under a running subscription.
SPECIFICATION Spec
CONSTANTS
    Owner = {alice}
    Counterfactual = {alice}
    NoAddress = NoAddress
    Self = Self
    Plan = {pro, max}
    Price = {1}
    Period = {1, 2}
    Cap = {1}
    Expiry = {1}
    Threshold = {1}
    Outages = {"funds"}
    MaxSubs = 2
    MaxIntents = 2
    MaxNonce = 2
    MaxGrants = 2
    MaxTime = 1
INVARIANTS AsIntended
PROPERTIES HonoursMandates
SYMMETRY Plans
CHECK_DEADLOCK FALSE
