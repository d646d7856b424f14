\* Two subscriptions of one subscriber on one session whose budget covers two cheap
\* charges, and prices that move between them; the clock passes the session's expiry.
SPECIFICATION Spec
CONSTANTS
    Owner = {alice}
    Counterfactual = {}
    NoAddress = NoAddress
    Self = Self
    Plan = {pro}
    Price = {1, 2}
    Period = {1}
    Cap = {2}
    Expiry = {2}
    Threshold = {2}
    Outages = {"funds", "quote", "router"}
    MaxSubs = 2
    MaxIntents = 0
    MaxNonce = 1
    MaxGrants = 0
    MaxTime = 3
PROPERTIES HonoursMandates BlamelessNotDunned
CHECK_DEADLOCK FALSE
