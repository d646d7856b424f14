\* One router credits one merchant in two assets; heir receives receipts, may be
\* an operator and may hold allowances.
CONSTANTS
    shop = shop
    heir = heir
    router = router
    usd = usd
    scam = scam
    till = till
    buyer = buyer
    Lanes = Lanes
    Native = Native
    Account = {shop, heir}
    NoAccount = NoAccount
    Caller = {router}
    Self = Self
    LaneToken = {usd, scam}
    Recipient = {shop}
    Beneficiary = {shop, heir}
    Granter = {shop}
    Spender = {heir}
    Amount = {1}
    Unlimited = Unlimited
    Deposit <- LanesDeposit
SPECIFICATION MCSpec
INVARIANTS Redeemable LanesBacked
PROPERTY RailIsAtomic
CHECK_DEADLOCK FALSE
