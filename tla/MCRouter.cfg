\* One merchant run by shop, whose legs go to till or to shop; the buyer can pay
\* once in the native coin and once in usd.  A price of 6 makes both fee legs round;
\* a fee argument of 4 is above the cap and must never be accepted.
CONSTANTS
    shop = shop
    till = till
    buyer = buyer
    usd = usd
    Address = {shop, till, buyer}
    Operator = {shop}
    Payee = {till}
    Buyer = {buyer}
    NoAddress = NoAddress
    Self = Self
    Lanes = Lanes
    LanesOption = {NoAddress, Lanes}
    Native = Native
    Token = {usd}
    MaxMerchants = 1
    MAX_FEE_BPS = 3
    FEE_DENOMINATOR = 10
    Bps = {0, 2, 4}
    Gross = {6}
    Excess = {0, 1}
    Endowment <- MCEndowment
    SourceLane = {"ahead", "behind"}
    None = None
    Lead <- MCLead
    Answer = {1, 9}
    Band = {1}
    Scale = {8}
    Decimals = 8
    MaxSourceAge = 1
    MaxArrivalAge = 1
    Window = 1
    Grace = 0
    Start = 2
    MaxTime = 3
    MaxMessages = 2
    ClaimId = {"c1", "c2"}
    Tenant = {"a"}
    Creditor = {"x"}
    Nobody = Nobody
    Coin = "eth"
    Erc20 = {"usd"}
    Due = {1}
    Surcharge = {0, 1}
    MaxStray = 1
    Card = {"card"}
    Cardholder = {shop, buyer}
    RedemptionId = {"r1", "r2"}
    Unused = NoAddress
    Usd = {1, 2}
    MaxIssued = 3
SPECIFICATION MCSpec
INVARIANTS ClaimsHonoured RescueBacked TokenCustody FeeWithinCap RoutingPinned QuoteIsFresh CardsBacked
PROPERTIES PaymentsAreAtomic PriceAdvances
CHECK_DEADLOCK FALSE
