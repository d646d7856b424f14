\* Fees of 0 and 3 tenths on a deposit of 5: a leg of 0 and one that rounds.
CONSTANTS
    buyer = buyer
    seller = seller
    arbiter = arbiter
    vault = vault
    coin = coin
    Address = {buyer, seller, arbiter, vault}
    NoAddress = NoAddress
    Self = Self
    Asset = {coin}
    Buyer = {buyer}
    Seller = {seller}
    Arbiter = {arbiter}
    Keeper = {vault}
    Treasury = {vault}
    Outlet = {vault}
    Rejecting = {seller}
    MaxEscrows = 2
    Amount = {5}
    Deadline = {1}
    MaxTime = 1
    MAX_FEE_BPS = 3
    FEE_DENOMINATOR = 10
    Bps = {0, 3}
    Endowment <- MCEndowment
SPECIFICATION FairSpec
INVARIANT Solvent
PROPERTIES HonoursDeals EventuallyResolved EventuallyPaid
CHECK_DEADLOCK FALSE
