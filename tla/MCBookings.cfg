\* Deposits of 2 dollars, at prices that quote to 8 or, rounded up, to 3.  Sessions are
\* looked at before, at and after their expiry.
SPECIFICATION MCSpec
CONSTANTS
    alice = alice
    relay = relay
    host = host
    rail = rail
    pay = pay
    Address = {alice, relay, host, rail}
    NoAddress = NoAddress
    Self = Self
    Token = {pay}
    Payer = {alice}
    MerchantOwner = {host}
    Relayer = {relay}
    Rail = rail
    Merchant = {m}
    Slot = {s}
    ClientNonce = {n1, n2}
    Deposit = {4}
    Policy <- MCPolicy
    Hold = {1}
    SlotTime = {2}
    Price = {1, 3}
    MIN_HOLD_SECS = 1
    DOLLAR = 2
    UNIT = 2
    MaxReservations = 2
    Cap = {1}
    Expiry = {1}
    MaxNonce = 1
    MaxTime = 2
    Endowment <- MCEndowment
SYMMETRY Nonces
INVARIANTS Solvent CalendarTrue RefundNeverBlocked OneSessionPerGrant RemainingIsSpendable
PROPERTIES HonoursBookings
CHECK_DEADLOCK FALSE
