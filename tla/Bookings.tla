------------------------------- MODULE Bookings -------------------------------
(***************************************************************************)
(* Access0x1Bookings: a deposit holds a slot of a merchant's calendar until *)
(* the booking is completed, cancelled, expired or marked a no-show.  What  *)
(* the merchant keeps then goes through the router, the rest goes back to   *)
(* the payer, by push or, when the push fails, by a queue.                  *)
(*                                                                          *)
(* Every function that moves money takes the reentrancy lock and is a step  *)
(* of its own.  USD amounts are in units of which DOLLAR make a dollar,     *)
(* token amounts in units of which UNIT make a token.                       *)
(***************************************************************************)
EXTENDS Bank, FiniteSets, Functions

CONSTANTS
    Address, NoAddress, Self,
    Token,
    Payer, MerchantOwner, Relayer,   \* the accounts in each role
    Rail,            \* all those the router splits a payment among
    Merchant, Slot, ClientNonce,
    Deposit, Policy, Hold, SlotTime, \* the arguments of reserve
    Price,           \* USD a token may be worth
    MIN_HOLD_SECS, DOLLAR, UNIT,
    MaxReservations, \* bound: reservations in a behaviour
    Cap, Expiry, MaxNonce,           \* of the sessions that payers open
    MaxTime,         \* bound: the last block time looked at
    Endowment

ReservationId == 1..MaxReservations
Holder == Address \cup {Self}

ASSUME BookingsAssumption ==
    /\ IsFiniteSet(Address)
    /\ Payer \cup MerchantOwner \cup Relayer \cup {Rail} \subseteq Address
    /\ NoAddress \notin Address
    /\ Self \notin Address
    /\ MaxReservations \in Nat
    /\ Deposit \subseteq Nat \ {0}
    /\ Policy \subseteq [cancelWindowSecs : Nat, lateFeeUsd8 : Nat, noShowFeeUsd8 : Nat]
    /\ Hold \subseteq Nat
    /\ SlotTime \subseteq Nat
    /\ Price \subseteq Nat \ {0}
    /\ DOLLAR \in Nat \ {0} /\ UNIT \in Nat \ {0}
    /\ Endowment \in Balances(Token, Holder)
    /\ \A token \in Token : Endowment[token][Self] = 0

VARIABLES
    reservations,      \* id -> the record; slotKey and clientNonce are kept in it
    occupant,          \* <<merchant, slot>> -> the id that occupies it, 0 if none
    escrowedOf,        \* token -> what the live reservations have in escrow
    refundRescue,      \* account -> token -> refunds queued for it
    approvedCancelRelayer,             \* the <<payer, relayer>> approved
    nonceUsed,         \* the <<merchant, client nonce>> consumed
    nextReservationId,
    actor,             \* history: id -> who made its last transition
    bank,              \* balances of every token
    merchantOwner,     \* the router's: merchant -> owner, NoAddress if unregistered
    price,             \* the router's: token -> USD price, 0 if it cannot be read
    sessions, nonces, grants, now      \* of SessionGrant

S == INSTANCE SessionGrant WITH
    Owner <- Payer, Delegate <- Relayer, Counterfactual <- {}, Spending <- {},
    MaxGrants <- 0, MaxDepth <- 0, frames <- << >>

grantVars == <<sessions, nonces, grants, now>>
router == <<merchantOwner, price>>
book == <<reservations, occupant, nonceUsed, nextReservationId, actor>>
money == <<escrowedOf, refundRescue, bank>>
vars == <<book, money, approvedCancelRelayer, router, grantVars>>

None == [status |-> "NONE"]

Init ==
    /\ reservations = [id \in ReservationId |-> None]
    /\ occupant = [place \in Merchant \X Slot |-> 0]
    /\ escrowedOf = [token \in Token |-> 0]
    /\ refundRescue = [a \in Address |-> [token \in Token |-> 0]]
    /\ approvedCancelRelayer = {}
    /\ nonceUsed = {}
    /\ nextReservationId = 1
    /\ actor = [id \in ReservationId |-> NoAddress]
    /\ bank = Endowment
    /\ merchantOwner = [m \in Merchant |-> NoAddress]
    /\ price = [token \in Token |-> 0]
    /\ S!Init

-----------------------------------------------------------------------------
(* Prices. *)

CeilDiv(a, b) == (a + b - 1) \div b

Least(a, b) == IF a <= b THEN a ELSE b

\* router.quote at a price that can be read: rounded up.
Quote(p, usd) == CeilDiv(usd * UNIT, p)

\* _tokenToUsd8: the USD value whose quote is the most that amount covers.
ToUsd(p, amount) == (amount * DOLLAR) \div Quote(p, DOLLAR)

\* Mutant: the fee is not clamped to the escrow.
Unclamped(p, usd, escrow) == IF usd = 0 \/ p = 0 THEN 0 ELSE Quote(p, usd)

\* _feeToken, and the target of _settleThroughRouter: quoted now, at most the
\* escrow, nothing when there is no price.
Target(p, usd, escrow) ==
    IF usd = 0 \/ p = 0 THEN 0 ELSE Least(Quote(p, usd), escrow)

\* _routeFeeThroughRouter: what payToken pulls of up to amount, which is what is
\* approved; nothing if the router does not take it (paused, the merchant
\* inactive, a leg that fails).
Pulled(p, amount, taken) ==
    LET usd == ToUsd(p, amount)
    IN  IF taken /\ amount # 0 /\ p # 0 /\ usd # 0 /\ Quote(p, usd) <= amount
        THEN Quote(p, usd)
        ELSE 0

-----------------------------------------------------------------------------
(* The life of a reservation. *)

Live(id) == reservations[id].status \in {"HELD", "CONFIRMED"}

PlaceOf(r) == <<r.merchantId, r.slotKey>>

\* A hold is too short under MIN_HOLD_SECS and a slot time of 0 is refused; a
\* token that skims the pull reverts.
Reserve(payer, m, slot, token, depositUsd, policy, hold, slotTime, nonce) ==
    LET id == nextReservationId
        amount == Quote(price[token], depositUsd)
    IN  /\ id <= MaxReservations
        /\ hold >= MIN_HOLD_SECS
        /\ slotTime # 0
        /\ merchantOwner[m] # NoAddress
        /\ <<m, nonce>> \notin nonceUsed
        /\ occupant[<<m, slot>>] = 0
        /\ price[token] # 0
        /\ Affords(bank, token, payer, amount)
        /\ reservations' = [reservations EXCEPT ![id] =
               [merchantId |-> m, payer |-> payer, token |-> token,
                escrowAmount |-> amount, depositUsd8 |-> depositUsd,
                holdExpiresAt |-> now + hold, slotTimestamp |-> slotTime,
                policy |-> policy, slotKey |-> slot, clientNonce |-> nonce,
                status |-> "HELD"]]
        /\ nextReservationId' = id + 1
        /\ occupant' = [occupant EXCEPT ![<<m, slot>>] = id]
        /\ nonceUsed' = nonceUsed \cup {<<m, nonce>>}
        /\ actor' = [actor EXCEPT ![id] = payer]
        /\ escrowedOf' = [escrowedOf EXCEPT ![token] = escrowedOf[token] + amount]
        /\ bank' = Moved(bank, token, payer, Self, amount)
        /\ UNCHANGED <<refundRescue, approvedCancelRelayer, router, grantVars>>

Confirm(id, caller) ==
    /\ reservations[id].status = "HELD"
    /\ caller = merchantOwner[reservations[id].merchantId]
    /\ reservations' = [reservations EXCEPT ![id].status = "CONFIRMED"]
    /\ actor' = [actor EXCEPT ![id] = caller]
    /\ UNCHANGED <<occupant, nonceUsed, nextReservationId, money,
                   approvedCancelRelayer, router, grantVars>>

\* Mutant: the slot of a closed reservation is not freed.
KeepOccupied(r, id) == occupant

\* _vacate: the slot is freed if the reservation still occupies it.
Vacated(r, id) ==
    IF occupant[PlaceOf(r)] = id THEN [occupant EXCEPT ![PlaceOf(r)] = 0] ELSE occupant

\* Mutant: a refund that fails is not queued.
PushOrDrop(to, token, n, paid) ==
    \/ bank' = paid /\ UNCHANGED refundRescue
    \/ /\ bank' = Moved(paid, token, Self, to, n)
       /\ UNCHANGED refundRescue

\* _payoutOrQueue, on the balances after the router's pull.
PayoutOrQueue(to, token, n, paid) ==
    \/ n = 0 /\ bank' = paid /\ UNCHANGED refundRescue
    \/ /\ n > 0
       /\ bank' = paid
       /\ refundRescue' = [refundRescue EXCEPT ![to] =
              [refundRescue[to] EXCEPT ![token] = refundRescue[to][token] + n]]
    \/ /\ n > 0
       /\ Affords(paid, token, Self, n)
       /\ bank' = Moved(paid, token, Self, to, n)
       /\ UNCHANGED refundRescue

\* Every way a reservation ends: the slot and the escrow are released, up to
\* target of the escrow is routed and the rest refunded.
Close(id, caller, status, target, taken) ==
    LET r == reservations[id]
        pulled == Pulled(price[r.token], target, taken)
    IN  /\ reservations' = [reservations EXCEPT ![id].status = status]
        /\ actor' = [actor EXCEPT ![id] = caller]
        /\ occupant' = Vacated(r, id)
        /\ escrowedOf' = [escrowedOf EXCEPT ![r.token] =
               escrowedOf[r.token] - r.escrowAmount]
        /\ PayoutOrQueue(r.payer, r.token, r.escrowAmount - pulled,
               Moved(bank, r.token, Self, Rail, pulled))
        /\ UNCHANGED <<nonceUsed, nextReservationId, approvedCancelRelayer, router,
                       grantVars>>

\* What usd comes to now, of the reservation's escrow.
Due(id, usd) ==
    LET r == reservations[id] IN Target(price[r.token], usd, r.escrowAmount)

Complete(id, caller, taken) ==
    /\ reservations[id].status = "CONFIRMED"
    /\ caller = merchantOwner[reservations[id].merchantId]
    /\ Close(id, caller, "COMPLETED", Due(id, reservations[id].depositUsd8), taken)

MarkNoShow(id, caller, taken) ==
    /\ reservations[id].status = "CONFIRMED"
    /\ caller = merchantOwner[reservations[id].merchantId]
    /\ Close(id, caller, "NO_SHOW", Due(id, reservations[id].policy.noShowFeeUsd8), taken)

Parties(id) == {reservations[id].payer, merchantOwner[reservations[id].merchantId]}

ExpireHold(id, caller) ==
    /\ reservations[id].status = "HELD"
    /\ caller \in Parties(id)
    /\ now >= reservations[id].holdExpiresAt
    /\ Close(id, caller, "EXPIRED", 0, FALSE)

\* _windowStart: where cancelling begins to be late.
WindowStart(r) ==
    IF r.slotTimestamp > r.policy.cancelWindowSecs
    THEN r.slotTimestamp - r.policy.cancelWindowSecs
    ELSE 0

Late(id) == now >= WindowStart(reservations[id])

\* _cancel: free before the window; within it for a late fee, or not at all.
CancelAs(id, caller, taken) ==
    LET r == reservations[id]
    IN  /\ Live(id)
        /\ Late(id) => r.policy.lateFeeUsd8 # 0
        /\ Close(id, caller, "CANCELLED",
                 IF Late(id) THEN Due(id, r.policy.lateFeeUsd8) ELSE 0, taken)

Cancel(id, caller, taken) ==
    /\ Live(id)
    /\ caller \in Parties(id)
    /\ CancelAs(id, caller, taken)

\* A session of the payer for the relayer, at a nonce the relayer names.
LiveSession(payer, relayer) ==
    \E nonce \in S!Nonce :
        LET s == sessions[[owner |-> payer, delegate |-> relayer, nonce |-> nonce]]
        IN  s.delegate = relayer /\ ~s.revoked /\ now <= s.expiry

\* Mutant: any live session will do, the payer's approval is not asked for.
CancelOnSession(id, relayer, taken) ==
    /\ Live(id)
    /\ LiveSession(reservations[id].payer, relayer)
    /\ CancelAs(id, relayer, taken)

CancelWithSession(id, relayer, taken) ==
    /\ Live(id)
    /\ <<reservations[id].payer, relayer>> \in approvedCancelRelayer
    /\ LiveSession(reservations[id].payer, relayer)
    /\ CancelAs(id, relayer, taken)

SetCancelRelayer(payer, relayer, approved) ==
    /\ approvedCancelRelayer' =
           IF approved
           THEN approvedCancelRelayer \cup {<<payer, relayer>>}
           ELSE approvedCancelRelayer \ {<<payer, relayer>>}
    /\ UNCHANGED <<book, money, router, grantVars>>

ClaimRefund(caller, token) ==
    LET amount == refundRescue[caller][token]
    IN  /\ amount # 0
        /\ Affords(bank, token, Self, amount)
        /\ refundRescue' = [refundRescue EXCEPT ![caller] =
               [refundRescue[caller] EXCEPT ![token] = 0]]
        /\ bank' = Moved(bank, token, Self, caller, amount)
        /\ UNCHANGED <<book, escrowedOf, approvedCancelRelayer, router, grantVars>>

-----------------------------------------------------------------------------
(* The surroundings. *)

\* A merchant is registered or handed over; a price moves, comes or goes.
RouterChanges ==
    /\ \/ \E m \in Merchant, owner \in MerchantOwner :
             /\ merchantOwner' = [merchantOwner EXCEPT ![m] = owner]
             /\ UNCHANGED price
       \/ \E token \in Token, p \in Price \cup {0} :
             /\ price' = [price EXCEPT ![token] = p]
             /\ UNCHANGED merchantOwner
    /\ UNCHANGED <<book, money, approvedCancelRelayer, grantVars>>

\* Payers open and revoke sessions, and time passes.
Sessions ==
    /\ \/ \E payer \in Payer, relayer \in Relayer, cap \in Cap, expiry \in Expiry :
             S!OpenSession(payer, relayer, cap, expiry)
       \/ \E id \in S!SessionId : S!Revoke(id, id.owner) /\ UNCHANGED <<nonces, grants, now>>
       \/ S!Tick
    /\ UNCHANGED <<book, money, approvedCancelRelayer, router>>

Next ==
    \/ \E payer \in Payer, m \in Merchant, slot \in Slot, token \in Token,
          usd \in Deposit, policy \in Policy, hold \in Hold, slotTime \in SlotTime,
          nonce \in ClientNonce :
           Reserve(payer, m, slot, token, usd, policy, hold, slotTime, nonce)
    \/ \E id \in ReservationId :
          \/ \E caller \in Address :
                \/ Confirm(id, caller)
                \/ ExpireHold(id, caller)
                \/ \E taken \in BOOLEAN :
                      \/ Complete(id, caller, taken)
                      \/ MarkNoShow(id, caller, taken)
                      \/ Cancel(id, caller, taken)
          \/ \E relayer \in Relayer, taken \in BOOLEAN : CancelWithSession(id, relayer, taken)
    \/ \E payer \in Payer, relayer \in Relayer, approved \in BOOLEAN :
          SetCancelRelayer(payer, relayer, approved)
    \/ \E caller \in Address, token \in Token : ClaimRefund(caller, token)
    \/ RouterChanges
    \/ Sessions

Spec == Init /\ [][Next]_vars

-----------------------------------------------------------------------------
Status == {"HELD", "CONFIRMED", "COMPLETED", "EXPIRED", "CANCELLED", "NO_SHOW"}

Reservation ==
    [merchantId : Merchant, payer : Payer, token : Token, escrowAmount : Nat \ {0},
     depositUsd8 : Nat \ {0}, holdExpiresAt : Nat, slotTimestamp : Nat \ {0},
     policy : Policy, slotKey : Slot, clientNonce : ClientNonce, status : Status]

TypeOK ==
    /\ S!TypeOK
    /\ reservations \in [ReservationId -> {None} \cup Reservation]
    /\ occupant \in [Merchant \X Slot -> 0..MaxReservations]
    /\ escrowedOf \in [Token -> Nat]
    /\ refundRescue \in [Address -> [Token -> Nat]]
    /\ approvedCancelRelayer \subseteq Payer \X Relayer
    /\ nonceUsed \subseteq Merchant \X ClientNonce
    /\ nextReservationId \in 1..(MaxReservations + 1)
    /\ actor \in [ReservationId -> Address \cup {NoAddress}]
    /\ bank \in Balances(Token, Holder)
    /\ merchantOwner \in [Merchant -> Address \cup {NoAddress}]
    /\ price \in [Token -> Nat]

\* The escrow ledger is the sum of the live deposits, and the contract holds of
\* every token exactly the ledger and the queued refunds, whatever the price
\* did between reserve and resolution and whichever leg failed.
Solvent ==
    \A token \in Token :
        /\ escrowedOf[token] =
               SumFunction([id \in ReservationId |->
                   IF Live(id) /\ reservations[id].token = token
                   THEN reservations[id].escrowAmount ELSE 0])
        /\ bank[token][Self] =
               escrowedOf[token] + SumFunction([a \in Address |-> refundRescue[a][token]])

\* The calendar tells the truth: a place is occupied by the one live reservation
\* for it, and free when there is none; no two live reservations share a place
\* and none that is over blocks one.
CalendarTrue ==
    \A place \in Merchant \X Slot :
        LET here == {id \in ReservationId : Live(id) /\ PlaceOf(reservations[id]) = place}
        IN  here = IF occupant[place] = 0 THEN {} ELSE {occupant[place]}

\* No one can hold a refund up: whatever the oracle, the router, the merchant or
\* the payer's own account do, a payer may cancel before the window, and in it
\* for the late fee, may expire a hold that has lapsed, and can draw its queue;
\* and the merchant can always complete a booking or mark a no-show.
RefundNeverBlocked ==
    /\ \A id \in ReservationId : Live(id) =>
          LET r == reservations[id]
          IN  /\ ~Late(id) \/ r.policy.lateFeeUsd8 # 0 =>
                    \A taken \in BOOLEAN : ENABLED Cancel(id, r.payer, taken)
              /\ r.status = "HELD" /\ now >= r.holdExpiresAt =>
                    ENABLED ExpireHold(id, r.payer)
              /\ r.status = "CONFIRMED" =>
                    \A taken \in BOOLEAN :
                        /\ ENABLED Complete(id, merchantOwner[r.merchantId], taken)
                        /\ ENABLED MarkNoShow(id, merchantOwner[r.merchantId], taken)
    /\ \A a \in Address, token \in Token :
          refundRescue[a][token] # 0 => ENABLED ClaimRefund(a, token)

\* The contract implements the ideal bookings: queued refunds are their payee's.
Ideal == INSTANCE IdealBookings WITH
    Party <- Address, Deal <- ReservationId,
    deal <- reservations, by <- actor,
    wealth <- [token \in Token |-> [a \in Address |->
                  bank[token][a] + refundRescue[a][token]]],
    host <- merchantOwner, rate <- price, clock <- now,
    agents <- {pair \in approvedCancelRelayer : LiveSession(pair[1], pair[2])}

HonoursBookings == Ideal!Spec

=============================================================================
