-------------------------------- MODULE Escrow --------------------------------
(***************************************************************************)
(* Access0x1Escrow: a deposit per id, released to the seller (by the buyer, *)
(* by anyone holding the buyer's signature, by anyone after the deadline, or *)
(* by the arbiter) or refunded to the buyer (by the seller or the arbiter). *)
(*                                                                          *)
(* Every function that changes state takes the reentrancy lock and calls    *)
(* out after its own effects, so no other step of the contract falls within *)
(* one: a function is one step here, with the outcome of each push chosen.  *)
(***************************************************************************)
EXTENDS Bank, FiniteSets, Functions

CONSTANTS
    Address, NoAddress, Self,
    Asset,           \* the native coin and the ERC-20s
    Buyer, Seller, Arbiter, Keeper,     \* the accounts in each role
    Treasury,        \* those the platform's fee may go to
    Outlet,          \* the addresses passed to withdrawTo
    Rejecting,       \* accounts every push to which fails
    MaxEscrows,      \* bound: escrows opened in a behaviour
    Amount, Deadline,                   \* the arguments of open
    MaxTime,         \* bound: the last block time looked at
    MAX_FEE_BPS, FEE_DENOMINATOR, Bps,
    Endowment

EscrowId == 1..MaxEscrows
Holder == Address \cup {Self}

ASSUME EscrowAssumption ==
    /\ IsFiniteSet(Address)
    /\ Buyer \cup Seller \cup Arbiter \cup Keeper \cup Treasury \cup Outlet \subseteq Address
    /\ NoAddress \notin Address
    /\ Self \notin Address
    /\ MaxEscrows \in Nat
    /\ Amount \subseteq Nat \ {0}
    /\ Deadline \subseteq Nat
    /\ MaxTime \in Nat
    /\ FEE_DENOMINATOR \in Nat \ {0}
    /\ MAX_FEE_BPS \in 0..FEE_DENOMINATOR
    /\ Bps \subseteq 0..MAX_FEE_BPS
    /\ Endowment \in Balances(Asset, Holder)
    /\ \A asset \in Asset : Endowment[asset][Self] = 0

VARIABLES
    escrows,           \* id -> buyer, seller, asset, amount, arbiter, deadline, state
    nextEscrowId,
    resolver,          \* history: id -> the caller its closing event names
    withdrawable,      \* account -> asset -> payouts queued for it
    bank,              \* balances of every asset
    platformFeeBps,    \* the router's, read when an escrow is released
    platformTreasury,  \* the router's, read when an escrow is released
    signed,            \* <<id, account>>: ReleaseAuthorizations signed off-chain
    now                \* block.timestamp

router == <<platformFeeBps, platformTreasury>>
deals == <<escrows, nextEscrowId, resolver>>
vars == <<deals, withdrawable, bank, router, signed, now>>

None == [state |-> "none"]

Terms ==
    [buyer : Address, seller : Address, asset : Asset, amount : Nat \ {0},
     arbiter : Address \cup {NoAddress}, deadline : Nat,
     state : {"open", "released", "refunded"}]

Init ==
    /\ escrows = [id \in EscrowId |-> None]
    /\ nextEscrowId = 1
    /\ resolver = [id \in EscrowId |-> NoAddress]
    /\ withdrawable = [a \in Address |-> [asset \in Asset |-> 0]]
    /\ bank = Endowment
    /\ platformFeeBps \in Bps
    /\ platformTreasury \in Treasury
    /\ signed = {}
    /\ now = 0

-----------------------------------------------------------------------------
(* Payouts. *)

\* The contract's money: the balances and the queue of payouts that failed.
Purse == [bank : Balances(Asset, Holder), queue : [Address -> [Asset -> Nat]]]
purse == [bank |-> bank, queue |-> withdrawable]

\* Mutant: a push that fails reverts, nothing is queued.
PayoutOrRevert(p, to, asset, n) ==
    IF n = 0
    THEN {p}
    ELSE {q \in {[bank |-> Moved(p.bank, asset, Self, to, n), queue |-> p.queue]} :
             to \notin Rejecting /\ Affords(p.bank, asset, Self, n)}

\* _payoutOrQueue: the purses a payout of n may leave.  The push either moves
\* the money or fails, and then the payee is credited instead.
PayoutOrQueue(p, to, asset, n) ==
    IF n = 0
    THEN {p}
    ELSE {[bank |-> p.bank,
           queue |-> [p.queue EXCEPT ![to] =
                         [p.queue[to] EXCEPT ![asset] = p.queue[to][asset] + n]]]}
         \cup {q \in {[bank |-> Moved(p.bank, asset, Self, to, n), queue |-> p.queue]} :
                  to \notin Rejecting /\ Affords(p.bank, asset, Self, n)}

SettleTo(p) == bank' = p.bank /\ withdrawable' = p.queue

-----------------------------------------------------------------------------
(* The functions. *)

\* The merchant id is checked to exist and then only echoed; a token that skims
\* or a native value other than the amount reverts.
Open(buyer, seller, asset, amount, arbiter, deadline) ==
    /\ nextEscrowId <= MaxEscrows
    /\ deadline > now
    /\ Affords(bank, asset, buyer, amount)
    /\ escrows' = [escrows EXCEPT ![nextEscrowId] =
           [buyer |-> buyer, seller |-> seller, asset |-> asset, amount |-> amount,
            arbiter |-> arbiter, deadline |-> deadline, state |-> "open"]]
    /\ nextEscrowId' = nextEscrowId + 1
    /\ bank' = Moved(bank, asset, buyer, Self, amount)
    /\ UNCHANGED <<resolver, withdrawable, router, signed, now>>

IsOpen(id) == escrows[id].state = "open"

\* The platform's fee at the bps of the moment, rounded down.
Fee(amount) == Portion(amount, platformFeeBps, FEE_DENOMINATOR)

\* Mutant: the seller gets the gross and the platform its fee.
ReleaseGross(id, caller) ==
    LET e == escrows[id]
    IN  /\ escrows' = [escrows EXCEPT ![id].state = "released"]
        /\ resolver' = [resolver EXCEPT ![id] = caller]
        /\ \E p \in PayoutOrQueue(purse, platformTreasury, e.asset, Fee(e.amount)) :
              \E q \in PayoutOrQueue(p, e.seller, e.asset, e.amount) : SettleTo(q)
        /\ UNCHANGED <<nextEscrowId, router, signed, now>>

Release(id, caller) ==
    LET e == escrows[id]
        fee == Fee(e.amount)
    IN  /\ escrows' = [escrows EXCEPT ![id].state = "released"]
        /\ resolver' = [resolver EXCEPT ![id] = caller]
        /\ \E p \in PayoutOrQueue(purse, platformTreasury, e.asset, fee) :
              \E q \in PayoutOrQueue(p, e.seller, e.asset, e.amount - fee) : SettleTo(q)
        /\ UNCHANGED <<nextEscrowId, router, signed, now>>

Refund(id, caller) ==
    LET e == escrows[id]
    IN  /\ escrows' = [escrows EXCEPT ![id].state = "refunded"]
        /\ resolver' = [resolver EXCEPT ![id] = caller]
        /\ \E p \in PayoutOrQueue(purse, e.buyer, e.asset, e.amount) : SettleTo(p)
        /\ UNCHANGED <<nextEscrowId, router, signed, now>>

Confirm(id, caller) ==
    /\ IsOpen(id)
    /\ caller = escrows[id].buyer
    /\ Release(id, caller)

\* Mutant: the deadline is not checked.
ClaimAnyTime(id, caller) == IsOpen(id) /\ Release(id, caller)

ClaimAfterTimeout(id, caller) ==
    /\ IsOpen(id)
    /\ now >= escrows[id].deadline
    /\ Release(id, caller)

ReleaseWithSig(id, caller) ==
    /\ IsOpen(id)
    /\ <<id, escrows[id].buyer>> \in signed
    /\ Release(id, caller)

Cancel(id, caller) ==
    /\ IsOpen(id)
    /\ caller = escrows[id].seller
    /\ Refund(id, caller)

\* An escrow opened without an arbiter has address(0), which calls nothing.
Arbitrate(id, caller) ==
    /\ IsOpen(id)
    /\ caller = escrows[id].arbiter
    /\ Release(id, caller) \/ Refund(id, caller)

\* Mutant: queued money only goes to the account it is queued for.
WithdrawToSelf(caller, asset, to) ==
    LET amount == withdrawable[caller][asset]
    IN  /\ amount > 0
        /\ caller \notin Rejecting
        /\ Affords(bank, asset, Self, amount)
        /\ withdrawable' = [withdrawable EXCEPT ![caller] =
               [withdrawable[caller] EXCEPT ![asset] = 0]]
        /\ bank' = Moved(bank, asset, Self, caller, amount)
        /\ UNCHANGED <<deals, router, signed, now>>

\* withdraw(asset) and withdrawTo(asset, to): the queue entry is zeroed and the
\* send must succeed.
WithdrawTo(caller, asset, to) ==
    LET amount == withdrawable[caller][asset]
    IN  /\ amount > 0
        /\ to \notin Rejecting
        /\ Affords(bank, asset, Self, amount)
        /\ withdrawable' = [withdrawable EXCEPT ![caller] =
               [withdrawable[caller] EXCEPT ![asset] = 0]]
        /\ bank' = Moved(bank, asset, Self, to, amount)
        /\ UNCHANGED <<deals, router, signed, now>>

-----------------------------------------------------------------------------
(* The surroundings. *)

\* The router's owner moves the fee or the treasury.
RouterChanges ==
    /\ \/ platformFeeBps' \in Bps /\ UNCHANGED platformTreasury
       \/ platformTreasury' \in Treasury /\ UNCHANGED platformFeeBps
    /\ UNCHANGED <<deals, withdrawable, bank, signed, now>>

\* A signature over an id is good for ever, the id may not even be open yet.
Sign(id, account) ==
    /\ signed' = signed \cup {<<id, account>>}
    /\ UNCHANGED <<deals, withdrawable, bank, router, now>>

Tick ==
    /\ now < MaxTime
    /\ now' = now + 1
    /\ UNCHANGED <<deals, withdrawable, bank, router, signed>>

Caller == Buyer \cup Seller \cup Arbiter \cup Keeper

Resolve(id, caller) ==
    \/ Confirm(id, caller)
    \/ ClaimAfterTimeout(id, caller)
    \/ ReleaseWithSig(id, caller)
    \/ Cancel(id, caller)
    \/ Arbitrate(id, caller)

Next ==
    \/ \E buyer \in Buyer, seller \in Seller, asset \in Asset, amount \in Amount,
          arbiter \in Arbiter \cup {NoAddress}, deadline \in Deadline :
           Open(buyer, seller, asset, amount, arbiter, deadline)
    \/ \E id \in EscrowId, caller \in Caller : Resolve(id, caller)
    \/ \E caller \in Address, asset \in Asset : \E to \in Outlet \cup {caller} :
           WithdrawTo(caller, asset, to)
    \/ \E id \in EscrowId, account \in Buyer : Sign(id, account)
    \/ RouterChanges
    \/ Tick

Spec == Init /\ [][Next]_vars

\* Time passes; some keeper calls the permissionless timeout of each escrow it
\* can, and whoever has a queued payout asks for it.
Fairness ==
    /\ WF_vars(Tick)
    /\ \A id \in EscrowId, caller \in Keeper : WF_vars(ClaimAfterTimeout(id, caller))
    /\ \A a \in Address, asset \in Asset :
          WF_vars(\E to \in Outlet \cup {a} : WithdrawTo(a, asset, to))

FairSpec == Spec /\ Fairness

-----------------------------------------------------------------------------
TypeOK ==
    /\ escrows \in [EscrowId -> {None} \cup Terms]
    /\ nextEscrowId \in 1..(MaxEscrows + 1)
    /\ resolver \in [EscrowId -> Address \cup {NoAddress}]
    /\ withdrawable \in [Address -> [Asset -> Nat]]
    /\ bank \in Balances(Asset, Holder)
    /\ platformFeeBps \in 0..MAX_FEE_BPS
    /\ platformTreasury \in Address
    /\ signed \subseteq EscrowId \X Address
    /\ now \in Nat

\* The contract holds, of every asset, exactly the open deposits and the queued
\* payouts: nobody can be paid with another deal's money and nothing is lost
\* when a push fails, when the fee moves, or when a leg rounds to 0.
Solvent ==
    \A asset \in Asset :
        bank[asset][Self] =
            SumFunction([id \in EscrowId |->
                IF IsOpen(id) /\ escrows[id].asset = asset THEN escrows[id].amount ELSE 0])
          + SumFunction([a \in Address |-> withdrawable[a][asset]])

\* The escrow implements the ideal one: queued money counts as its payee's.
WealthOf(p) ==
    [asset \in Asset |-> [h \in Address |-> p.bank[asset][h] + p.queue[h][asset]]]

Wealth == WealthOf(purse)

Ideal == INSTANCE IdealEscrow WITH
    Holder <- Address, Deal <- EscrowId, pot <- escrows, wealth <- Wealth, clock <- now

HonoursDeals == Ideal!Spec

\* No deal is stuck: once its deadline passes every open escrow is resolved,
\* even if the seller's or the treasury's account rejects every push.
EventuallyResolved ==
    \A id \in EscrowId : IsOpen(id) ~> escrows[id].state \in {"released", "refunded"}

\* No payout is stuck: an account that rejects pushes can still draw its queue
\* to another address.
EventuallyPaid ==
    \A a \in Address, asset \in Asset :
        withdrawable[a][asset] > 0 ~> withdrawable[a][asset] = 0

=============================================================================
