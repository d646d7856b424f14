------------------------------- MODULE Router -------------------------------
(***************************************************************************)
(* Access0x1Router: the merchant registry, the platform's settings and the  *)
(* settlement of a payment into its four legs (net, platform fee, merchant  *)
(* surcharge, refund of the excess).                                        *)
(*                                                                          *)
(* Every external call of a payment hands control to code the router does   *)
(* not own: a payee's receive function, a token's transfer hook, the lanes  *)
(* contract.  So a payment is a sequence of steps, one per external call,   *)
(* and between two of them any function without the reentrancy lock may     *)
(* run.  "call" is the frame of the payment in flight and "saved" is the    *)
(* storage at its entry, to which a revert returns.                         *)
(***************************************************************************)
EXTENDS Bank, FiniteSets, Functions

CONSTANTS
    Address,          \* accounts: people and contracts
    Operator,         \* those that register and run merchants
    Payee,            \* those named as payout, fee recipient or treasury
    Buyer,            \* those that pay
    NoAddress,        \* address(0)
    Self,             \* the router's own account
    Lanes,            \* the account of the PaymentLanes contract
    LanesOption,      \* what the owner may set as the lanes contract
    Native,           \* the chain's native coin (address(0) as an asset)
    Token,            \* the ERC-20s that may be allowlisted
    MaxMerchants,     \* bound: merchants registered in a behaviour
    MAX_FEE_BPS,
    FEE_DENOMINATOR,
    Bps,              \* the fee arguments callers pass
    Gross,            \* the amounts quote() may return: positive, rounded up
    Excess,           \* what a native buyer may send above the quote
    Endowment         \* the balances the accounts start with

Asset == Token \cup {Native}
Holder == Address \cup {Self, Lanes}
MerchantId == 1..MaxMerchants
MaybeAddress == Address \cup {NoAddress}
MaybePayee == Payee \cup {NoAddress}

ASSUME RouterAssumption ==
    /\ IsFiniteSet(Address)
    /\ Operator \cup Payee \cup Buyer \subseteq Address
    /\ NoAddress \notin Address
    /\ LanesOption \subseteq {NoAddress, Lanes}
    /\ {Self, Lanes} \cap Address = {}
    /\ Self # Lanes
    /\ Self # NoAddress
    /\ Lanes # NoAddress
    /\ Native \notin Token
    /\ MaxMerchants \in Nat
    /\ FEE_DENOMINATOR \in Nat \ {0}
    /\ MAX_FEE_BPS \in 0..FEE_DENOMINATOR
    /\ Bps \subseteq Nat
    /\ Gross \subseteq Nat \ {0}
    /\ Excess \subseteq Nat
    /\ Endowment \in Balances(Asset, Holder)
    /\ \A asset \in Asset : Endowment[asset][Self] = 0

VARIABLES
    merchants,             \* id -> payout, owner, feeRecipient, feeBps, active
    pendingMerchantOwner,  \* id -> the nominated next owner
    nextMerchantId,
    platformTreasury,
    platformFeeBps,
    tokenAllowed,
    paused,
    paymentLanes,          \* NoAddress or Lanes
    rescue,                \* native coin queued for a payee whose push failed
    bank,                  \* balances of every asset
    receipt,               \* the last PaymentReceived event
    call,                  \* the frame of the locked function in flight
    saved                  \* the storage when that function was entered

settings == <<platformTreasury, platformFeeBps, tokenAllowed, paused, paymentLanes>>
registry == <<merchants, pendingMerchantOwner, nextMerchantId>>
vars == <<registry, settings, rescue, bank, receipt, call, saved>>

Merchant ==
    [payout : MaybeAddress, owner : MaybeAddress, feeRecipient : MaybeAddress,
     feeBps : Nat, active : BOOLEAN]

Unregistered ==
    [payout |-> NoAddress, owner |-> NoAddress, feeRecipient |-> NoAddress,
     feeBps |-> 0, active |-> FALSE]

Receipt ==
    [merchantId : MerchantId, gross : Nat, fee : Nat, net : Nat]

\* A frame remembers what the function read before its first external call
\* and the amount of each leg it has not paid yet.
Idle ==
    [pc |-> "idle", asset |-> Native, merchantId |-> 0, payer |-> NoAddress,
     payout |-> NoAddress, feeRecipient |-> NoAddress, feeBps |-> 0, gross |-> 0,
     net |-> 0, platformFee |-> 0, merchantFee |-> 0, refund |-> 0]

Frame ==
    [pc : {"idle", "pull", "net", "credit", "platform", "merchant", "refund"},
     asset : Asset, merchantId : {0} \cup MerchantId, payer : MaybeAddress,
     payout : MaybeAddress, feeRecipient : MaybeAddress, feeBps : Nat, gross : Nat,
     net : Nat, platformFee : Nat, merchantFee : Nat, refund : Nat]

Storage ==
    [merchants : [MerchantId -> Merchant],
     pendingMerchantOwner : [MerchantId -> MaybeAddress],
     nextMerchantId : 1..(MaxMerchants + 1),
     platformTreasury : Address, platformFeeBps : 0..MAX_FEE_BPS,
     tokenAllowed : SUBSET Token, paused : BOOLEAN,
     paymentLanes : {NoAddress, Lanes}, rescue : [Address -> Nat],
     bank : Balances(Asset, Holder), receipt : {<<>>} \cup Receipt]

storage ==
    [merchants |-> merchants, pendingMerchantOwner |-> pendingMerchantOwner,
     nextMerchantId |-> nextMerchantId, platformTreasury |-> platformTreasury,
     platformFeeBps |-> platformFeeBps, tokenAllowed |-> tokenAllowed,
     paused |-> paused, paymentLanes |-> paymentLanes, rescue |-> rescue,
     bank |-> bank, receipt |-> receipt]

Init ==
    /\ merchants = [id \in MerchantId |-> Unregistered]
    /\ pendingMerchantOwner = [id \in MerchantId |-> NoAddress]
    /\ nextMerchantId = 1
    /\ platformTreasury \in Payee
    /\ platformFeeBps \in Bps \cap 0..MAX_FEE_BPS
    /\ tokenAllowed = {}
    /\ paused = FALSE
    /\ paymentLanes = NoAddress
    /\ rescue = [a \in Address |-> 0]
    /\ bank = Endowment
    /\ receipt = <<>>
    /\ call = Idle
    /\ saved = <<>>

-----------------------------------------------------------------------------
\* The nonReentrant guard: no locked function is in flight.
Unlocked == call = Idle

(* The merchant registry. *)

\* Permissionless and without the lock: it may run inside a payment.
RegisterMerchant(caller, payout, feeRecipient, feeBps) ==
    /\ nextMerchantId <= MaxMerchants
    /\ feeBps + platformFeeBps <= MAX_FEE_BPS
    /\ merchants' = [merchants EXCEPT ![nextMerchantId] =
           [payout |-> payout, owner |-> caller, feeRecipient |-> feeRecipient,
            feeBps |-> feeBps, active |-> TRUE]]
    /\ nextMerchantId' = nextMerchantId + 1
    /\ UNCHANGED <<pendingMerchantOwner, settings, rescue, bank, receipt, call, saved>>

\* Mutant: updateMerchant without nonReentrant.
UpdateMerchantUnlocked(caller, id, payout, feeRecipient, feeBps, active) ==
    /\ merchants[id].owner = caller
    /\ feeBps + platformFeeBps <= MAX_FEE_BPS
    /\ merchants' = [merchants EXCEPT ![id] =
           [payout |-> payout, owner |-> caller, feeRecipient |-> feeRecipient,
            feeBps |-> feeBps, active |-> active]]
    /\ UNCHANGED <<pendingMerchantOwner, nextMerchantId, settings, rescue, bank,
                   receipt, call, saved>>

UpdateMerchant(caller, id, payout, feeRecipient, feeBps, active) ==
    /\ Unlocked
    /\ merchants[id].owner = caller
    /\ feeBps + platformFeeBps <= MAX_FEE_BPS
    /\ merchants' = [merchants EXCEPT ![id] =
           [payout |-> payout, owner |-> caller, feeRecipient |-> feeRecipient,
            feeBps |-> feeBps, active |-> active]]
    /\ UNCHANGED <<pendingMerchantOwner, nextMerchantId, settings, rescue, bank,
                   receipt, call, saved>>

\* A nomination of address(0) withdraws the standing one.
ProposeMerchantOwner(caller, id, newOwner) ==
    /\ Unlocked
    /\ merchants[id].owner = caller
    /\ pendingMerchantOwner' = [pendingMerchantOwner EXCEPT ![id] = newOwner]
    /\ UNCHANGED <<merchants, nextMerchantId, settings, rescue, bank, receipt,
                   call, saved>>

AcceptMerchantOwner(caller, id) ==
    /\ Unlocked
    /\ pendingMerchantOwner[id] = caller
    /\ merchants' = [merchants EXCEPT ![id].owner = caller]
    /\ pendingMerchantOwner' = [pendingMerchantOwner EXCEPT ![id] = NoAddress]
    /\ UNCHANGED <<nextMerchantId, settings, rescue, bank, receipt, call, saved>>

-----------------------------------------------------------------------------
(* The platform's settings: the router's owner only, none of them takes the lock. *)

SetTokenAllowed(token, allowed) ==
    /\ tokenAllowed' = IF allowed THEN tokenAllowed \cup {token} ELSE tokenAllowed \ {token}
    /\ UNCHANGED <<platformTreasury, platformFeeBps, paused, paymentLanes>>

SetPlatformFee(bps) ==
    /\ bps <= MAX_FEE_BPS
    /\ platformFeeBps' = bps
    /\ UNCHANGED <<platformTreasury, tokenAllowed, paused, paymentLanes>>

SetTreasury(treasury) ==
    /\ platformTreasury' = treasury
    /\ UNCHANGED <<platformFeeBps, tokenAllowed, paused, paymentLanes>>

\* OpenZeppelin's Pausable reverts a pause while paused and the converse.
Pause ==
    /\ ~paused
    /\ paused' = TRUE
    /\ UNCHANGED <<platformTreasury, platformFeeBps, tokenAllowed, paymentLanes>>

Unpause ==
    /\ paused
    /\ paused' = FALSE
    /\ UNCHANGED <<platformTreasury, platformFeeBps, tokenAllowed, paymentLanes>>

SetPaymentLanes(lanes) ==
    /\ paymentLanes' = lanes
    /\ UNCHANGED <<platformTreasury, platformFeeBps, tokenAllowed, paused>>

Administer ==
    /\ \/ \E token \in Token, allowed \in BOOLEAN : SetTokenAllowed(token, allowed)
       \/ \E bps \in Bps : SetPlatformFee(bps)
       \/ \E treasury \in Payee : SetTreasury(treasury)
       \/ Pause
       \/ Unpause
       \/ \E lanes \in LanesOption : SetPaymentLanes(lanes)
    /\ UNCHANGED <<registry, rescue, bank, receipt, call, saved>>

-----------------------------------------------------------------------------
(* Settlement. *)

Share(amount, bps) == Portion(amount, bps, FEE_DENOMINATOR)

\* Mutant: no squeeze, the surcharge stays what the merchant set.
UnsqueezedBps(mBps) == mBps

\* The merchant's surcharge after the buyer-protection cap: a platform fee
\* raised since the merchant registered squeezes the merchant, not the buyer.
SqueezedBps(mBps) ==
    IF platformFeeBps + mBps > MAX_FEE_BPS THEN MAX_FEE_BPS - platformFeeBps ELSE mBps

\* Mutant: the surcharge is charged but not taken off the net.
SplitFeeOnTop(f, gross, mBps) ==
    LET platformFee == Share(gross, platformFeeBps)
    IN  [f EXCEPT !.pc = "net",
                  !.platformFee = platformFee,
                  !.merchantFee = Share(gross, SqueezedBps(mBps)),
                  !.net = gross - platformFee]

\* The legs of a payment of gross, as fields of the frame f.
SplitFee(f, gross, mBps) ==
    LET platformFee == Share(gross, platformFeeBps)
        merchantFee == Share(gross, SqueezedBps(mBps))
    IN  [f EXCEPT !.pc = "net",
                  !.platformFee = platformFee,
                  !.merchantFee = merchantFee,
                  !.net = gross - platformFee - merchantFee]

\* PaymentReceived(merchantId, ..., gross, platformFee + merchantFee, net, ...)
ReceiptOf(f) ==
    [merchantId |-> f.merchantId, gross |-> f.gross,
     fee |-> f.platformFee + f.merchantFee, net |-> f.net]

MerchantFeeDest == IF call.feeRecipient = NoAddress THEN call.payout ELSE call.feeRecipient

\* The frame of a payment to merchant id: what is read before the first call out.
Entered(id, asset, payer, gross, excess) ==
    [pc |-> "pull", asset |-> asset, merchantId |-> id, payer |-> payer,
     payout |-> merchants[id].payout, feeRecipient |-> merchants[id].feeRecipient,
     feeBps |-> merchants[id].feeBps, gross |-> gross,
     net |-> 0, platformFee |-> 0, merchantFee |-> 0, refund |-> excess]

MayPay(id) ==
    /\ Unlocked
    /\ ~paused
    /\ merchants[id].owner # NoAddress
    /\ merchants[id].active

PayNative(buyer, id, gross, excess) ==
    LET f == SplitFee(Entered(id, Native, buyer, gross, excess), gross, merchants[id].feeBps)
    IN  /\ MayPay(id)
        /\ Affords(bank, Native, buyer, gross + excess)
        /\ bank' = Moved(bank, Native, buyer, Self, gross + excess)
        /\ call' = f
        /\ receipt' = ReceiptOf(f)
        /\ saved' = storage
        /\ UNCHANGED <<registry, settings, rescue>>

PayToken(buyer, id, token, gross) ==
    /\ MayPay(id)
    /\ token \in tokenAllowed
    /\ call' = Entered(id, token, buyer, gross, 0)
    /\ saved' = storage
    /\ UNCHANGED <<registry, settings, rescue, bank, receipt>>

\* transferFrom returned and the balance delta equals gross; the platform fee
\* is read only now, after the token has had control.
PullExact ==
    LET f == SplitFee(call, call.gross, call.feeBps)
    IN  /\ call.pc = "pull"
        /\ Affords(bank, call.asset, call.payer, call.gross)
        /\ bank' = Moved(bank, call.asset, call.payer, Self, call.gross)
        /\ call' = f
        /\ receipt' = ReceiptOf(f)
        /\ UNCHANGED <<registry, settings, rescue, saved>>

\* Mutant: a native push that fails is forgotten instead of queued.
DeliverOrForget(to, amount) ==
    \/ /\ Affords(bank, call.asset, Self, amount)
       /\ bank' = Moved(bank, call.asset, Self, to, amount)
       /\ UNCHANGED rescue
    \/ call.asset = Native /\ amount > 0 /\ UNCHANGED <<bank, rescue>>

\* Hand amount to a payee.  A native push that fails, for lack of funds too, is
\* queued in rescue; a token transfer that fails is a Revert.
Deliver(to, amount) ==
    \/ /\ Affords(bank, call.asset, Self, amount)
       /\ bank' = Moved(bank, call.asset, Self, to, amount)
       /\ UNCHANGED rescue
    \/ /\ call.asset = Native
       /\ amount > 0
       /\ rescue' = [rescue EXCEPT ![to] = @ + amount]
       /\ UNCHANGED bank

\* No lanes contract, or a native payment: the net goes straight to payout.
SettleNet ==
    /\ call.pc = "net"
    /\ call.asset = Native \/ paymentLanes = NoAddress
    /\ Deliver(call.payout, call.net)
    /\ call' = [call EXCEPT !.pc = "platform", !.net = 0]
    /\ UNCHANGED <<registry, settings, receipt, saved>>

\* Approve the lanes contract for net and call its credit.
CallCredit ==
    /\ call.pc = "net"
    /\ call.asset # Native
    /\ paymentLanes # NoAddress
    /\ call' = [call EXCEPT !.pc = "credit"]
    /\ UNCHANGED <<registry, settings, rescue, bank, receipt, saved>>

\* credit returned: the lanes contract took the net against a lane receipt.
CreditTaken ==
    /\ call.pc = "credit"
    /\ call.net > 0
    /\ Affords(bank, call.asset, Self, call.net)
    /\ bank' = Moved(bank, call.asset, Self, Lanes, call.net)
    /\ call' = [call EXCEPT !.pc = "platform", !.net = 0]
    /\ UNCHANGED <<registry, settings, rescue, receipt, saved>>

\* credit reverted (it always does for a net of 0): fall back to the push.
CreditCaught ==
    /\ call.pc = "credit"
    /\ Affords(bank, call.asset, Self, call.net)
    /\ bank' = Moved(bank, call.asset, Self, call.payout, call.net)
    /\ call' = [call EXCEPT !.pc = "platform", !.net = 0]
    /\ UNCHANGED <<registry, settings, rescue, receipt, saved>>

\* The treasury is read when its leg is pushed, not at entry.
PlatformLeg ==
    /\ call.pc = "platform"
    /\ Deliver(platformTreasury, call.platformFee)
    /\ call' = [call EXCEPT !.pc = "merchant", !.platformFee = 0]
    /\ UNCHANGED <<registry, settings, receipt, saved>>

MerchantLeg ==
    /\ call.pc = "merchant"
    /\ Deliver(MerchantFeeDest, call.merchantFee)
    /\ call' = [call EXCEPT !.pc = "refund", !.merchantFee = 0]
    /\ UNCHANGED <<registry, settings, receipt, saved>>

\* The excess goes back to the payer and the function returns.  A claim of
\* rescue money ends the same way: it must reach its claimant or revert.
SendBack ==
    /\ call.pc = "refund"
    /\ Affords(bank, call.asset, Self, call.refund)
    /\ bank' = Moved(bank, call.asset, Self, call.payer, call.refund)
    /\ call' = Idle
    /\ saved' = <<>>
    /\ UNCHANGED <<registry, settings, rescue, receipt>>

\* Mutant: the credit is not zeroed before the send.
ClaimRescueUnzeroed(claimant) ==
    /\ Unlocked
    /\ rescue[claimant] > 0
    /\ call' = [Idle EXCEPT !.pc = "refund", !.payer = claimant,
                            !.refund = rescue[claimant]]
    /\ saved' = storage
    /\ UNCHANGED <<registry, settings, rescue, bank, receipt>>

\* Open while paused; the credit is zeroed before the send.
ClaimRescue(claimant) ==
    /\ Unlocked
    /\ rescue[claimant] > 0
    /\ rescue' = [rescue EXCEPT ![claimant] = 0]
    /\ call' = [Idle EXCEPT !.pc = "refund", !.payer = claimant,
                            !.refund = rescue[claimant]]
    /\ saved' = storage
    /\ UNCHANGED <<registry, settings, bank, receipt>>

\* What makes the function in flight revert: a failing pull or token transfer,
\* or a payer that refuses its native coin.  A payee that refuses does not.
MayRevert ==
    \/ call.asset # Native
    \/ call.pc = "refund" /\ call.refund > 0

\* All storage returns to what it was at entry, whatever ran in between.
Revert ==
    /\ ~Unlocked
    /\ MayRevert
    /\ merchants' = saved.merchants
    /\ pendingMerchantOwner' = saved.pendingMerchantOwner
    /\ nextMerchantId' = saved.nextMerchantId
    /\ platformTreasury' = saved.platformTreasury
    /\ platformFeeBps' = saved.platformFeeBps
    /\ tokenAllowed' = saved.tokenAllowed
    /\ paused' = saved.paused
    /\ paymentLanes' = saved.paymentLanes
    /\ rescue' = saved.rescue
    /\ bank' = saved.bank
    /\ receipt' = saved.receipt
    /\ call' = Idle
    /\ saved' = <<>>

-----------------------------------------------------------------------------
Register ==
    \E caller \in Operator, payout \in Payee, feeRecipient \in MaybePayee, bps \in Bps :
        RegisterMerchant(caller, payout, feeRecipient, bps)

Manage ==
    \E caller \in Operator, id \in MerchantId :
        \/ \E payout \in Payee, feeRecipient \in MaybePayee, bps \in Bps,
              active \in BOOLEAN :
               UpdateMerchant(caller, id, payout, feeRecipient, bps, active)
        \/ \E newOwner \in Operator \cup {NoAddress} : ProposeMerchantOwner(caller, id, newOwner)
        \/ AcceptMerchantOwner(caller, id)

Pay ==
    \E buyer \in Buyer, id \in MerchantId, gross \in Gross :
        \/ \E excess \in Excess : PayNative(buyer, id, gross, excess)
        \/ \E token \in Token : PayToken(buyer, id, token, gross)

Settle ==
    \/ PullExact
    \/ SettleNet
    \/ CallCredit
    \/ CreditTaken
    \/ CreditCaught
    \/ PlatformLeg
    \/ MerchantLeg
    \/ SendBack
    \/ Revert

Next ==
    \/ Register
    \/ Manage
    \/ Administer
    \/ Pay
    \/ Settle
    \/ \E claimant \in Payee : ClaimRescue(claimant)

Spec == Init /\ [][Next]_vars

-----------------------------------------------------------------------------
(* What the router promises. *)

\* Every variable has its type, the storage a revert would restore included.
TypeOK ==
    /\ merchants \in [MerchantId -> Merchant]
    /\ pendingMerchantOwner \in [MerchantId -> MaybeAddress]
    /\ nextMerchantId \in 1..(MaxMerchants + 1)
    /\ platformTreasury \in Address
    /\ platformFeeBps \in 0..MAX_FEE_BPS
    /\ tokenAllowed \subseteq Token
    /\ paused \in BOOLEAN
    /\ paymentLanes \in {NoAddress, Lanes}
    /\ rescue \in [Address -> Nat]
    /\ bank \in Balances(Asset, Holder)
    /\ receipt \in {<<>>} \cup Receipt
    /\ call \in Frame
    /\ saved \in {<<>>} \cup Storage
    /\ call = Idle <=> saved = <<>>

\* The part of the money in the router's account that the frame still has to
\* pay out: nothing before the pull, then every leg not yet delivered.
InFlight == call.net + call.platformFee + call.merchantFee
              + (IF call.pc = "pull" THEN 0 ELSE call.refund)

\* Zero custody of tokens: at every moment, inside a payment too, the router
\* holds of a token exactly the legs of the payment in flight.
TokenCustody ==
    \A token \in Token :
        bank[token][Self] = IF call.asset = token THEN InFlight ELSE 0

\* Rescue is backed: of the native coin the router holds exactly the queued
\* rescue money and the legs in flight, so every queued payee can be paid,
\* whatever runs inside a payment.
RescueBacked ==
    bank[Native][Self] =
        SumFunction(rescue) + (IF call.asset = Native THEN InFlight ELSE 0)

\* Buyer protection: whatever the platform fee was raised to after the
\* merchant registered or after the payment began, the receipt's fee stays
\* under the cap, its legs sum to the gross and the net is not negative.
FeeWithinCap ==
    receipt # <<>> =>
        /\ receipt.fee * FEE_DENOMINATOR <= receipt.gross * MAX_FEE_BPS
        /\ receipt.fee + receipt.net = receipt.gross
        /\ receipt.net >= 0

\* While a payment is in flight nothing that runs inside it can move the
\* routing it was validated with: the snapshot the legs are paid by and the
\* merchant's record agree to the end (the check-then-use gap of payToken).
RoutingPinned ==
    call.merchantId # 0 =>
        /\ merchants[call.merchantId].active
        /\ merchants[call.merchantId].payout = call.payout
        /\ merchants[call.merchantId].feeRecipient = call.feeRecipient
        /\ merchants[call.merchantId].feeBps = call.feeBps

\* The abstract rail: a payment is one step that moves the whole gross.  Until
\* the function in flight returns, the world has the storage of its entry;
\* queued rescue money counts as its payee's.
Wealth ==
    [asset \in Asset |-> [h \in Address \cup {Lanes} |->
        IF call = Idle
        THEN bank[asset][h] + (IF asset = Native /\ h # Lanes THEN rescue[h] ELSE 0)
        ELSE saved.bank[asset][h]
               + (IF asset = Native /\ h # Lanes THEN saved.rescue[h] ELSE 0)]]

Ideal == INSTANCE IdealRail WITH
    Holder <- Address \cup {Lanes}, Price <- Gross, wealth <- Wealth

\* Every behaviour of the router, failing payees, fallbacks, reverts and
\* callbacks included, is one of atomic payments that conserve the money.
PaymentsAreAtomic == Ideal!Spec

=============================================================================
