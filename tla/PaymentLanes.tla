----------------------------- MODULE PaymentLanes -----------------------------
(***************************************************************************)
(* PaymentLanes: transferable receipts for payments parked in the contract. *)
(* A lane is keccak256(chainId, asset, recipient): a collision-free name of *)
(* its asset and first recipient, modelled as that pair.                    *)
(*                                                                          *)
(* credit mints the receipt and then pulls the asset; a claim burns it and  *)
(* then sends the asset.  Both give a token control in between, where the   *)
(* functions without the lock may run; "frame" is the locked function in    *)
(* flight and "undo" the storage its revert restores.                       *)
(***************************************************************************)
EXTENDS Bank, FiniteSets, Functions

CONSTANTS
    Account,        \* the holders of receipts and the callers
    NoAccount,      \* address(0)
    Caller,         \* accounts that may be authorised as routers
    Self,           \* the contract's own account
    LaneToken,      \* the ERC-20s
    Recipient,      \* those a router credits
    Beneficiary,    \* those receipts are transferred to
    Granter,        \* those that give allowances and operator rights
    Spender,        \* those given an allowance or made an operator
    Amount,         \* the amounts of credits, transfers, allowances and claims
    Unlimited,      \* type(uint256).max
    Deposit         \* the balances the accounts start with

Lane == LaneToken \X Recipient
Holder == Account \cup Caller \cup {Self}
Allowance == Nat \cup {Unlimited}

\* Addresses are finitely many.
ASSUME LanesAssumption ==
    /\ IsFiniteSet(Account)
    /\ Recipient \cup Beneficiary \cup Spender \cup Granter \subseteq Account
    /\ NoAccount \notin Account \cup LaneToken
    /\ Self \notin Account \cup Caller
    /\ Unlimited \notin Nat
    /\ Amount \subseteq Nat
    /\ Deposit \in Balances(LaneToken, Holder)
    /\ \A asset \in LaneToken : Deposit[asset][Self] = 0

VARIABLES
    balanceOf,      \* owner -> lane -> receipt, credited and not yet claimed
    laneAsset,      \* lane -> the asset bound to it by its first credit
    allowance,      \* owner -> spender -> lane -> what the spender may move
    isOperator,     \* owner -> the spenders that may move all its receipts
    isRouter,       \* the callers allowed to credit
    bank,           \* balances of every asset
    frame,          \* the locked function in flight
    undo            \* the storage when it was entered

storage ==
    [balanceOf |-> balanceOf, laneAsset |-> laneAsset, allowance |-> allowance,
     isOperator |-> isOperator, isRouter |-> isRouter]
ledger == <<balanceOf, laneAsset, allowance, isOperator, isRouter>>
vars == <<ledger, bank, frame, undo>>

Free == [op |-> "none"]

\* A fresh proxy: no receipt, no authorised router.
Fresh ==
    /\ balanceOf = [o \in Account |-> [lane \in Lane |-> 0]]
    /\ laneAsset = [lane \in Lane |-> NoAccount]
    /\ allowance = [o \in Account |-> [s \in Spender |-> [lane \in Lane |-> 0]]]
    /\ isOperator = [o \in Account |-> {}]
    /\ isRouter = {}
    /\ frame = Free
    /\ undo = <<>>

Init == Fresh /\ bank = Deposit

-----------------------------------------------------------------------------
(* Functions without the lock. *)

\* Admin only; a revoked router keeps nothing but the receipts it credited.
SetRouter(router, authorized) ==
    /\ isRouter' = IF authorized THEN isRouter \cup {router} ELSE isRouter \ {router}
    /\ UNCHANGED <<balanceOf, laneAsset, allowance, isOperator, bank, frame, undo>>

\* Mutant: both balances are read before either is written.
GivenFromStaleReads(from, to, lane, amount) ==
    LET received == balanceOf[to][lane] + amount
        debited == [balanceOf EXCEPT ![from][lane] = @ - amount]
    IN  [debited EXCEPT ![to][lane] = received]

\* The sender's balance is written before the receiver's is read.
Given(from, to, lane, amount) ==
    LET debited == [balanceOf EXCEPT ![from][lane] = @ - amount]
    IN  [debited EXCEPT ![to][lane] = @ + amount]

Transfer(caller, to, lane, amount) ==
    /\ balanceOf[caller][lane] >= amount
    /\ balanceOf' = Given(caller, to, lane, amount)
    /\ UNCHANGED <<laneAsset, allowance, isOperator, isRouter, bank, frame, undo>>

\* An operator leaves the allowance alone, and an unlimited one never shrinks.
TransferFrom(spender, from, to, lane, amount) ==
    LET allowed == allowance[from][spender][lane]
        free == spender \in isOperator[from] \/ allowed = Unlimited
    IN  /\ balanceOf[from][lane] >= amount
        /\ \/ free /\ UNCHANGED allowance
           \/ /\ ~free
              /\ allowed >= amount
              /\ allowance' = [allowance EXCEPT ![from][spender][lane] = allowed - amount]
        /\ balanceOf' = Given(from, to, lane, amount)
        /\ UNCHANGED <<laneAsset, isOperator, isRouter, bank, frame, undo>>

Approve(owner, spender, lane, amount) ==
    /\ allowance' = [allowance EXCEPT ![owner][spender][lane] = amount]
    /\ UNCHANGED <<balanceOf, laneAsset, isOperator, isRouter, bank, frame, undo>>

SetOperator(owner, operator, approved) ==
    /\ isOperator' = [isOperator EXCEPT ![owner] =
           IF approved THEN @ \cup {operator} ELSE @ \ {operator}]
    /\ UNCHANGED <<balanceOf, laneAsset, allowance, isRouter, bank, frame, undo>>

-----------------------------------------------------------------------------
(* Functions with the lock. *)

\* Mutant: the first credit of a lane does not bind its asset.
CreditUnbound(caller, recipient, asset, amount) ==
    LET lane == <<asset, recipient>>
    IN  /\ frame = Free
        /\ caller \in isRouter
        /\ amount > 0
        /\ balanceOf' = [balanceOf EXCEPT ![recipient][lane] = @ + amount]
        /\ frame' = [op |-> "credit", who |-> caller, asset |-> asset, amount |-> amount]
        /\ undo' = storage
        /\ UNCHANGED <<laneAsset, allowance, isOperator, isRouter, bank>>

\* Bind the lane, mint the receipt, then ask the asset for the money.
Credit(caller, recipient, asset, amount) ==
    LET lane == <<asset, recipient>>
    IN  /\ frame = Free
        /\ caller \in isRouter
        /\ amount > 0
        /\ laneAsset' = [laneAsset EXCEPT ![lane] = asset]
        /\ balanceOf' = [balanceOf EXCEPT ![recipient][lane] = @ + amount]
        /\ frame' = [op |-> "credit", who |-> caller, asset |-> asset, amount |-> amount]
        /\ undo' = storage
        /\ UNCHANGED <<allowance, isOperator, isRouter, bank>>

CreditPulled ==
    /\ frame.op = "credit"
    /\ Affords(bank, frame.asset, frame.who, frame.amount)
    /\ bank' = Moved(bank, frame.asset, frame.who, Self, frame.amount)
    /\ frame' = Free
    /\ undo' = <<>>
    /\ UNCHANGED ledger

\* The asset a claim of the lane pays out: a claim in any other asset than the
\* one bound is a return that changes nothing.
Releases(lane, asset) == laneAsset[lane] \in {NoAccount, asset}

AtMost(max, balance) == IF max # Unlimited /\ max < balance THEN max ELSE balance

\* Mutant: the receipt is not burned.
ClaimUnburned(caller, lane, asset, max) ==
    LET amount == AtMost(max, balanceOf[caller][lane])
    IN  /\ frame = Free
        /\ Releases(lane, asset)
        /\ amount > 0
        /\ frame' = [op |-> "claim", who |-> caller, asset |-> asset, amount |-> amount]
        /\ undo' = storage
        /\ UNCHANGED ledger
        /\ UNCHANGED bank

\* claim and claimLane pass Unlimited; claimLaneUpTo a bound.
Claim(caller, lane, asset, max) ==
    LET amount == AtMost(max, balanceOf[caller][lane])
    IN  /\ frame = Free
        /\ Releases(lane, asset)
        /\ amount > 0
        /\ balanceOf' = [balanceOf EXCEPT ![caller][lane] = @ - amount]
        /\ frame' = [op |-> "claim", who |-> caller, asset |-> asset, amount |-> amount]
        /\ undo' = storage
        /\ UNCHANGED <<laneAsset, allowance, isOperator, isRouter, bank>>

ClaimSent ==
    /\ frame.op = "claim"
    /\ Affords(bank, frame.asset, Self, frame.amount)
    /\ bank' = Moved(bank, frame.asset, Self, frame.who, frame.amount)
    /\ frame' = Free
    /\ undo' = <<>>
    /\ UNCHANGED ledger

RestoreTo(s) ==
    /\ balanceOf' = s.balanceOf
    /\ laneAsset' = s.laneAsset
    /\ allowance' = s.allowance
    /\ isOperator' = s.isOperator
    /\ isRouter' = s.isRouter

\* The asset's transfer failed: the function leaves no trace.
Undone ==
    /\ frame # Free
    /\ RestoreTo(undo)
    /\ frame' = Free
    /\ undo' = <<>>

Revert == Undone /\ UNCHANGED bank

-----------------------------------------------------------------------------
Permit ==
    \E owner \in Granter, spender \in Spender :
        \/ \E lane \in Lane, amount \in Amount \cup {0, Unlimited} :
               Approve(owner, spender, lane, amount)
        \/ \E approved \in BOOLEAN : SetOperator(owner, spender, approved)

Hand ==
    \E lane \in Lane, to \in Beneficiary, amount \in Amount, from \in Account :
        \/ Transfer(from, to, lane, amount)
        \/ \E spender \in Spender : TransferFrom(spender, from, to, lane, amount)

Redeem ==
    \/ \E caller \in Account, lane \in Lane, asset \in LaneToken, max \in Amount \cup {Unlimited} :
           Claim(caller, lane, asset, max)
    \/ ClaimSent

Next ==
    \/ \E router \in Caller, authorized \in BOOLEAN : SetRouter(router, authorized)
    \/ \E router \in Caller, recipient \in Recipient, asset \in LaneToken, amount \in Amount :
           Credit(router, recipient, asset, amount)
    \/ CreditPulled
    \/ Revert
    \/ Permit
    \/ Hand
    \/ Redeem

Spec == Init /\ [][Next]_vars

-----------------------------------------------------------------------------
TypeOK ==
    /\ balanceOf \in [Account -> [Lane -> Nat]]
    /\ laneAsset \in [Lane -> LaneToken \cup {NoAccount}]
    /\ allowance \in [Account -> [Spender -> [Lane -> Allowance]]]
    /\ isOperator \in [Account -> SUBSET Spender]
    /\ isRouter \subseteq Caller
    /\ bank \in Balances(LaneToken, Holder)
    /\ frame.op \in {"none", "credit", "claim"}

Outstanding(asset) ==
    SumFunction([p \in Account \X Recipient |-> balanceOf[p[1]][<<asset, p[2]>>]])

InTransit(asset, op) ==
    IF frame.op = op /\ frame.asset = asset THEN frame.amount ELSE 0

\* Every asset is fully backed on its own, whatever receipts were handed around
\* or cross-claimed: the contract holds exactly the receipts outstanding in that
\* asset, up to the one amount a credit still has to pull or a claim to send.
Backed ==
    \A asset \in LaneToken :
        bank[asset][Self] + InTransit(asset, "credit")
            = Outstanding(asset) + InTransit(asset, "claim")

\* No receipt is stranded: a positive balance sits on a lane bound to the asset
\* of its name, so a claim in that asset pays instead of returning silently.
\* A revert must not unbind a lane that still has receipts.
Redeemable ==
    \A o \in Account, lane \in Lane :
        balanceOf[o][lane] > 0 => laneAsset[lane] = lane[1]

=============================================================================
