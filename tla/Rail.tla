--------------------------------- MODULE Rail ---------------------------------
(***************************************************************************)
(* The router and the lanes contract together.  payToken's net leg calls    *)
(* credit, so a step of the router and a step of the lanes happen as one:   *)
(* the call, its return, or its revert that the router catches.             *)
(*                                                                          *)
(* Calls nest: a payee or a token may claim from the lanes inside a payment, *)
(* and the payment goes on when the claim has returned.  A claim in flight  *)
(* outside a payment runs no payment of its own here.                       *)
(***************************************************************************)
EXTENDS Router

CONSTANTS ClaimBound, Unlimited

VARIABLES balanceOf, laneAsset, allowance, isOperator, isRouter, frame, undo,
          laneSaved      \* the lanes' storage when the router's function began

laneLedger == <<balanceOf, laneAsset, allowance, isOperator, isRouter>>
laneVars == <<laneLedger, frame, undo, laneSaved>>
railVars == <<vars, laneVars>>

L == INSTANCE PaymentLanes WITH
         Account <- Address, NoAccount <- NoAddress, Caller <- {Self}, Self <- Lanes,
         LaneToken <- Token, Recipient <- Payee, Beneficiary <- {}, Granter <- {},
         Spender <- {}, Amount <- ClaimBound,
         Deposit <- [token \in Token |-> Endowment[token]]

\* What the lanes contract takes for granted of these constants.
RailAssumption ==
    /\ NoAddress \notin Token
    /\ Unlimited \notin Nat
    /\ ClaimBound \subseteq Nat
    /\ \A token \in Token : Endowment[token][Lanes] = 0

RailInit == Init /\ L!Fresh /\ laneSaved = <<>>

LanesFree == frame = L!Free

\* Functions of the router that call no lanes function.  The unlocked ones may
\* run inside anything; a locked one starts or goes on when the lanes are free.
RouterAlone ==
    /\ \/ Register
       \/ Administer
       \/ LanesFree /\ (Manage \/ SettleNet \/ PullExact \/ PlatformLeg \/ MerchantLeg)
    /\ UNCHANGED laneVars

\* Native payments and rescue claims leave the lanes alone and are not repeated here.
Enter ==
    /\ LanesFree
    /\ \E buyer \in Buyer, id \in MerchantId, token \in Token, gross \in Gross :
           PayToken(buyer, id, token, gross)
    /\ laneSaved' = L!storage
    /\ UNCHANGED <<laneLedger, frame, undo>>

Return ==
    /\ LanesFree
    /\ SendBack
    /\ laneSaved' = <<>>
    /\ UNCHANGED <<laneLedger, frame, undo>>

\* A revert of the payment takes the lane receipt of its net leg with it.
RevertAll ==
    /\ LanesFree
    /\ Revert
    /\ L!RestoreTo(laneSaved)
    /\ laneSaved' = <<>>
    /\ UNCHANGED <<frame, undo>>

\* credit reverts at once for an unauthorised router or an amount of 0.
CreditBegins ==
    /\ LanesFree
    /\ CallCredit
    /\ \/ L!Credit(Self, call.payout, call.asset, call.net)
       \/ /\ Self \notin isRouter \/ call.net = 0
          /\ UNCHANGED <<laneLedger, frame, undo>>
    /\ UNCHANGED laneSaved

CreditReturns == CreditTaken /\ L!CreditPulled /\ UNCHANGED laneSaved

CreditReverts ==
    /\ CreditCaught
    /\ \/ L!Undone
       \/ LanesFree /\ UNCHANGED <<laneLedger, frame, undo>>
    /\ UNCHANGED laneSaved

\* The lanes' own functions.
ClaimLane ==
    /\ \/ L!Redeem
       \/ frame.op = "claim" /\ L!Revert
    /\ UNCHANGED <<registry, settings, rescue, receipt, call, saved, laneSaved>>

AuthorizeRouter ==
    /\ \E authorized \in BOOLEAN : L!SetRouter(Self, authorized)
    /\ UNCHANGED <<registry, settings, rescue, receipt, call, saved, laneSaved>>

RailNext ==
    \/ RouterAlone
    \/ Enter
    \/ Return
    \/ RevertAll
    \/ CreditBegins
    \/ CreditReturns
    \/ CreditReverts
    \/ ClaimLane
    \/ AuthorizeRouter

RailSpec == RailInit /\ [][RailNext]_railVars

-----------------------------------------------------------------------------
\* The lanes stay fully backed while the router funds them from payments that
\* may be reverted after the credit.
LanesBacked == L!Backed /\ L!Redeemable

\* What h can take out of an asset in a state of the two contracts.
Claimable(b, r, receipts, asset, h) ==
      b[asset][h]
    + (IF asset = Native
       THEN r[h]
       ELSE SumFunction([p \in Payee |-> receipts[h][<<asset, p>>]]))

ClaimInTransit(asset, h) ==
    IF frame.op = "claim" /\ frame.asset = asset /\ frame.who = h THEN frame.amount ELSE 0

RailWealth ==
    [asset \in Asset |-> [h \in Address |->
        IF call = Idle
        THEN Claimable(bank, rescue, balanceOf, asset, h) + ClaimInTransit(asset, h)
        ELSE Claimable(saved.bank, saved.rescue, laneSaved.balanceOf, asset, h)]]

IdealWithLanes == INSTANCE IdealRail WITH
    Holder <- Address, Price <- Gross, wealth <- RailWealth

\* Receive in any coin: whether the net leg is pushed, credited to a lane, or
\* pushed because the credit failed, the payee gains it exactly once and the
\* payment is one atomic step that conserves the money.
RailIsAtomic == IdealWithLanes!Spec

=============================================================================
