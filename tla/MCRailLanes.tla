------------------------------ MODULE MCRailLanes ------------------------------
(* Lanes by themselves, with two assets of which the receipts of one must never   *)
(* reach the other; or behind the router, with the credit, the fallback and the    *)
(* revert after the credit.  A behaviour is of the one or of the other.            *)
EXTENDS PaymentLanes

CONSTANTS shop, heir, router, usd, scam, till, buyer, Lanes, Native

LanesDeposit ==
    [asset \in LaneToken |-> [h \in Holder |->
        IF h # router THEN 0 ELSE IF asset = usd THEN 2 ELSE 1]]

RailEndowment ==
    [asset \in {usd, Native} |-> [h \in {shop, till, buyer, Self, Lanes} |->
        IF h = buyer /\ asset = usd THEN 7 ELSE 0]]

VARIABLES
    which,
    rMerchants, rPending, rNextId, rTreasury, rFeeBps, rTokens, rPaused, rLanes, rRescue,
    rBank, rReceipt, rCall, rSaved, rBalanceOf, rLaneAsset, rAllowance, rOperators, rRouters,
    rFrame, rUndo, rLaneSaved

rail ==
    <<rMerchants, rPending, rNextId, rTreasury, rFeeBps, rTokens, rPaused, rLanes, rRescue,
      rBank, rReceipt, rCall, rSaved, rBalanceOf, rLaneAsset, rAllowance, rOperators, rRouters,
      rFrame, rUndo, rLaneSaved>>

\* One merchant and one payment of 7, whose lane receipt may be claimed in parts.
R == INSTANCE Rail WITH
    Address <- {shop, till, buyer}, Operator <- {shop}, Payee <- {till}, Buyer <- {buyer},
    NoAddress <- NoAccount, LanesOption <- {NoAccount, Lanes}, Token <- {usd},
    MaxMerchants <- 1, ClaimBound <- {4}, MAX_FEE_BPS <- 4, FEE_DENOMINATOR <- 10,
    Bps <- {2}, Gross <- {7}, Excess <- {}, Endowment <- RailEndowment,
    merchants <- rMerchants, pendingMerchantOwner <- rPending, nextMerchantId <- rNextId,
    platformTreasury <- rTreasury, platformFeeBps <- rFeeBps, tokenAllowed <- rTokens,
    paused <- rPaused, paymentLanes <- rLanes, rescue <- rRescue, bank <- rBank,
    receipt <- rReceipt, call <- rCall, saved <- rSaved, balanceOf <- rBalanceOf,
    laneAsset <- rLaneAsset, allowance <- rAllowance, isOperator <- rOperators,
    isRouter <- rRouters, frame <- rFrame, undo <- rUndo, laneSaved <- rLaneSaved

ASSUME R!RouterAssumption /\ R!RailAssumption

\* The one a behaviour does not take stays as it begins.
MCInit == which \in {"lanes", "rail"} /\ Init /\ R!RailInit

MCNext ==
    /\ UNCHANGED which
    /\ \/ which = "lanes" /\ Next /\ UNCHANGED rail
       \/ which = "rail" /\ R!RailNext /\ UNCHANGED vars

MCSpec == MCInit /\ [][MCNext]_<<which, vars, rail>>

LanesBacked == IF which = "rail" THEN R!LanesBacked ELSE Backed

\* Looked at in the behaviours that are of the rail.
Ideal == INSTANCE IdealRail WITH
    Asset <- {usd, Native}, Holder <- {shop, till, buyer}, Price <- {7},
    MAX_FEE_BPS <- 4, FEE_DENOMINATOR <- 10, Endowment <- RailEndowment,
    wealth <- IF which = "rail" THEN R!RailWealth
              ELSE [asset \in {usd, Native} |-> [h \in {shop, till, buyer} |->
                       RailEndowment[asset][h]]]

RailIsAtomic == Ideal!Spec

=============================================================================
