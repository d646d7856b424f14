----------------------------- MODULE IdealEscrow -----------------------------
(***************************************************************************)
(* What an escrow promises its parties.  A deal holds the buyer's money in a *)
(* pot of its own.  The pot is opened once: in full to the buyer, or to the *)
(* seller less at most the platform's capped fee, and only with the leave   *)
(* of the party that gives the money up, of the arbiter, or of the clock.   *)
(***************************************************************************)
EXTENDS Integers

CONSTANTS Asset, Holder, NoAddress, Deal, Amount, MAX_FEE_BPS, FEE_DENOMINATOR,
          Endowment

VARIABLES
    pot,        \* deal -> its terms and "none", "open", "released" or "refunded"
    resolver,   \* deal -> who had the pot opened
    wealth,     \* asset -> holder -> what the holder has or may withdraw
    signed,     \* <<deal, holder>>: releases the holder has signed off-chain
    clock

idealVars == <<pot, resolver, wealth, signed, clock>>

Init ==
    /\ pot = [d \in Deal |-> [state |-> "none"]]
    /\ resolver = [d \in Deal |-> NoAddress]
    /\ wealth = [asset \in Asset |-> [h \in Holder |-> Endowment[asset][h]]]
    /\ signed = {}
    /\ clock = 0

\* The table w of an asset after holder h gains n.
Gains(w, asset, h, n) == [w EXCEPT ![asset] = [w[asset] EXCEPT ![h] = w[asset][h] + n]]

Open(d, terms) ==
    /\ pot[d].state = "none"
    /\ terms.state = "open"
    /\ terms.deadline > clock
    /\ wealth[terms.asset][terms.buyer] >= terms.amount
    /\ pot' = [pot EXCEPT ![d] = terms]
    /\ wealth' = Gains(wealth, terms.asset, terms.buyer, -terms.amount)
    /\ UNCHANGED <<resolver, signed, clock>>

MayRelease(d, caller) ==
    \/ caller = pot[d].buyer
    \/ caller = pot[d].arbiter
    \/ <<d, pot[d].buyer>> \in signed
    \/ clock >= pot[d].deadline

Release(d, caller, fee, treasury) ==
    /\ pot[d].state = "open"
    /\ MayRelease(d, caller)
    /\ fee * FEE_DENOMINATOR <= pot[d].amount * MAX_FEE_BPS
    /\ pot' = [pot EXCEPT ![d].state = "released"]
    /\ resolver' = [resolver EXCEPT ![d] = caller]
    /\ wealth' = Gains(Gains(wealth, pot[d].asset, treasury, fee),
                       pot[d].asset, pot[d].seller, pot[d].amount - fee)
    /\ UNCHANGED <<signed, clock>>

Refund(d, caller) ==
    /\ pot[d].state = "open"
    /\ caller \in {pot[d].seller, pot[d].arbiter}
    /\ pot' = [pot EXCEPT ![d].state = "refunded"]
    /\ resolver' = [resolver EXCEPT ![d] = caller]
    /\ wealth' = Gains(wealth, pot[d].asset, pot[d].buyer, pot[d].amount)
    /\ UNCHANGED <<signed, clock>>

\* What one has, one may give away; a pot is nobody's to give.
Give(asset, from, to, n) ==
    /\ wealth[asset][from] >= n
    /\ wealth' = Gains(Gains(wealth, asset, from, -n), asset, to, n)
    /\ UNCHANGED <<pot, resolver, signed, clock>>

Sign(d, h) == signed' = signed \cup {<<d, h>>} /\ UNCHANGED <<pot, resolver, wealth, clock>>

Tick == clock' = clock + 1 /\ UNCHANGED <<pot, resolver, wealth, signed>>

Next ==
    \/ \E d \in Deal, caller \in Holder :
          \/ pot'[d].state = "open" /\ Open(d, pot'[d])
          \/ \E fee \in 0..(IF pot[d].state = "open" THEN pot[d].amount ELSE 0),
                treasury \in Holder :
                 Release(d, caller, fee, treasury)
          \/ Refund(d, caller)
          \/ Sign(d, caller)
    \/ \E asset \in Asset, from, to \in Holder : \E n \in 1..wealth[asset][from] :
          Give(asset, from, to, n)
    \/ Tick

Spec == Init /\ [][Next]_idealVars

=============================================================================
