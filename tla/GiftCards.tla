------------------------------- MODULE GiftCards -------------------------------
(***************************************************************************)
(* The prepaid side of Access0x1GiftCards: cards issued against a code, spent *)
(* under redemption ids that the callers choose, handed on, and spends taken   *)
(* back.  The merchant's owner issues and takes back; who calls is left out,   *)
(* and so are the coupons, which share no state with the cards.                 *)
(***************************************************************************)
EXTENDS Integers, FiniteSets, Functions

CONSTANTS
    Card, Cardholder, RedemptionId,
    Unused,          \* a redemption id no redeem has recorded
    Usd,             \* amounts issued, spent and handed on
    MaxIssued        \* bound: what is issued of a card

Redemption == [holder : Cardholder, card : Card, applied : Nat, reversed : BOOLEAN]

ASSUME CardsAssumption ==
    /\ IsFiniteSet(Cardholder) /\ IsFiniteSet(RedemptionId)
    /\ Unused \notin Redemption
    /\ Usd \subseteq Nat \ {0}
    /\ MaxIssued \in Nat

VARIABLES
    balances,        \* _balanceOf
    redemptions,     \* redemption id -> its holder, card, amount and whether it was reversed
    issued           \* card -> the face value issued; for the property

cardVars == <<balances, redemptions, issued>>

InitCards ==
    /\ balances = [h \in Cardholder |-> [card \in Card |-> 0]]
    /\ redemptions = [id \in RedemptionId |-> Unused]
    /\ issued = [card \in Card |-> 0]

\* Issuing a card again tops it up.
IssueCard(card, recipient, face) ==
    /\ issued[card] + face <= MaxIssued
    /\ issued' = [issued EXCEPT ![card] = @ + face]
    /\ balances' = [balances EXCEPT ![recipient][card] = @ + face]
    /\ UNCHANGED redemptions

\* A redeem takes what there is, which may be nothing, and uses its id up.
RedeemCard(holder, card, amount, id) ==
    LET there == balances[holder][card]
        applied == IF there < amount THEN there ELSE amount
    IN  /\ redemptions[id] = Unused
        /\ redemptions' = [redemptions EXCEPT ![id] =
              [holder |-> holder, card |-> card, applied |-> applied, reversed |-> FALSE]]
        /\ balances' = [balances EXCEPT ![holder][card] = there - applied]
        /\ UNCHANGED issued

\* Mutant: a keeper's retry credits again.
Retryable(id) == redemptions[id] # Unused

\* The first call for an id; any further one returns quietly.
Reversible(id) == redemptions[id] # Unused /\ ~redemptions[id].reversed

\* The credit goes to the holder who redeemed, whoever the card has gone to since.
ReverseRedemption(id) ==
    LET r == redemptions[id] IN
    /\ redemptions[id] # Unused
    /\ IF Reversible(id)
       THEN /\ redemptions' = [redemptions EXCEPT ![id].reversed = TRUE]
            /\ balances' = [balances EXCEPT ![r.holder][r.card] = @ + r.applied]
       ELSE UNCHANGED <<redemptions, balances>>
    /\ UNCHANGED issued

\* The sender's balance is written before the recipient's is read.
TransferCard(from, to, card, amount) ==
    /\ balances[from][card] >= amount
    /\ LET debited == [balances EXCEPT ![from][card] = @ - amount]
       IN  balances' = [debited EXCEPT ![to][card] = @ + amount]
    /\ UNCHANGED <<redemptions, issued>>

NextCards ==
    \/ \E card \in Card, holder \in Cardholder, usd \in Usd :
          \/ IssueCard(card, holder, usd)
          \/ \E id \in RedemptionId : RedeemCard(holder, card, usd, id)
          \/ \E to \in Cardholder : TransferCard(holder, to, card, usd)
    \/ \E id \in RedemptionId : ReverseRedemption(id)

CardsSpec == InitCards /\ [][NextCards]_cardVars

-----------------------------------------------------------------------------
\* What redeems of the card took and no reversal gave back.
Spent(card) ==
    SumFunction([id \in {id \in RedemptionId : /\ redemptions[id] # Unused
                                               /\ redemptions[id].card = card
                                               /\ ~redemptions[id].reversed}
                    |-> redemptions[id].applied])

\* Prepaid value is neither made nor lost, however the holders hand a card on between a
\* redeem and its reversal, and however often either is tried again: of each card, what
\* the holders have and what stands as spent is what was issued.
CardsBacked ==
    \A card \in Card :
        SumFunction([h \in Cardholder |-> balances[h][card]]) + Spent(card) = issued[card]

=============================================================================
