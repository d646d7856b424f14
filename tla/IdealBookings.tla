---------------------------- MODULE IdealBookings ----------------------------
(***************************************************************************)
(* What a booking promises payer and host.  A place is let to one payer at  *)
(* a time.  The payer leaves a deposit, and gets back all of it but the one *)
(* charge that the terms agreed on when the deposit was left allow, priced  *)
(* at the rate of the moment, and only when the party the terms name acts.  *)
(***************************************************************************)
EXTENDS Integers

CONSTANTS Token, Party, NoAddress, Rail, Deal, UNIT, Endowment

VARIABLES
    deal,      \* deal -> its terms and status
    by,        \* deal -> who made its last transition
    wealth,    \* token -> party -> what the party has or may claim
    host,      \* of the surroundings: merchant -> the account that answers for it
    rate,      \* of the surroundings: token -> its price, 0 if unknown
    agents,    \* of the surroundings: <<payer, agent>> entitled to cancel for it
    clock      \* of the surroundings

idealVars == <<deal, by, wealth>>

Init ==
    /\ deal = [d \in Deal |-> [status |-> "NONE"]]
    /\ by = [d \in Deal |-> NoAddress]
    /\ wealth = [t \in Token |-> [p \in Party |-> Endowment[t][p]]]

Gains(w, t, p, n) == [w EXCEPT ![t] = [w[t] EXCEPT ![p] = w[t][p] + n]]

\* n is the least amount worth usd at the rate of the moment, or less.
AtMostWorth(n, t, usd) == n = 0 \/ (rate[t] # 0 /\ (n - 1) * rate[t] < usd * UNIT)

AtLeastWorth(n, t, usd) == rate[t] # 0 /\ n * rate[t] >= usd * UNIT

Standing(d) == deal[d].status \in {"HELD", "CONFIRMED"}

\* A place is let once at a time, and an order of the payer's placed once.
Book(d, terms) ==
    /\ deal[d].status = "NONE"
    /\ terms.status = "HELD"
    /\ \A other \in Deal : deal[other].status # "NONE" =>
          /\ Standing(other) => \/ deal[other].merchantId # terms.merchantId
                                \/ deal[other].slotKey # terms.slotKey
          /\ \/ deal[other].merchantId # terms.merchantId
             \/ deal[other].clientNonce # terms.clientNonce
    /\ AtMostWorth(terms.escrowAmount, terms.token, terms.depositUsd8)
    /\ AtLeastWorth(terms.escrowAmount, terms.token, terms.depositUsd8)
    /\ deal' = [deal EXCEPT ![d] = terms]
    /\ by' = [by EXCEPT ![d] = terms.payer]
    /\ wealth' = Gains(wealth, terms.token, terms.payer, -terms.escrowAmount)

Confirm(d) ==
    /\ deal[d].status = "HELD"
    /\ deal' = [deal EXCEPT ![d].status = "CONFIRMED"]
    /\ by' = [by EXCEPT ![d] = host[deal[d].merchantId]]
    /\ UNCHANGED wealth

\* Who may end a deal in a status, and for what charge in USD.
Terms(d) ==
    LET r == deal[d]
        h == host[r.merchantId]
        lateFrom == r.slotTimestamp - r.policy.cancelWindowSecs
        callers == {r.payer, h} \cup {p \in Party : <<r.payer, p>> \in agents}
    IN  [EXPIRED   |-> [may |-> IF r.status = "HELD" /\ clock >= r.holdExpiresAt
                               THEN {r.payer, h} ELSE {},
                       usd |-> 0],
         CANCELLED |-> [may |-> IF clock < lateFrom \/ r.policy.lateFeeUsd8 # 0
                               THEN callers ELSE {},
                       usd |-> IF clock < lateFrom THEN 0 ELSE r.policy.lateFeeUsd8],
         NO_SHOW   |-> [may |-> IF r.status = "CONFIRMED" THEN {h} ELSE {},
                       usd |-> r.policy.noShowFeeUsd8],
         COMPLETED |-> [may |-> IF r.status = "CONFIRMED" THEN {h} ELSE {},
                       usd |-> r.depositUsd8]]

End(d, status, charge) ==
    LET r == deal[d]
        terms == Terms(d)[status]
    IN  /\ Standing(d)
        /\ by'[d] \in terms.may
        /\ terms.usd = 0 => charge = 0
        /\ AtMostWorth(charge, r.token, terms.usd)
        /\ deal' = [deal EXCEPT ![d].status = status]
        /\ by' = [by EXCEPT ![d] = by'[d]]
        /\ wealth' = Gains(Gains(wealth, r.token, Rail, charge),
                           r.token, r.payer, r.escrowAmount - charge)

Next ==
    \E d \in Deal :
        \/ deal'[d].status = "HELD" /\ Book(d, deal'[d])
        \/ Confirm(d)
        \/ /\ Standing(d)
           /\ \E status \in {"EXPIRED", "CANCELLED", "NO_SHOW", "COMPLETED"},
                 charge \in 0..deal[d].escrowAmount : End(d, status, charge)

Spec == Init /\ [][Next]_idealVars

=============================================================================
