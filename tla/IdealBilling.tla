---------------------------- MODULE IdealBilling ----------------------------
(***************************************************************************)
(* What a subscriber may rely on.  A bill draws on a mandate: a budget its  *)
(* owner gave, for a time, and may take back.  Opening the bill draws one   *)
(* price, unless it starts with a trial, of which a payer has one for a     *)
(* plan; after that one price is drawn for one period that has come due,    *)
(* never for the same period twice and never once the bill is closed or     *)
(* suspended.                                                               *)
(***************************************************************************)
EXTENDS Integers

CONSTANTS Account, Mandate, Bill, Plan

VARIABLES
    mandates,    \* mandate -> owner, budget left, last time it is good; or none
    tariff,      \* plan -> price, period; what the merchant asks today
    bills,       \* bill -> state, payer, mandate, plan, due, whether it began with a trial
    clock

idealVars == <<mandates, tariff, bills, clock>>

Init ==
    /\ mandates = [m \in Mandate |-> [good |-> FALSE]]
    /\ bills = [b \in Bill |-> [state |-> "none"]]
    /\ clock = 0

\* Owners hand out mandates and take them back; merchants set their tariffs.
Arrange ==
    /\ \A m \in Mandate :
          \/ mandates'[m] = mandates[m]
          \/ ~mandates[m].good /\ mandates'[m].good
          \/ mandates[m].good /\ ~mandates'[m].good
    /\ UNCHANGED <<bills, clock>>

\* The price is drawn from a good mandate that covers it.
Draw(given, m, price) ==
    /\ given.good
    /\ clock <= given.until
    /\ price <= given.left
    /\ mandates' = [mandates EXCEPT ![m] = [given EXCEPT !.left = given.left - price]]

HadTrial(payer, plan) == \E b \in Bill :
    /\ bills[b].state # "none"
    /\ bills[b].payer = payer /\ bills[b].plan = plan /\ bills[b].trial

\* The payer of a bill is the owner of its mandate, which it may give with the
\* opening of the bill.
Open(b, m, plan, trial) ==
    LET price == IF trial THEN 0 ELSE tariff[plan].price
        given == IF mandates[m].good THEN mandates[m]
                 ELSE [mandates'[m] EXCEPT !.left = mandates'[m].left + price]
    IN  /\ bills[b].state = "none"
        /\ mandates'[m].good
        /\ Draw(given, m, price)
        /\ trial => ~HadTrial(given.owner, plan)
        /\ bills' = [bills EXCEPT ![b] =
               [state |-> "open", payer |-> given.owner, mandate |-> m, plan |-> plan,
                due |-> clock + tariff[plan].period, trial |-> trial]]
        /\ UNCHANGED <<tariff, clock>>

Pay(b) ==
    /\ bills[b].state = "open"
    /\ bills[b].due <= clock
    /\ Draw(mandates[bills[b].mandate], bills[b].mandate, tariff[bills[b].plan].price)
    /\ bills' = [bills EXCEPT ![b].due = bills[b].due + tariff[bills[b].plan].period]
    /\ UNCHANGED <<tariff, clock>>

\* A bill in arrears is suspended and may be resumed, a closed one stays closed.
Moves == {<<"open", "suspended">>, <<"suspended", "open">>,
          <<"open", "closed">>, <<"suspended", "closed">>}

Turn(b) ==
    /\ \E move \in Moves : bills[b].state = move[1]
                           /\ bills' = [bills EXCEPT ![b].state = move[2]]
    /\ UNCHANGED <<mandates, tariff, clock>>

Tick == clock' = clock + 1 /\ UNCHANGED <<mandates, tariff, bills>>

Next ==
    \/ Arrange
    \/ \E b \in Bill :
          \/ \E m \in Mandate, plan \in Plan, trial \in BOOLEAN : Open(b, m, plan, trial)
          \/ Pay(b)
          \/ Turn(b)
    \/ Tick

Spec == Init /\ [][Next]_idealVars

=============================================================================
