------------------------------- MODULE MCRouter -------------------------------
(* Native and token payments through one router, each buyer able to pay once; or  *)
(* the relay of the price a router quotes by; or the gift cards its merchants      *)
(* issue; or the receivables paid through it.  A behaviour is of one.               *)
EXTENDS Router, PriceRelay, Receivables, GiftCards

CONSTANTS shop, till, buyer, usd

MCEndowment ==
    [asset \in Asset |-> [h \in Holder |-> IF h = buyer THEN 7 ELSE 0]]

\* The clock of one source chain is a moment ahead, that of the other a moment behind.
MCLead == [link \in SourceLane |-> IF link = "ahead" THEN 1 ELSE -1]

VARIABLE which

\* The ones a behaviour does not take stay as they begin.
MCInit ==
    /\ which \in {"router", "relay", "cards", "receivables"}
    /\ Init /\ RelayInit /\ InitCards /\ ReceivablesInit
    /\ which # "router" => platformFeeBps = 0
    /\ which # "receivables" => ~wired /\ \A t \in Tenant : terms[t].fee = 0

MCNext ==
    /\ UNCHANGED which
    /\ \/ which = "router" /\ Next /\ UNCHANGED <<relayVars, cardVars, receivablesVars>>
       \/ which = "relay" /\ RelayNext /\ UNCHANGED <<vars, cardVars, receivablesVars>>
       \/ which = "cards" /\ NextCards /\ UNCHANGED <<vars, relayVars, receivablesVars>>
       \/ which = "receivables" /\ ReceivablesNext /\ UNCHANGED <<vars, relayVars, cardVars>>

MCSpec == MCInit /\ [][MCNext]_<<which, vars, relayVars, cardVars, receivablesVars>>

=============================================================================
