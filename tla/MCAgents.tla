------------------------------- MODULE MCAgents -------------------------------
(* What callers spend: the daily budget of the autonomous agent around a midnight;   *)
(* metered AI calls of a session that is opened twice; two requests that pay on one  *)
(* rail or the other; a buyer who pays at the hosted page.  A behaviour is of one.   *)
EXTENDS AgentMeter, AiSessions, AgentPay, Checkout, TLC

VARIABLE which

\* The ones a behaviour does not take stay as they begin.
MCInit ==
    /\ which \in {"meter", "calls", "rails", "page"}
    /\ Init /\ (which # "meter" => ~configured)
    /\ InitAi
    /\ InitPay
    /\ \/ which = "page" /\ InitCheckout
       \/ /\ which # "page"
          /\ page = {} /\ tasks = {} /\ price = {} /\ allowance = {} /\ mempool = {}
          /\ quoted = {} /\ elsewhere = {} /\ charged = {} /\ switches = 0

MCNext ==
    /\ UNCHANGED which
    /\ \/ which = "meter" /\ Next /\ UNCHANGED <<aiVars, requestVars, checkoutVars>>
       \/ which = "calls" /\ NextAi /\ UNCHANGED <<vars, requestVars, checkoutVars>>
       \/ which = "rails" /\ NextPay /\ UNCHANGED <<vars, aiVars, checkoutVars>>
       \/ which = "page" /\ NextCheckout /\ UNCHANGED <<vars, aiVars, requestVars>>

MCSpec == MCInit /\ [][MCNext]_<<which, vars, aiVars, requestVars, checkoutVars>>

Alike == Permutations(Call) \cup Permutations(Instance) \cup Permutations(Token)

=============================================================================
