------------------------------- MODULE AgentPay -------------------------------
(***************************************************************************)
(* What pays on two rails: POST /api/agent/pay (the public x402 rail, or the *)
(* private one with a fall back to it) and POST /api/payout (the private leg *)
(* on its own).  The private leg shields an amount and pays a smaller one    *)
(* from the shielded balance: privateRail.ts, privatePay.ts and              *)
(* privateWithdraw.ts.  One step a statement between two awaits; an error of *)
(* the Unlink client or of the endpoint says nothing of what happened.  The  *)
(* requests are those of one server process, which looks the agent's wallet  *)
(* up once (dynamicAgentWallet.ts).                                          *)
(***************************************************************************)
EXTENDS Naturals

CONSTANTS
    Request,
    MaxTrialCalls    \* calls one request may ask for, MAX_TRIAL_CALLS

ASSUME PayAssumption == MaxTrialCalls \in Nat \ {0}

VARIABLES
    requests,        \* request -> where its handler is, its route, the public calls it
                     \* still has to make, what it paid for on the public rail, whether
                     \* its shield was sent, landed and paid out, and its answer
    account          \* how the process's lookup of the agent's wallet came out

requestVars == <<requests, account>>

Pending == "none"

\* The wallet is there, a variable of its configuration is blank, or it went wrong.
Outcome == {"ready", "blank", "broken"}

InitPay ==
    /\ requests = [r \in Request |->
          [pc |-> "idle", route |-> "agent", left |-> 0, settled |-> 0,
           sent |-> FALSE, landed |-> FALSE, paidOut |-> FALSE, answer |-> Pending]]
    /\ account = "unread"

Goes(r, pc) == requests' = [requests EXCEPT ![r].pc = pc]

Answers(r, answer) ==
    requests' = [requests EXCEPT ![r].pc = "answered", ![r].answer = answer]

\* Mutant: the wallet is looked up afresh, and a variable may be blank by then.
LookupAfresh(outcome) == account' = outcome

\* getOrCreateAgentAccount: the promise of the first lookup is kept, the rejected too.
Lookup(outcome) == account \in {"unread", outcome} /\ account' = outcome

-----------------------------------------------------------------------------
\* A request past its checks, up to the first await.  A private one takes the public
\* rail when the private one is off or has no user id, and has to name a merchant.
PostPublic(r, count) ==
    /\ requests[r].pc = "idle"
    /\ requests' = [requests EXCEPT ![r].pc = "calling", ![r].left = count]
    /\ UNCHANGED account

PostPrivate(r, count) ==
    /\ requests[r].pc = "idle"
    /\ \/ requests' = [requests EXCEPT ![r].pc = "calling", ![r].left = count]
       \/ requests' = [requests EXCEPT ![r].pc = "registering", ![r].left = count]
       \/ Answers(r, "bad_request")
    /\ UNCHANGED account

PostPayout(r) ==
    /\ requests[r].pc = "idle"
    /\ requests' = [requests EXCEPT ![r].pc = "registering", ![r].route = "payout"]
    /\ UNCHANGED account

\* Without the SDK the agent's payment falls back to the public rail; a payout is told.
SdkAbsent(r) ==
    IF requests[r].route = "agent" THEN Goes(r, "calling") ELSE Answers(r, "not_configured")

\* ensureRegistered, then the client: both before anything is sent.
Register(r) ==
    /\ requests[r].pc = "registering"
    /\ Goes(r, "shielding") \/ SdkAbsent(r) \/ Answers(r, "error")
    /\ UNCHANGED account

-----------------------------------------------------------------------------
(* shieldAndWithdraw, and what its callers make of its errors. *)

\* depositWithApproval: a transaction hash, or ShieldFailedError.
Shield(r) ==
    /\ requests[r].pc = "shielding"
    /\ \E landed, told \in BOOLEAN :
          requests' = [requests EXCEPT ![r] =
              [@ EXCEPT !.sent = TRUE, !.landed = landed,
                        !.pc = IF told THEN "waiting" ELSE "answered",
                        !.answer = IF told THEN Pending ELSE "shield_failed"]]
    /\ UNCHANGED account

\* waitForTx: its error is none of the named ones.
WaitForTx(r) ==
    /\ requests[r].pc = "waiting"
    /\ \/ requests[r].landed /\ Goes(r, "withdrawing")
       \/ Answers(r, "error")
    /\ UNCHANGED account

\* Mutant: what is recoverable is tried on the public rail.
RecoverPublicly(r) ==
    IF requests[r].route = "agent" THEN Goes(r, "calling") ELSE Answers(r, "withdraw_failed")

\* WithdrawFailedError: the shield landed, and the payment did not, or was not heard of.
WithdrawFailed(r) == Answers(r, "withdraw_failed")

Withdraw(r) ==
    /\ requests[r].pc = "withdrawing"
    /\ \/ requests' = [requests EXCEPT ![r].pc = "withdrawn", ![r].paidOut = TRUE]
       \/ WithdrawFailed(r)
    /\ UNCHANGED account

\* The payment was made, and the answer to a withdrawal was an error all the same.
WithdrawUnheard(r) ==
    /\ requests[r].pc = "withdrawing"
    /\ requests' = [requests EXCEPT ![r].pc = "answered", ![r].paidOut = TRUE,
                                    ![r].answer = "withdraw_failed"]
    /\ UNCHANGED account

\* The agent's answer names its address; no error of the lookup has an answer of its
\* own here.
ReplyPrivate(r) ==
    /\ requests[r].pc = "withdrawn"
    /\ IF requests[r].route = "payout"
       THEN Answers(r, "paid") /\ UNCHANGED account
       ELSE \E outcome \in Outcome :
               /\ Lookup(outcome)
               /\ Answers(r, IF outcome = "ready" THEN "paid" ELSE "error")

-----------------------------------------------------------------------------
(* agentPay, once or in the sequence of agentNanoLoop; its budget is AgentMeter's. *)

\* The quote in another token, before the first call, looks the wallet up as well; its
\* errors are swallowed.
Quote(r) ==
    /\ requests[r].pc = "calling"
    /\ \E outcome \in Outcome : Lookup(outcome)
    /\ UNCHANGED requests

\* A call that throws ends the request, whatever calls went before it: ConfigMissing
\* has an answer of its own.
CallFails(r, outcome) ==
    Answers(r, IF outcome = "blank" THEN "not_configured" ELSE "error")

\* The meter, the wallet, and then the paid fetch: it settles or not, and throws or not.
PayOnce(r) ==
    /\ requests[r].pc = "calling"
    /\ requests[r].left > 0
    /\ \/ Answers(r, "error") /\ UNCHANGED account
       \/ \E outcome \in Outcome :
             /\ Lookup(outcome)
             /\ IF outcome # "ready" THEN CallFails(r, outcome)
                ELSE \/ requests' = [requests EXCEPT ![r].left = @ - 1, ![r].settled = @ + 1]
                     \/ Answers(r, "error")
                     \/ requests' = [requests EXCEPT ![r].settled = @ + 1,
                                            ![r].pc = "answered", ![r].answer = "error"]

\* The answer names the agent's address, under the same catch.
ReplyPublic(r) ==
    /\ requests[r].pc = "calling"
    /\ requests[r].left = 0
    /\ \E outcome \in Outcome :
          /\ Lookup(outcome)
          /\ IF outcome = "ready" THEN Answers(r, "paid") ELSE CallFails(r, outcome)

-----------------------------------------------------------------------------
NextPay == \E r \in Request :
    \/ \E count \in 1..MaxTrialCalls : PostPublic(r, count) \/ PostPrivate(r, count)
    \/ PostPayout(r) \/ Register(r)
    \/ Shield(r) \/ WaitForTx(r) \/ Withdraw(r) \/ WithdrawUnheard(r) \/ ReplyPrivate(r)
    \/ Quote(r) \/ PayOnce(r) \/ ReplyPublic(r)

PaySpec == InitPay /\ [][NextPay]_requestVars

-----------------------------------------------------------------------------
\* A request pays on one rail: once its shield may be on the chain it never goes to
\* the public rail, however the private one failed; and an answer that says nothing
\* moved is given when nothing was sent on either: a wallet that is not configured
\* does not turn up after a call was paid.
OneRail == \A r \in Request :
    /\ requests[r].sent => requests[r].pc # "calling" /\ requests[r].settled = 0
    /\ requests[r].answer \in {"not_configured", "bad_request"} =>
          ~requests[r].sent /\ requests[r].settled = 0

\* What privatePay.ts says, and an error of WaitForTx does not keep (README.md, section
\* 7): funds shielded and not paid out are never hidden from the caller.
ParkedIsReported == \A r \in Request :
    requests[r].answer # Pending /\ requests[r].landed /\ ~requests[r].paidOut
        => requests[r].answer = "withdraw_failed"

=============================================================================
