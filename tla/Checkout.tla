------------------------------- MODULE Checkout -------------------------------
(***************************************************************************)
(* CheckoutCard, the hosted page of one buyer at one merchant, with the       *)
(* quote of lib/quote.ts and payToken of lib/contracts.ts.  A step is what a   *)
(* handler does between two awaits, and React shows its updates together.     *)
(* What a handler captured when it began stays as it was then: its coin, and  *)
(* a quote without an error, since the button is not enabled with one.        *)
(* The router serves other merchants' pages too, and what they, or an earlier *)
(* visit, left approved is there.  What they pull is not modelled: it leaves  *)
(* less, and a payment may revert anyhow.                                     *)
(* Gates that only decide whether the button is there are left out.           *)
(***************************************************************************)
EXTENDS Naturals, Sequences, FiniteSets

CONSTANTS
    Token, NoToken,  \* the coins configured on this chain
    Task,            \* runs of refreshQuote and of handlePay at a time, and payments at all
    Price,           \* what the USD amount may cost in a coin
    Leftover,        \* what earlier visits, and other pages, may approve of a coin
    MaxSwitches,     \* bound on how often the buyer picks another coin
    MaxElsewhere     \* bound on the coins and amounts approved elsewhere

ASSUME CheckoutAssumption ==
    /\ NoToken \notin Token
    /\ Price \subseteq Nat \ {0} /\ Leftover \subseteq Nat \ {0}
    /\ MaxSwitches \in Nat /\ MaxElsewhere \in Nat

VARIABLES
    page,            \* the coin picked, the coin of the quote shown, whether the last quote
                     \* failed, loadingQuote, paying, and the coin of the payment whose
                     \* event the receipt shows
    tasks,           \* task -> where it is, its coin, what payToken was quoted, its payment
    price,           \* coin -> what the router asks now
    allowance,       \* coin -> what the router may pull from the buyer
    mempool,         \* what the wallet sent, by nonce: approvals and payments
    quoted,          \* coins and amounts payToken was quoted
    elsewhere,       \* coins and amounts approved by earlier visits and other pages
    charged,         \* coins and amounts the router pulled
    switches         \* how often the buyer picked another coin

chain == <<price, allowance, mempool, quoted, elsewhere, charged>>
checkoutVars == <<page, tasks, chain, switches>>

Task0 == [pc |-> "idle", token |-> NoToken, amount |-> 0, mined |-> "no"]

\* The page loads: its effect asks for the first quote.
InitCheckout ==
    \E first \in Token, t \in Task :
        /\ page = [token |-> first, shown |-> NoToken, failed |-> FALSE, loading |-> TRUE,
                   paying |-> FALSE, receipt |-> NoToken]
        /\ tasks = [s \in Task |-> IF s = t THEN [Task0 EXCEPT !.pc = "asked", !.token = first]
                                            ELSE Task0]
        /\ price \in [Token -> Price]
        /\ allowance \in [Token -> {0} \cup Leftover]
        /\ elsewhere = {<<token, allowance[token]>> : token \in {coin \in Token : allowance[coin] > 0}}
        /\ Cardinality(elsewhere) <= MaxElsewhere
        /\ mempool = <<>>
        /\ quoted = {} /\ charged = {}
        /\ switches = 0

Turns(t, pc) == tasks' = [tasks EXCEPT ![t].pc = pc]

\* A run that sent nothing leaves no trace.
Ends(t) == tasks' = [tasks EXCEPT ![t] = Task0]

\* The catch and the finally of handlePay.
Fails(t) ==
    /\ Turns(t, "over")
    /\ page' = [page EXCEPT !.paying = FALSE]

-----------------------------------------------------------------------------
(* refreshQuote, by the effect of a coin or by handlePay. *)

Asking == [page EXCEPT !.loading = TRUE, !.failed = FALSE]

\* The picker is locked while a payment is confirming, not while it asks for its quote.
SelectToken(t, token) ==
    /\ page.receipt = NoToken
    /\ ~page.paying
    /\ token # page.token
    /\ tasks[t].pc = "idle"
    /\ switches < MaxSwitches
    /\ switches' = switches + 1
    /\ page' = [Asking EXCEPT !.token = token]
    /\ tasks' = [tasks EXCEPT ![t] = [Task0 EXCEPT !.pc = "asked", !.token = token]]
    /\ UNCHANGED chain

PayDisabled == page.paying \/ page.loading \/ page.failed

PressPay(t) ==
    /\ page.receipt = NoToken
    /\ ~PayDisabled
    /\ tasks[t].pc = "idle"
    /\ page' = Asking
    /\ tasks' = [tasks EXCEPT ![t] = [Task0 EXCEPT !.pc = "requoting", !.token = page.token]]
    /\ UNCHANGED <<chain, switches>>

\* The page once a quote is answered: an amount, or an error of the server's.
Replied(t) ==
    {[page EXCEPT !.loading = FALSE, !.shown = tasks[t].token],
     [page EXCEPT !.loading = FALSE, !.shown = NoToken, !.failed = TRUE]}

QuoteShown(t) ==
    /\ tasks[t].pc = "asked"
    /\ page' \in Replied(t)
    /\ Ends(t)
    /\ UNCHANGED <<chain, switches>>

\* handlePay goes on, whatever the answer: it looks at the error it captured.
Requoted(t) ==
    /\ tasks[t].pc = "requoting"
    /\ \E answered \in Replied(t) : page' = [answered EXCEPT !.paying = TRUE]
    /\ Turns(t, "quoting")
    /\ UNCHANGED <<chain, switches>>

\* fetch or its JSON throws: nobody catches it, and the page still loads.
QuoteThrows(t) ==
    /\ tasks[t].pc \in {"asked", "requoting"}
    /\ Ends(t)
    /\ UNCHANGED <<page, chain, switches>>

-----------------------------------------------------------------------------
(* payToken: quote, allowance, approval, payment. *)

GetQuote(t) ==
    /\ tasks[t].pc = "quoting"
    /\ tasks' = [tasks EXCEPT ![t].pc = "allowance", ![t].amount = price[tasks[t].token]]
    /\ quoted' = quoted \cup {<<tasks[t].token, price[tasks[t].token]>>}
    /\ UNCHANGED <<page, price, allowance, mempool, elsewhere, charged, switches>>

ReadAllowance(t) ==
    /\ tasks[t].pc = "allowance"
    /\ IF allowance[tasks[t].token] < tasks[t].amount THEN Turns(t, "approve")
                                                        ELSE Turns(t, "confirm")
    /\ UNCHANGED <<page, chain, switches>>

\* Mutant: a margin, for a price that moves before the payment lands.
ApprovalWithMargin(t) == tasks[t].amount + 1

Approval(t) == tasks[t].amount

\* The wallet sends, and writeContract returns the hash or throws all the same.
Sends(t, tx, pc) ==
    /\ mempool' = Append(mempool, tx)
    /\ (Turns(t, pc) /\ UNCHANGED page) \/ Fails(t)
    /\ UNCHANGED <<price, allowance, quoted, elsewhere, charged, switches>>

SendApproval(t) ==
    /\ tasks[t].pc = "approve"
    /\ Sends(t, [kind |-> "approve", task |-> t, token |-> tasks[t].token,
                 amount |-> Approval(t)], "approving")

\* waitForTransactionReceipt, which does not tell a reverted approval from a good one.
Approved(t) ==
    /\ tasks[t].pc = "approving"
    /\ \A i \in 1..Len(mempool) : mempool[i].task # t
    /\ Turns(t, "confirm")
    /\ UNCHANGED <<page, chain, switches>>

SendPayment(t) ==
    /\ tasks[t].pc = "confirm"
    /\ Sends(t, [kind |-> "pay", task |-> t, token |-> tasks[t].token, amount |-> 0], "sent")

\* The event is in the receipt of a payment the router took.
Confirmed(t) ==
    /\ tasks[t].pc = "sent"
    /\ tasks[t].mined = "taken"
    /\ Turns(t, "over")
    /\ page' = [page EXCEPT !.paying = FALSE, !.receipt = tasks[t].token]
    /\ UNCHANGED <<chain, switches>>

\* A call of the RPC throws, the buyer refuses, the wait times out, or no event is found.
PayFails(t) ==
    /\ tasks[t].pc \in {"quoting", "allowance", "approve", "approving", "confirm", "sent"}
    /\ Fails(t)
    /\ UNCHANGED <<chain, switches>>

-----------------------------------------------------------------------------
(* The chain. *)

MineApproval ==
    /\ mempool # <<>> /\ Head(mempool).kind = "approve"
    /\ mempool' = Tail(mempool)
    /\ allowance' \in {allowance, [allowance EXCEPT ![Head(mempool).token] = Head(mempool).amount]}
    /\ UNCHANGED <<page, tasks, price, quoted, elsewhere, charged, switches>>

\* The router pulls what it asks at this moment, or reverts for a reason of its own.
MinePayment ==
    /\ mempool # <<>> /\ Head(mempool).kind = "pay"
    /\ mempool' = Tail(mempool)
    /\ LET t == Head(mempool).task
           token == Head(mempool).token
       IN  \/ /\ allowance[token] >= price[token]
              /\ allowance' = [allowance EXCEPT ![token] = @ - price[token]]
              /\ charged' = charged \cup {<<token, price[token]>>}
              /\ tasks' = [tasks EXCEPT ![t].mined = "taken"]
           \/ /\ tasks' = [tasks EXCEPT ![t].mined = "reverted"]
              /\ UNCHANGED <<allowance, charged>>
    /\ UNCHANGED <<page, price, quoted, elsewhere, switches>>

PriceMoves(token, p) ==
    /\ p # price[token]
    /\ price' = [price EXCEPT ![token] = p]
    /\ UNCHANGED <<page, tasks, allowance, mempool, quoted, elsewhere, charged, switches>>

\* payToken of another page of the buyer: its approval lands.
ApproveElsewhere(token, amount) ==
    /\ allowance' = [allowance EXCEPT ![token] = amount]
    /\ elsewhere' = elsewhere \cup {<<token, amount>>}
    /\ Cardinality(elsewhere') <= MaxElsewhere
    /\ UNCHANGED <<page, tasks, price, mempool, quoted, charged, switches>>

-----------------------------------------------------------------------------
NextCheckout ==
    \/ \E t \in Task :
          \/ \E token \in Token : SelectToken(t, token)
          \/ PressPay(t) \/ QuoteShown(t) \/ Requoted(t) \/ QuoteThrows(t)
          \/ GetQuote(t) \/ ReadAllowance(t) \/ SendApproval(t) \/ Approved(t)
          \/ SendPayment(t) \/ Confirmed(t) \/ PayFails(t)
    \/ MineApproval \/ MinePayment
    \/ \E token \in Token :
          \/ \E p \in Price : PriceMoves(token, p)
          \/ \E amount \in Leftover : ApproveElsewhere(token, amount)

CheckoutSpec == InitCheckout /\ [][NextCheckout]_checkoutVars

-----------------------------------------------------------------------------
\* What the buyer approved: what payToken of this page was quoted, and what it approved
\* of the router elsewhere.
Agreed == quoted \cup elsewhere

\* Whatever is approved, left over, repeated or overtaken by the price, the router never
\* pulls more of a coin than one payToken was quoted in it, of this page, an earlier visit
\* or another page: a payment that the price has overtaken reverts.  With an allowance
\* from elsewhere it may be more than this page ever showed (README.md, section 7).
ChargedAsQuoted == \A charge \in charged : \E quote \in Agreed :
    quote[1] = charge[1] /\ charge[2] <= quote[2]

\* What CheckoutCard.tsx says of its quote, and answers out of order do not keep
\* (README.md, section 7): a quote shown as current is one of the coin picked.
QuoteIsOfCoinPicked == ~page.loading /\ page.shown # NoToken => page.shown = page.token

\* What ReceiptScreen.tsx says, and a coin picked during the last quote does not keep:
\* the amount paid is shown in the decimals, and by the name, of the coin it was paid in.
ReceiptInCoinPaid == page.receipt # NoToken => page.receipt = page.token

=============================================================================
