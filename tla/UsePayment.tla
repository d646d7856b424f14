------------------------------ MODULE UsePayment ------------------------------
(***************************************************************************)
(* usePayment of the React package: quote, approve, pay, and the receipt     *)
(* taken from the PaymentReceived event.  The runs of pay() here are those   *)
(* of one buyer at one merchant, in one page or in several tabs: a watcher   *)
(* is filtered by merchant and buyer only, so each run hears of all.  What   *)
(* a payment costs and whether the router takes it is module Router's.       *)
(***************************************************************************)
EXTENDS Naturals, FiniteSets

CONSTANTS
    Run, NoRun,
    Order            \* orderIdHex: an order's hash, or ZERO_BYTES32

ASSUME RunAssumption == NoRun \notin Run /\ Order # {}

VARIABLES
    runs,            \* run -> its status, its order, the event it resolved with
    heard,           \* run -> events its watcher has yet to hand over
    sent,            \* runs whose payment the wallet sent
    landed,          \* of those, the ones the chain took
    reverted         \* and the ones it did not

payVars == <<runs, heard, sent, landed, reverted>>

InitRuns ==
    /\ runs = [r \in Run |-> [status |-> "idle", order |-> CHOOSE o \in Order : TRUE,
                              receipt |-> NoRun]]
    /\ heard = [r \in Run |-> {}]
    /\ sent = {}
    /\ landed = {}
    /\ reverted = {}

Moves(r, status) == runs' = [runs EXCEPT ![r].status = status]

\* Mutant: the watcher starts when the transaction's hash is there.
WatchesAfter(r) == runs[r].status \in {"pending", "included"}

\* The watcher starts before the wallet is asked, and the finally stops it.
Watches(r) == runs[r].status \in {"confirm", "pending", "included"}

-----------------------------------------------------------------------------
Pay(r, order) ==
    /\ runs[r].status = "idle"
    /\ runs' = [runs EXCEPT ![r].status = "quoting", ![r].order = order]
    /\ UNCHANGED <<heard, sent, landed, reverted>>

\* The quote came back; a token may need an approval first.
Quoted(r) ==
    /\ runs[r].status = "quoting"
    /\ Moves(r, "approving") \/ Moves(r, "confirm") \/ Moves(r, "error")
    /\ UNCHANGED <<heard, sent, landed, reverted>>

ApproveReturns(r) ==
    /\ runs[r].status = "approving"
    /\ Moves(r, "confirm") \/ Moves(r, "error")
    /\ UNCHANGED <<heard, sent, landed, reverted>>

\* The wallet signs and sends, before writeContract returns.
Send(r) ==
    /\ runs[r].status = "confirm"
    /\ r \notin sent
    /\ sent' = sent \cup {r}
    /\ UNCHANGED <<runs, heard, landed, reverted>>

\* writeContract returns the hash, or throws: refused, or sent and not answered.
Broadcast(r) ==
    /\ runs[r].status = "confirm"
    /\ (r \in sent /\ Moves(r, "pending")) \/ Moves(r, "error")
    /\ UNCHANGED <<heard, sent, landed, reverted>>

\* The chain takes the payment, and every watcher of that time is to hear of it.
Lands(r) ==
    /\ r \in sent \ (landed \cup reverted)
    /\ landed' = landed \cup {r}
    /\ heard' = [w \in Run |-> IF Watches(w) THEN heard[w] \cup {r} ELSE heard[w]]
    /\ UNCHANGED <<runs, sent, reverted>>

Reverts(r) ==
    /\ r \in sent \ (landed \cup reverted)
    /\ reverted' = reverted \cup {r}
    /\ UNCHANGED <<runs, heard, sent, landed>>

\* Mutant: the first event of this merchant and buyer will do.
AnyOrder(r, e) == TRUE

\* The check the event's filter cannot make.
OfThisOrder(r, e) == runs[e].order = runs[r].order

\* onLogs: only the first that fits resolves the promise.
OnLogs(r, e) ==
    /\ Watches(r)
    /\ e \in heard[r]
    /\ heard' = [heard EXCEPT ![r] = @ \ {e}]
    /\ runs' = IF OfThisOrder(r, e) /\ runs[r].receipt = NoRun
               THEN [runs EXCEPT ![r].receipt = e]
               ELSE runs
    /\ UNCHANGED <<sent, landed, reverted>>

\* waitForTransactionReceipt: included, whether taken or reverted; or it throws.
Included(r) ==
    /\ runs[r].status = "pending"
    /\ (r \in landed \cup reverted /\ Moves(r, "included")) \/ Moves(r, "error")
    /\ UNCHANGED <<heard, sent, landed, reverted>>

Succeeds(r) ==
    /\ runs[r].status = "included"
    /\ runs[r].receipt # NoRun
    /\ Moves(r, "success")
    /\ UNCHANGED <<heard, sent, landed, reverted>>

\* The ceiling on the race, which an event that is there has won.
TimesOut(r) ==
    /\ runs[r].status = "included"
    /\ runs[r].receipt = NoRun
    /\ Moves(r, "error")
    /\ UNCHANGED <<heard, sent, landed, reverted>>

NextRuns == \E r \in Run :
    \/ \E order \in Order : Pay(r, order)
    \/ Quoted(r) \/ ApproveReturns(r) \/ Send(r) \/ Broadcast(r) \/ Included(r)
    \/ Lands(r) \/ Reverts(r)
    \/ \E e \in Run : OnLogs(r, e)
    \/ Succeeds(r) \/ TimesOut(r)

RunsSpec == InitRuns /\ [][NextRuns]_payVars

-----------------------------------------------------------------------------
\* A page never shows a receipt for money that did not move, or that moved for
\* another order: a run that succeeds shows the event of a payment the chain took,
\* with its own order, even when its own payment reverted.
ReceiptOfItsOrder == \A r \in Run : runs[r].receipt # NoRun =>
    /\ runs[r].receipt \in landed
    /\ runs[runs[r].receipt].order = runs[r].order

\* Nothing a watcher waits for is lost: as long as a run watches, the event of its
\* own payment, once on the chain, is on its way or a receipt is there.
EventNotMissed == \A r \in Run :
    runs[r].status \in {"pending", "included"} /\ r \in landed =>
        r \in heard[r] \/ runs[r].receipt # NoRun

=============================================================================
