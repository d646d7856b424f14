------------------------------ MODULE Receivables ------------------------------
(***************************************************************************)
(* Receivables: open invoices as tokens that are sold on.  Who holds one is  *)
(* its creditor; paying it routes the gross through the router to a merchant  *)
(* whose payout is this contract, which forwards the net to the holder.       *)
(* Several merchants share that payout, and some are paid directly as well:   *)
(* the net of such a payment stays here, in the contract's balance or in its   *)
(* lane.  Only the pull hands control over while the router is unlocked, so    *)
(* pay is cut there and payNative is one step.                                 *)
(* Left out: prices (an invoice is worth some Due at payment, the platform's   *)
(* fee taken off), the debtor an invoice may be locked to, royalties, and an     *)
(* owner who rewires the router from inside its own pull from this contract.     *)
(***************************************************************************)
EXTENDS Integers

CONSTANTS
    ClaimId,         \* token ids
    Tenant,          \* merchants of the router who name this contract as payout
    Creditor, Nobody,
    Coin, Erc20,     \* what an invoice is paid in: the native coin, tokens
    Due,             \* what a payment leaves before the merchant's surcharge
    Surcharge,       \* the merchant's surcharge
    MaxStray         \* bound: what direct payments leave here in an asset

ASSUME ReceivablesAssumption ==
    /\ Coin \notin Erc20
    /\ Nobody \notin Creditor \cup ClaimId
    /\ Tenant # {}
    /\ Due \subseteq Nat /\ Surcharge \subseteq Nat
    /\ \A due \in Due, fee \in Surcharge : fee <= due
    /\ MaxStray \in Nat

Money == Erc20 \cup {Coin}
Terms == [here : BOOLEAN, fee : Surcharge]
Status == {"NONE", "OPEN", "SETTLED", "CANCELLED"}

VARIABLES
    terms,           \* the router's record of a merchant: is payout here, the surcharge
    wired,           \* whether the router has a lanes contract
    claims,          \* id -> status, merchant, asset, surcharge at mint, holder, whether
                     \* it was sold; for the properties, what settling it paid
    held, lane,      \* asset -> this contract's balance, and its lane's
    stray,           \* asset -> what direct payments left in each; for the property
    paying,          \* the frame of a pay in its pull
    snapshot         \* what a revert of it goes back to

chargeVars == <<terms, wired, claims, held, lane, stray>>
receivablesVars == <<chargeVars, paying, snapshot>>

\* A payment's amount due, the net forwarded, and whether the terms that pay had
\* checked still stood when the router read them.
Unpaid == [due |-> 0, net |-> 0, kept |-> TRUE]

Unset == CHOOSE t \in Tenant : TRUE
Unminted ==
    [status |-> "NONE", of |-> Unset, asset |-> Coin, feeAtMint |-> 0,
     holder |-> Nobody, sold |-> FALSE, paid |-> Unpaid]

Resting == [id |-> Nobody, before |-> 0, checked |-> <<>>]

books ==
    [terms |-> terms, wired |-> wired, claims |-> claims, held |-> held, lane |-> lane,
     stray |-> stray]

ReceivablesInit ==
    /\ terms \in [Tenant -> {t \in Terms : t.here}]
    /\ wired \in BOOLEAN
    /\ claims = [id \in ClaimId |-> Unminted]
    /\ held = [m \in Money |-> 0]
    /\ lane = [m \in Money |-> 0]
    /\ stray = [m \in Money |-> [held |-> 0, lane |-> 0]]
    /\ paying = Resting
    /\ snapshot = <<>>

-----------------------------------------------------------------------------
(* The router's side, any of it during a pull as well. *)

UpdateTerms(t, new) ==
    /\ terms' = [terms EXCEPT ![t] = new]
    /\ UNCHANGED <<wired, claims, held, lane, stray, paying, snapshot>>

Wire(on) ==
    /\ wired' = on
    /\ UNCHANGED <<terms, claims, held, lane, stray, paying, snapshot>>

\* A buyer pays the merchant, not an invoice: the net is credited to the lane, or
\* pushed when there are no lanes or the credit failed.
PayDirectly(t, m, due) ==
    LET net == due - terms[t].fee IN
    /\ terms[t].here
    /\ stray[m].held + stray[m].lane + net <= MaxStray
    /\ \/ /\ held' = [held EXCEPT ![m] = @ + net]
          /\ stray' = [stray EXCEPT ![m].held = @ + net]
          /\ UNCHANGED lane
       \/ /\ wired /\ m # Coin
          /\ lane' = [lane EXCEPT ![m] = @ + net]
          /\ stray' = [stray EXCEPT ![m].lane = @ + net]
          /\ UNCHANGED held
    /\ UNCHANGED <<terms, wired, claims, paying, snapshot>>

-----------------------------------------------------------------------------
(* The life of a receivable. *)

Mint(id, t, creditor, m) ==
    /\ paying = Resting
    /\ claims[id].status = "NONE"
    /\ terms[t].here
    /\ claims' = [claims EXCEPT ![id] =
          [Unminted EXCEPT !.status = "OPEN", !.of = t, !.asset = m, !.feeAtMint = terms[t].fee,
                        !.holder = creditor]]
    /\ UNCHANGED <<terms, wired, held, lane, stray, paying, snapshot>>

\* The ERC-721 transfer, by whoever the holder lets; it has no lock.
Assign(id, to) ==
    /\ claims[id].holder # Nobody
    /\ claims' = [claims EXCEPT ![id].holder = to, ![id].sold = TRUE]
    /\ UNCHANGED <<terms, wired, held, lane, stray, paying, snapshot>>

\* By the merchant's owner; it has no lock either.
Cancel(id) ==
    /\ claims[id].status = "OPEN"
    /\ ~claims[id].sold
    /\ claims' = [claims EXCEPT ![id].status = "CANCELLED", ![id].holder = Nobody]
    /\ UNCHANGED <<terms, wired, held, lane, stray, paying, snapshot>>

\* The live re-checks: the payout is still here, the surcharge not above that at mint.
Payable(id) ==
    /\ paying = Resting
    /\ claims[id].status = "OPEN"
    /\ terms[claims[id].of].here
    /\ terms[claims[id].of].fee <= claims[id].feeAtMint

\* What the router sends here for a payment, by the terms it reads itself.
Pushed(t, due) == IF terms[t].here THEN due - terms[t].fee ELSE 0

\* pay up to the pull: settled and burned first, the balance read before the pull.
PayBegins(id) ==
    /\ Payable(id)
    /\ claims[id].asset # Coin
    /\ claims' = [claims EXCEPT ![id].status = "SETTLED", ![id].holder = Nobody]
    /\ paying' = [id |-> id, before |-> held[claims[id].asset], checked |-> terms[claims[id].of]]
    /\ snapshot' = books
    /\ UNCHANGED <<terms, wired, held, lane, stray>>

\* Mutant: the whole lane is claimed, not what this payment credited.
ClaimedBack(balance, before) == balance

\* claimLaneUpTo of what the lane has over what it had before payToken.
Credited(balance, before) == balance - before

\* The pull brought the gross and nothing else came; payToken takes the gross again
\* and credits or pushes the net; what came is forwarded.
PayRouted(due) ==
    LET id == paying.id
        m == claims[id].asset
        t == claims[id].of
        pushed == Pushed(t, due)
    IN  /\ paying # Resting
        /\ held[m] = paying.before
        /\ \E inLane \in IF wired /\ pushed > 0 THEN BOOLEAN ELSE {FALSE} :
              LET credit == IF inLane THEN pushed ELSE 0
                  claimed == IF wired THEN Credited(lane[m] + credit, lane[m]) ELSE 0
                  net == (held[m] + (pushed - credit) + claimed) - paying.before
              IN  /\ lane' = [lane EXCEPT ![m] = @ + credit - claimed]
                  /\ held' = [held EXCEPT ![m] = @ + (pushed - credit) + claimed - net]
                  /\ claims' = [claims EXCEPT ![id].paid =
                        [due |-> due, net |-> net, kept |-> terms[t] = paying.checked]]
        /\ paying' = Resting
        /\ snapshot' = <<>>
        /\ UNCHANGED <<terms, wired, stray>>

\* The pull fails, or brings too little or too much, or a later call reverts.
PayReverts ==
    /\ paying # Resting
    /\ terms' = snapshot.terms /\ wired' = snapshot.wired /\ claims' = snapshot.claims
    /\ held' = snapshot.held /\ lane' = snapshot.lane /\ stray' = snapshot.stray
    /\ paying' = Resting
    /\ snapshot' = <<>>

\* The net is measured around payNative, which has nothing of the payer's excess in it,
\* and is pushed on before the excess; a push that fails reverts all of it.
PayClaimNative(id, due) ==
    LET t == claims[id].of
        before == held[Coin]
        net == (held[Coin] + Pushed(t, due)) - before
    IN  /\ Payable(id)
        /\ claims[id].asset = Coin
        /\ held' = [held EXCEPT ![Coin] = @ + Pushed(t, due) - net]
        /\ claims' = [claims EXCEPT ![id].status = "SETTLED", ![id].holder = Nobody,
                                    ![id].paid = [due |-> due, net |-> net, kept |-> TRUE]]
        /\ UNCHANGED <<terms, wired, lane, stray, paying, snapshot>>

ReceivablesNext ==
    \/ \E t \in Tenant : \/ \E new \in Terms : UpdateTerms(t, new)
                         \/ \E m \in Money, due \in Due : PayDirectly(t, m, due)
    \/ \E on \in BOOLEAN : Wire(on)
    \/ \E id \in ClaimId :
          \/ \E t \in Tenant, creditor \in Creditor, m \in Money : Mint(id, t, creditor, m)
          \/ \E to \in Creditor : Assign(id, to)
          \/ Cancel(id)
          \/ PayBegins(id)
          \/ \E due \in Due : PayClaimNative(id, due)
    \/ \E due \in Due : PayRouted(due)
    \/ PayReverts

ReceivablesSpec == ReceivablesInit /\ [][ReceivablesNext]_receivablesVars

-----------------------------------------------------------------------------
Entry ==
    [status : Status, of : Tenant, asset : Money, feeAtMint : Surcharge \cup {0},
     holder : Creditor \cup {Nobody}, sold : BOOLEAN,
     paid : [due : Due \cup {0}, net : Nat, kept : BOOLEAN]]

Books ==
    [terms : [Tenant -> Terms], wired : BOOLEAN, claims : [ClaimId -> Entry],
     held : [Money -> Nat], lane : [Money -> Nat],
     stray : [Money -> [held : Nat, lane : Nat]]]

ReceivablesTypeOK ==
    /\ books \in Books
    /\ paying \in [id : ClaimId, before : Nat, checked : Terms] \cup {Resting}
    /\ IF paying = Resting THEN snapshot = <<>> ELSE snapshot \in Books

\* In the books b: what is left here is what direct payments left, a sold claim ends by
\* a settlement only, one that is open has one holder, and a settlement but the one in
\* flight paid the amount due less at most the surcharge of the mint.
Honoured(b, inFlight) ==
    /\ \A m \in Money : b.held[m] = b.stray[m].held /\ b.lane[m] = b.stray[m].lane
    /\ \A id \in ClaimId :
          /\ b.claims[id].sold => b.claims[id].status \in {"OPEN", "SETTLED"}
          /\ b.claims[id].holder # Nobody <=> b.claims[id].status = "OPEN"
          /\ b.claims[id].status = "SETTLED" /\ id # inFlight /\ b.claims[id].paid.kept =>
                b.claims[id].paid.net >= b.claims[id].paid.due - b.claims[id].feeAtMint

\* Each settlement forwards its own net and none of anybody else's, in the balance and in
\* the lane, to the unit; a claim that was sold is never taken back, and pays what it was
\* sold for however merchants moved their terms between and whatever ran in the pull, but
\* for a change of those terms in the pull (README.md, section 7).
ClaimsHonoured == Honoured(books, paying.id)

=============================================================================
