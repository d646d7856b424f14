---------------------------- MODULE Subscriptions ----------------------------
(***************************************************************************)
(* Access0x1Subscriptions: recurring pulls against a SessionGrant whose     *)
(* delegate is this contract.  Anyone may renew a subscription that is due; *)
(* a charge that fails for the subscriber's fault duns it, one that fails   *)
(* for the platform's or the merchant's is bubbled up and changes nothing.  *)
(*                                                                          *)
(* Every function but setGraceFailThreshold takes the reentrancy lock.      *)
(* SessionGrant is not behind it: subscribeFor reads the subscriber's nonce *)
(* and has a signature checked, which may call a factory of the relayer's   *)
(* choice (ERC-6492), before it opens the session.  It is two steps, and    *)
(* what needs no lock runs between them; the others are one.  What reverts  *)
(* has not happened: a subscribeFor that would revert is left without its   *)
(* second step, and nothing waits on it.                                    *)
(*                                                                          *)
(* A plan stands for a <<merchantId, planKey>>; of a token only whether the *)
(* subscriber's balance and approval cover a charge is kept, and of the     *)
(* router which of the two calls made on it would revert.                   *)
(***************************************************************************)
EXTENDS Integers, Sequences, FiniteSets

CONSTANTS
    Owner, Counterfactual, NoAddress,
    Self,            \* this contract, the delegate of its sessions
    Plan, Price, Period,
    Cap, Expiry,
    Threshold,       \* what graceFailThreshold may be set to
    Outages,         \* bound: which of "funds", "quote" and "router" come and go
    MaxSubs,         \* bound: subscriptions opened in a behaviour
    MaxIntents,      \* bound: intents signed in a behaviour
    MaxNonce, MaxGrants, MaxTime

SubId == 1..MaxSubs

\* This contract opens no session of its own.
ASSUME SubscriptionsAssumption ==
    /\ Counterfactual \subseteq Owner
    /\ Self \notin Owner \cup {NoAddress}
    /\ Price \subseteq Nat \ {0}
    /\ Period \subseteq Nat \ {0}
    /\ Threshold \subseteq Nat \ {0}
    /\ Cap \subseteq Nat /\ Expiry \subseteq Nat
    /\ MaxSubs \in Nat /\ MaxNonce \in Nat

VARIABLES
    sessions, nonces, grants, now,     \* of SessionGrant
    intents,             \* the SubscribeIntents signed off-chain
    plans,               \* plan -> priceUsd8, periodSecs, active; all 0 before setPlan
    relaying,            \* the subscribeFor under way: its subscriber, the nonce it read
    subs,                \* sub id -> the record
    nextSubId,
    lastDunBucket,       \* sub id -> bucket + 1 of the last dunning, 0 if never
    hasUsedTrial,        \* the <<subscriber, plan>> that have had their trial
    graceFailThreshold,
    funded,              \* subscribers whose balance and approval cover a charge
    priceUp,             \* router.quote would succeed
    routerUp,            \* router.payToken would succeed: not paused, merchant active
    declined             \* history: <<sub id, periodEnd, bucket>> of charges declined

S == INSTANCE SessionGrant WITH
    Delegate <- {Self}, Spending <- {}, MaxDepth <- 0, frames <- << >>

grantVars == <<sessions, nonces, grants, now>>
billing == <<plans, subs, nextSubId, lastDunBucket, hasUsedTrial, graceFailThreshold>>
outside == <<funded, priceUp, routerUp>>
vars == <<grantVars, intents, relaying, billing, outside, declined>>

None == [status |-> "NONE"]
Unlocked == [nonce |-> -1]
Unset == [priceUsd8 |-> 0, periodSecs |-> 0, active |-> FALSE]

Intent ==
    [subscriber : Owner, plan : Plan, budgetCap : Nat, expiry : Nat,
     withTrial : BOOLEAN, nonce : Nat]

Init ==
    /\ S!Init
    /\ intents = {}
    /\ relaying = Unlocked
    /\ plans = [p \in Plan |-> Unset]
    /\ subs = [id \in SubId |-> None]
    /\ nextSubId = 1
    /\ lastDunBucket = [id \in SubId |-> 0]
    /\ hasUsedTrial = {}
    /\ graceFailThreshold \in Threshold
    /\ funded = Owner
    /\ priceUp = TRUE
    /\ routerUp = TRUE
    /\ declined = {}

-----------------------------------------------------------------------------
(* Charging. *)

\* Mutant: every failure is the subscriber's fault.
ChargeBlaming(ss, session, subscriber, price) ==
    IF S!Affords(ss, session, Self, price) /\ priceUp /\ subscriber \in funded /\ routerUp
    THEN "charged" ELSE "declined"

\* What _charge of a session of the table ss comes to.  The calls are, in this
\* order, the meter, the quote, the pull from the subscriber and the router.
Charge(ss, session, subscriber, price) ==
    LET covers == S!Affords(ss, session, Self, price)
        pays == subscriber \in funded
    IN  CASE covers /\ priceUp /\ pays /\ routerUp -> "charged"
          [] covers /\ (~priceUp \/ (pays /\ ~routerUp)) -> "system"
          [] OTHER -> "declined"

-----------------------------------------------------------------------------
(* The functions. *)

\* Only the merchant's owner may call it.
SetPlan(plan, price, period, active) ==
    /\ relaying = Unlocked
    /\ plans' = [plans EXCEPT ![plan] =
           [priceUsd8 |-> price, periodSecs |-> period, active |-> active]]
    /\ UNCHANGED <<grantVars, intents, relaying, subs, nextSubId, lastDunBucket, hasUsedTrial,
                   graceFailThreshold, outside, declined>>

\* Mutant: a trial is given whenever it is asked for.
TrialAgain(subscriber, plan, withTrial) == withTrial

Trialing(subscriber, plan, withTrial) ==
    withTrial /\ <<subscriber, plan>> \notin hasUsedTrial

\* _subscribe, against the sessions ss: a subscriber who has had its trial of
\* the plan starts by paying, and a first charge that fails reverts it all.
SubscribeOn(ss, subscriber, plan, session, withTrial) ==
    LET p == plans[plan]
        trialing == Trialing(subscriber, plan, withTrial)
    IN  /\ nextSubId <= MaxSubs
        /\ p.active
        /\ session.owner = subscriber
        /\ S!RemainingOf(ss, session) >= p.priceUsd8
        /\ subs' = [subs EXCEPT ![nextSubId] =
               [plan |-> plan, subscriber |-> subscriber, session |-> session,
                periodEnd |-> now + p.periodSecs,
                trialExpiresAt |-> IF trialing THEN now + p.periodSecs ELSE 0,
                failCount |-> 0,
                status |-> IF trialing THEN "TRIALING" ELSE "ACTIVE"]]
        /\ nextSubId' = nextSubId + 1
        /\ \/ /\ trialing
              /\ hasUsedTrial' = hasUsedTrial \cup {<<subscriber, plan>>}
              /\ sessions' = ss
           \/ /\ ~trialing
              /\ Charge(ss, session, subscriber, p.priceUsd8) = "charged"
              /\ sessions' = S!Debited(ss, session, p.priceUsd8)
              /\ UNCHANGED hasUsedTrial
        /\ UNCHANGED <<plans, lastDunBucket, graceFailThreshold, outside, declined>>

Subscribe(caller, plan, session, withTrial) ==
    /\ relaying = Unlocked
    /\ caller \notin Counterfactual
    /\ SubscribeOn(sessions, caller, plan, session, withTrial)
    /\ UNCHANGED <<nonces, grants, now, intents, relaying>>

\* subscribeFor up to the factory that the check of the intent calls.  With no intent
\* signed over the nonce it will revert, whatever the factory does.
BeginSubscribeFor(subscriber) ==
    /\ relaying = Unlocked
    /\ \E intent \in intents :
          intent.subscriber = subscriber /\ intent.nonce = nonces[subscriber]
    /\ relaying' = [subscriber |-> subscriber, nonce |-> nonces[subscriber]]
    /\ UNCHANGED <<grantVars, intents, billing, outside, declined>>

\* Mutant: the intent does not bind the plan.
IntendedForAnyPlan(grant, plan, withTrial) ==
    \E intent \in intents :
        intent.subscriber = grant.owner /\ intent.nonce = relaying.nonce

\* The intent is checked over the nonce that was read.
Intended(grant, plan, withTrial) ==
    [subscriber |-> grant.owner, plan |-> plan, budgetCap |-> grant.budgetCap,
     expiry |-> grant.expiry, withTrial |-> withTrial, nonce |-> relaying.nonce] \in intents

\* The rest of subscribeFor.  openSessionFor reads the nonce anew, and calls the
\* factory of the grant's signature: it opens at the nonce it read, or reverts.
SubscribeFor(grant, plan, withTrial) ==
    /\ relaying # Unlocked
    /\ grant.owner = relaying.subscriber
    /\ Intended(grant, plan, withTrial)
    /\ grant \in grants
    /\ S!MayOpen(grant)
    /\ nonces' = S!NextNonces(grant)
    /\ SubscribeOn(S!Opened(grant), grant.owner, plan, S!IdOf(grant), withTrial)
    /\ relaying' = Unlocked
    /\ UNCHANGED <<grants, now, intents>>

Renewable(id) == subs[id].status \in {"TRIALING", "ACTIVE", "PAST_DUE"}

Due(id) == Renewable(id) /\ now >= subs[id].periodEnd

\* The number of whole periods gone by since the due time.
Bucket(id) == (now - subs[id].periodEnd) \div plans[subs[id].plan].periodSecs

\* Mutant: a renewal restarts the period instead of advancing it.
RenewedFromNow(id) ==
    /\ sessions' = S!Debited(sessions, subs[id].session, plans[subs[id].plan].priceUsd8)
    /\ subs' = [subs EXCEPT ![id] =
           [subs[id] EXCEPT !.periodEnd = now + plans[subs[id].plan].periodSecs,
                            !.failCount = 0,
                            !.status = "ACTIVE"]]
    /\ UNCHANGED <<lastDunBucket, declined>>

\* renew, the charge going through: the period advances by the plan's period
\* of the moment.  A plan made inactive still renews.
Renewed(id) ==
    /\ sessions' = S!Debited(sessions, subs[id].session, plans[subs[id].plan].priceUsd8)
    /\ subs' = [subs EXCEPT ![id] =
           [subs[id] EXCEPT !.periodEnd = subs[id].periodEnd + plans[subs[id].plan].periodSecs,
                            !.failCount = 0,
                            !.status = "ACTIVE"]]
    /\ UNCHANGED <<lastDunBucket, declined>>

\* The bucket dunned last is not dunned again.
Throttled(id) == lastDunBucket[id] = Bucket(id) + 1

MarkRenewalFailed(id) ==
    LET fails == subs[id].failCount + 1
    IN  IF Throttled(id)
        THEN UNCHANGED <<subs, lastDunBucket>>
        ELSE /\ lastDunBucket' = [lastDunBucket EXCEPT ![id] = Bucket(id) + 1]
             /\ subs' = [subs EXCEPT ![id] =
                    [subs[id] EXCEPT !.failCount = fails,
                                     !.status = IF fails >= graceFailThreshold
                                                THEN "UNPAID" ELSE "PAST_DUE"]]

Renew(id) ==
    /\ relaying = Unlocked
    /\ Due(id)
    /\ LET outcome == Charge(sessions, subs[id].session, subs[id].subscriber,
                             plans[subs[id].plan].priceUsd8)
       IN  \/ outcome = "charged" /\ Renewed(id)
           \/ /\ outcome = "declined"
              /\ MarkRenewalFailed(id)
              /\ declined' = declined \cup {<<id, subs[id].periodEnd, Bucket(id)>>}
              /\ UNCHANGED sessions
    /\ UNCHANGED <<nonces, grants, now, intents, relaying, plans, nextSubId, hasUsedTrial,
                   graceFailThreshold, outside>>

\* The revocation is tried as this contract, which is the delegate.
Cancel(id, caller) ==
    /\ relaying = Unlocked
    /\ subs[id] # None
    /\ caller = subs[id].subscriber
    /\ subs[id].status # "CANCELED"
    /\ subs' = [subs EXCEPT ![id].status = "CANCELED"]
    /\ IF S!MayRevoke(subs[id].session, Self)
       THEN S!Revoke(subs[id].session, Self)
       ELSE UNCHANGED sessions
    /\ UNCHANGED <<nonces, grants, now, intents, relaying, plans, nextSubId, lastDunBucket,
                   hasUsedTrial, graceFailThreshold, outside, declined>>

\* Only the platform's or the merchant's owner may call it.  The current bucket
\* counts as dunned.
Reactivate(id) ==
    /\ relaying = Unlocked
    /\ subs[id].status = "UNPAID"
    /\ subs' = [subs EXCEPT ![id] =
           [subs[id] EXCEPT !.failCount = 0, !.status = "PAST_DUE"]]
    /\ lastDunBucket' = [lastDunBucket EXCEPT ![id] =
           IF now > subs[id].periodEnd THEN Bucket(id) + 1 ELSE 1]
    /\ UNCHANGED <<grantVars, intents, relaying, plans, nextSubId, hasUsedTrial,
                   graceFailThreshold, outside, declined>>

\* The one function without the lock.
SetGraceFailThreshold(n) ==
    /\ graceFailThreshold' = n
    /\ UNCHANGED <<grantVars, intents, relaying, plans, subs, nextSubId, lastDunBucket,
                   hasUsedTrial, outside, declined>>

-----------------------------------------------------------------------------
(* The surroundings. *)

\* Sessions are opened, by their owners or off signed grants, and revoked; a
\* factory may do it too.
Sessions ==
    /\ \/ \E owner \in Owner, cap \in Cap, expiry \in Expiry :
             S!OpenSession(owner, Self, cap, expiry)
       \/ \E grant \in grants : S!Open(grant) /\ UNCHANGED <<grants, now>>
       \/ \E session \in S!SessionId, owner \in Owner :
             S!Revoke(session, owner) /\ UNCHANGED <<nonces, grants, now>>
    /\ UNCHANGED <<intents, relaying, billing, outside, declined>>

\* Between transactions accounts sign grants, and time passes.
Meanwhile ==
    /\ relaying = Unlocked
    /\ \/ \E owner \in Owner, cap \in Cap, expiry \in Expiry, nonce \in 0..(MaxNonce - 1) :
             S!SignGrant([owner |-> owner, delegate |-> Self, budgetCap |-> cap,
                          expiry |-> expiry, nonce |-> nonce])
       \/ S!Tick
    /\ UNCHANGED <<intents, relaying, billing, outside, declined>>

SignIntent(intent) ==
    /\ relaying = Unlocked
    /\ Cardinality(intents) < MaxIntents
    /\ intents' = intents \cup {intent}
    /\ UNCHANGED <<grantVars, relaying, billing, outside, declined>>

\* A balance or an approval comes or goes, the oracle, the token's listing, the
\* pause or the merchant's own switch.
OutsideChanges ==
    /\ \/ \E owner \in Owner :
             /\ "funds" \in Outages
             /\ funded' = (funded \ {owner}) \cup ({owner} \ funded)
             /\ UNCHANGED <<priceUp, routerUp>>
       \/ "quote" \in Outages /\ priceUp' = ~priceUp /\ UNCHANGED <<funded, routerUp>>
       \/ "router" \in Outages /\ routerUp' = ~routerUp /\ UNCHANGED <<funded, priceUp>>
    /\ UNCHANGED <<grantVars, intents, relaying, billing, declined>>

Next ==
    \/ \E plan \in Plan :
          \/ \E price \in Price, period \in Period, active \in BOOLEAN :
                SetPlan(plan, price, period, active)
          \/ \E session \in S!SessionId, withTrial \in BOOLEAN :
                Subscribe(session.owner, plan, session, withTrial)
          \/ \E grant \in grants, withTrial \in BOOLEAN : SubscribeFor(grant, plan, withTrial)
    \/ \E id \in SubId :
          \/ Renew(id)
          \/ \E caller \in Owner : Cancel(id, caller)
          \/ Reactivate(id)
    \/ \E n \in Threshold : SetGraceFailThreshold(n)
    \/ Sessions
    \/ Meanwhile
    \/ \E subscriber \in Owner : BeginSubscribeFor(subscriber)
    \/ \E owner \in Owner, plan \in Plan, cap \in Cap, expiry \in Expiry,
          withTrial \in BOOLEAN, nonce \in 0..(MaxNonce - 1) :
           SignIntent([subscriber |-> owner, plan |-> plan, budgetCap |-> cap,
                       expiry |-> expiry, withTrial |-> withTrial, nonce |-> nonce])
    \/ OutsideChanges

Spec == Init /\ [][Next]_vars

-----------------------------------------------------------------------------
Status == {"TRIALING", "ACTIVE", "PAST_DUE", "UNPAID", "CANCELED"}

Sub ==
    [plan : Plan, subscriber : Owner, session : S!SessionId, periodEnd : Nat,
     trialExpiresAt : Nat, failCount : Nat, status : Status]

TypeOK ==
    /\ S!TypeOK
    /\ intents \subseteq Intent
    /\ relaying \in {Unlocked} \cup [subscriber : Owner, nonce : Nat]
    /\ plans \in [Plan -> [priceUsd8 : Nat, periodSecs : Nat, active : BOOLEAN]]
    /\ subs \in [SubId -> {None} \cup Sub]
    /\ nextSubId \in 1..(MaxSubs + 1)
    /\ lastDunBucket \in [SubId -> Nat]
    /\ hasUsedTrial \subseteq Owner \X Plan
    /\ graceFailThreshold \in Nat \ {0}
    /\ funded \subseteq Owner
    /\ priceUp \in BOOLEAN /\ routerUp \in BOOLEAN
    /\ declined \subseteq SubId \X Nat \X Nat

Taken == {id \in SubId : subs[id] # None}

\* A subscription is a bill on a mandate: the ideal billing is implemented.
Mandates ==
    [session \in S!SessionId |->
        IF S!Exists(session) /\ ~sessions[session].revoked
        THEN [good |-> TRUE, owner |-> session.owner, until |-> sessions[session].expiry,
              left |-> sessions[session].budgetCap - sessions[session].spent]
        ELSE [good |-> FALSE]]

Tariff == [p \in Plan |-> [price |-> plans[p].priceUsd8, period |-> plans[p].periodSecs]]

Bills ==
    [id \in SubId |->
        IF id \in Taken
        THEN [state |-> CASE subs[id].status = "CANCELED" -> "closed"
                          [] subs[id].status = "UNPAID" -> "suspended"
                          [] OTHER -> "open",
              payer |-> subs[id].subscriber, mandate |-> subs[id].session,
              plan |-> subs[id].plan, due |-> subs[id].periodEnd,
              trial |-> subs[id].trialExpiresAt # 0]
        ELSE [state |-> "none"]]

Ideal == INSTANCE IdealBilling WITH
    Account <- Owner, Mandate <- S!SessionId, Bill <- SubId,
    mandates <- Mandates, tariff <- Tariff, bills <- Bills, clock <- now

\* Every pull is one price for one period that has come due, from a budget of
\* the subscriber's own, and none follows a cancellation or comes while UNPAID.
\* However often a subscriber comes back, it has one trial of a plan.
HonoursMandates == Ideal!Spec

\* A subscriber whose budget and balance cover the charge is never dunned for an
\* oracle that is stale, a router that is paused or a merchant that is inactive.
BlamelessNotDunned ==
    [][\A id \in Taken :
          subs'[id].failCount > subs[id].failCount =>
              \/ subs[id].subscriber \notin funded
              \/ ~S!Affords(sessions, subs[id].session, Self,
                            plans[subs[id].plan].priceUsd8)]_vars

\* The intents that a subscription of an account that only signs may rest on: of
\* its plan and its terms, over a nonce not later than its session's, with no
\* other subscription of that account on a session in between.
IntentsOf(id) ==
    LET s == subs[id]
    IN  {intent \in intents :
            /\ intent.subscriber = s.subscriber
            /\ intent.plan = s.plan
            /\ intent.budgetCap = sessions[s.session].budgetCap
            /\ intent.expiry = sessions[s.session].expiry
            /\ s.trialExpiresAt # 0 => intent.withTrial
            /\ intent.nonce <= s.session.nonce
            /\ \A other \in Taken \ {id} :
                  subs[other].subscriber = s.subscriber =>
                      subs[other].session.nonce \notin intent.nonce..s.session.nonce}

\* A relayer cannot redirect, nor use an intent twice: an account that only signs has
\* no subscription but to the plan and on the terms of an intent it signed, one for
\* each, whatever the factories of the relayer do between the two checks.
AsIntended == \A id \in Taken : subs[id].subscriber \in Counterfactual => IntentsOf(id) # {}

-----------------------------------------------------------------------------
(* What the repository says of the contract and the code does not do. *)

\* IAccess0x1Subscriptions on SubStatus: "ACTIVE -> PAST_DUE on a failed renewal
\* within grace".
DunnedWhenDeclined ==
    \A id \in Taken :
        subs[id].status = "ACTIVE" =>
            ~ \E d \in declined : d[1] = id /\ d[2] = subs[id].periodEnd

\* subscribeFor: the intent is "pinned to the grant's CURRENT nonce", and so
\* "single-use and inseparable from this grant".
IntentIsOfGrant ==
    \A id \in Taken : subs[id].subscriber \in Counterfactual =>
        \E intent \in IntentsOf(id) : intent.nonce = subs[id].session.nonce

=============================================================================
